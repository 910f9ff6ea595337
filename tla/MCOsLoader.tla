------------------------------ MODULE MCOsLoader ------------------------------
(* An instance of the boot for TLC.                                           *)
EXTENDS OsLoader, TLC

MCHubs == {<<"other", "keyboard">>, <<"none", "keyboard">>, <<"keyboard", "keyboard">>}

MCDecoded == "two" :> <<"2">> @@ "up" :> <<"ESC", "[", "A">> @@ "enter" :> <<"CR">>
===============================================================================
