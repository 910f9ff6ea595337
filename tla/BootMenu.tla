------------------------------ MODULE BootMenu ------------------------------
(***************************************************************************)
(* Start-up and the boot menu: the search for the keyboard, then a         *)
(* countdown during which a key on the serial line or on the USB keyboard  *)
(* chooses between the OS loader and the ARC DOS shell.  Both are read     *)
(* through the firmware vector, AEReadStatus and AERead.  The clock and    *)
(* the user act at any moment; opening the console cannot fail here.       *)
(***************************************************************************)
EXTENDS UsbKeyboard

CONSTANTS
    BOOT_MENU_SECONDS,
    SerialBytes        \* what comes over the serial line

ASSUME MenuAssumption == BOOT_MENU_SECONDS \in Nat \ {0}

BOOT_MENU_DEFAULT == 1

VARIABLES
    at,         \* "start", "menu", "read"; then "loader", "shell", and how it ended
    remaining,
    over,       \* the second that is waited for has passed
    choice,
    uart,       \* the bytes in the receiver of the serial line
    seen        \* history: the bytes the menu has read

menuvars == <<at, remaining, over, choice, uart, seen>>

MenuInit ==
    /\ at = "start" /\ remaining = BOOT_MENU_SECONDS /\ over = FALSE /\ choice = 0
    /\ uart = <<>> /\ seen = <<>>

StartMenu ==
    /\ at = "start" /\ usb = "done" /\ at' = "menu"
    /\ UNCHANGED <<usbvars, remaining, over, choice, uart, seen>>

------------------------------------------------------------------------------
(* The console input of the vector.  Both routines ask the serial line first. *)

\* AEReadStatus: Next is where its caller goes when a byte waits, Again when none does.
ReadStatus(Next, Again) ==
    /\ IF uart # <<>> THEN at' = Next /\ UNCHANGED <<queue, reports, trouble>>
       ELSE \E p \in usb_kbd_poll :
              /\ queue' = p.queue /\ reports' = p.reports /\ trouble' = p.trouble
              /\ at' = IF SomethingWaits(p.queue) THEN Next ELSE Again
    /\ UNCHANGED <<search, held, events, typed, given, uart>>

\* AERead of one byte, once a status has promised it: Then(byte) is what its caller does.
FromSerial ==
    /\ uart # <<>> /\ uart' = Tail(uart)
    /\ UNCHANGED usbvars
FromKeyboard ==
    /\ uart = <<>>
    /\ \E p \in usb_kbd_poll :
          /\ SomethingWaits(p.queue)
          /\ given' = Append(given, usb_kbd_getc(p.queue)) /\ queue' = Removed(p.queue)
          /\ reports' = p.reports /\ trouble' = p.trouble
    /\ UNCHANGED <<search, held, events, typed, uart>>
ByteRead == IF uart # <<>> THEN uart[1] ELSE Last(given')

------------------------------------------------------------------------------
(* The countdown of BlArmBootMenu.                                            *)

Waiting == at = "menu" /\ choice = 0 /\ remaining > 0

MenuStatus ==
    /\ Waiting /\ ~over
    /\ ReadStatus("read", "menu")
    /\ UNCHANGED <<remaining, over, choice, seen>>

\* Mutant: the upper bound of the digits is not tested.
NoUpperBound(c) == CASE c \in {"CR", "1"} -> 1 [] c = "2" -> 2 [] c = "ESC" -> 0 [] OTHER -> 3

Chosen(c) == CASE c = "CR" -> BOOT_MENU_DEFAULT
               [] c = "1" -> 1
               [] c = "2" -> 2
               [] OTHER -> 0

MenuRead ==
    /\ at = "read"
    /\ FromSerial \/ FromKeyboard
    /\ at' = "menu" /\ seen' = Append(seen, ByteRead) /\ choice' = Chosen(ByteRead)
    /\ UNCHANGED <<remaining, over>>

\* Mutant: the countdown starts again with every second.
CountAgain == remaining
CountDown == remaining - 1

NextSecond ==
    /\ Waiting /\ over
    /\ remaining' = CountDown /\ over' = FALSE
    /\ UNCHANGED <<usbvars, at, choice, uart, seen>>

LeaveMenu ==
    /\ at = "menu" /\ ~Waiting
    /\ choice' = IF choice = 0 THEN BOOT_MENU_DEFAULT ELSE choice
    /\ at' = IF choice' = 2 THEN "shell" ELSE "loader"
    /\ UNCHANGED <<usbvars, remaining, over, uart, seen>>

------------------------------------------------------------------------------
(* The clock and the user, while the menu is up.                              *)

SecondPasses ==
    /\ at \in {"menu", "read"} /\ ~over /\ over' = TRUE
    /\ UNCHANGED <<usbvars, at, remaining, choice, uart, seen>>

UserTypes ==
    /\ at \in {"menu", "read"}
    /\ \/ /\ \E k \in Keys : Press(k) \/ Release(k)
          /\ UNCHANGED uart
       \/ /\ OneMore
          /\ \E c \in SerialBytes : uart' = Append(uart, c)
          /\ UNCHANGED <<search, typing, trouble>>
    /\ UNCHANGED <<at, remaining, over, choice, seen>>

MenuSteps == MenuStatus \/ MenuRead \/ NextSecond \/ LeaveMenu \/ StartMenu

------------------------------------------------------------------------------
ChoiceKeys == {"CR", "1", "2"}

\* The first byte read that names a choice decides, whichever line it came by and
\* whatever was read before it; nothing is read after it; and without one the default
\* is taken when the seconds are up.
MenuObeys ==
    /\ \A i \in DOMAIN seen : seen[i] \in ChoiceKeys => i = Len(seen)
    /\ at \notin {"start", "menu", "read"} =>
          IF seen # <<>> /\ Last(seen) \in ChoiceKeys THEN (choice = 2) <=> (Last(seen) = "2")
          ELSE choice = BOOT_MENU_DEFAULT /\ remaining = 0
==============================================================================
