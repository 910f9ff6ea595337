---------------------------- MODULE MCBootDrivers ----------------------------
(* Hives with four services, all of one group with tags that are listed,    *)
(* unlisted or missing, or of any groups; and one with each key missing.    *)
EXTENDS BootDrivers

InstanceOrder == <<"scsi", "filter">>
InstanceVectors == [g \in {"scsi", "other"} |-> (0 :> 3) @@ (1 :> 7) @@ (2 :> 5) @@ (3 :> 9)]

Driver(start, g, tag) == [Start |-> start, group |-> g, Tag |-> tag]

Scsi == {Driver(0, "scsi", tag) : tag \in {7, 5, 9, 4, Missing}}
Mixed == {Driver(1, "scsi", 7), Driver(0, "filter", 7), Driver(0, NoGroup, Missing),
          Driver(0, "other", 5), Driver(0, "other", 7)}

Hive(services, fs) ==
    [Default |-> 1, Current |-> 0, controlSets |-> {1}, keys |-> KeyNames,
     codePage |-> ("ACP" :> "1252") @@ ("OEMCP" :> "437") @@ ("OEMHAL" :> "vgaoem.fon")
                  @@ ("1252" :> "c_1252.nls") @@ ("437" :> "c_437.nls"),
     language |-> ("Default" :> "0409") @@ ("0409" :> "l_intl.nls"),
     services |-> services, fileSystem |-> fs]

Plain == Hive(<<Driver(0, "scsi", 7), Driver(0, "filter", Missing)>>, 2)

Without(f, name) == [x \in DOMAIN f \ {name} |-> f[x]]

Broken ==
    {[Plain EXCEPT !.keys = KeyNames \ {key}] : key \in KeyNames}
    \cup {[Plain EXCEPT !.Default = d] : d \in {2, Missing}}
    \cup {[Plain EXCEPT !.Current = Missing]}
    \cup {[Plain EXCEPT !.codePage = Without(Plain.codePage, n)] :
             n \in DOMAIN Plain.codePage}
    \cup {[Plain EXCEPT !.language = Without(Plain.language, n)] :
             n \in DOMAIN Plain.language}

InstanceHives ==
    Broken
    \cup {Hive(s, fs) : s \in [1 .. 4 -> Scsi], fs \in {1}}
    \cup {Hive(<<a, b, c, d>>, 3) : a, b, c, d \in Mixed \cup {Driver(0, "scsi", 5)}}
==============================================================================
