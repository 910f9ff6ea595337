----------------------------- MODULE UsbKeyboard -----------------------------
(***************************************************************************)
(* The USB keyboard: the search of the ports of the hub for one, by        *)
(* control transfers that may fail or be put off, and the polling of its   *)
(* reports into a ring of bytes.  There are no interrupts: the keyboard is *)
(* heard only while somebody waits for a key.                              *)
(*                                                                         *)
(* The devices, the hub and the user are outside the code: a device that   *)
(* is reset answers at address 0 until it is given another, it sends the   *)
(* packets of an answer one after the other, and a keyboard makes a report *)
(* of the keys that are down whenever they change.                         *)
(***************************************************************************)
EXTENDS Integers, Sequences, FiniteSets, SequencesExt

CONSTANTS
    Hubs,            \* what is on the ports: sequences of "none", "keyboard", "other"
    CTRL_AGAIN_MAX,  \* how often a stage is tried again
    Keys, Decoded,   \* the keys, and the bytes each stands for
    KBD_RING_SIZE,
    MaxEvents,       \* bound: how often a key is pressed or something fails, together
    MaxReports       \* bound: how many reports the keyboard holds back

\* All bytes the keys stand for.
Bytes == UNION {{Decoded[k][i] : i \in DOMAIN Decoded[k]} : k \in Keys}

ASSUME KeyboardAssumption ==
    /\ Hubs \subseteq Seq({"none", "keyboard", "other"})
    /\ DOMAIN Decoded = Keys /\ \A k \in Keys : Decoded[k] \in Seq(Bytes)
    /\ KBD_RING_SIZE \in Nat \ {0, 1}

Disabled == -1     \* a port that has not been reset
ADDR_KBD == 2      \* the first address given to a device behind the hub
HeaderPackets == 2 \* the packets of the head of a configuration, and of all of it
ConfigPackets == 3
REPORT_KEYS == 6   \* the keys a report has room for

VARIABLES
    hub,      \* the device on each port
    address,  \* the address each of them answers at
    usb,      \* the routine of the search that runs, "done" at its end
    probe,    \* i, next_addr, the packets in data_buf, what the device has sent, tries
    kbd,      \* present, addr, hub_port, and whether its endpoint was read right
    queue,    \* kbd_ring, kbd_head, kbd_tail and prev_keys
    held,     \* the keys that are down, in the order they were pressed
    reports,  \* the reports the keyboard has not sent yet
    events,   \* how many keys were pressed and how many things failed
    trouble,  \* history: what went wrong
    typed,    \* history: the bytes of the keys pressed
    given     \* history: the bytes handed over

search == <<hub, usb, probe, address, kbd>>
typing == <<queue, held, reports, typed, given>>
usbvars == <<search, typing, trouble, events>>

NoProbe == [port |-> 1, addr |-> ADDR_KBD, buf |-> <<>>, sent |-> 0, tries |-> 0,
            whole |-> TRUE]
NoTrouble == [failed |-> FALSE, clash |-> FALSE, restarted |-> FALSE, dropped |-> FALSE,
              late |-> FALSE]

UsbInit ==
    /\ hub \in Hubs /\ usb = "usb_init" /\ probe = NoProbe
    /\ address = [p \in DOMAIN hub |-> Disabled]
    /\ kbd = [present |-> FALSE, addr |-> 0, hub_port |-> 0, epRead |-> FALSE]
    /\ queue = [ring |-> [i \in 0 .. KBD_RING_SIZE - 1 |-> "none"], head |-> 0, tail |-> 0,
                prev_keys |-> <<>>]
    /\ held = <<>> /\ reports = <<>> /\ trouble = NoTrouble
    /\ events = 0 /\ typed = <<>> /\ given = <<>>

------------------------------------------------------------------------------
(* The search: usb_hub_enumerate and usb_kbd_enumerate.                      *)

Answering(a) == {p \in DOMAIN hub : address[p] = a}

OneMore == events < MaxEvents /\ events' = events + 1

\* A request that fails: nobody answers, several do at once, or a fault.
Fault == OneMore /\ trouble' = [trouble EXCEPT !.failed = TRUE]
Fails(a) ==
    \/ Cardinality(Answering(a)) # 1 /\ UNCHANGED <<trouble, events>>
    \/ Cardinality(Answering(a)) = 1 /\ Fault

\* Mutant: the address is not moved on after a device that is no keyboard.
SameAddress(a) == a

NextAddress(a) == a + 1

NextPort == probe' = [NoProbe EXCEPT !.port = probe.port + 1, !.addr = NextAddress(probe.addr)]
GiveUp == usb' = "status" /\ NextPort

NoMore == usb' = "done" /\ probe' = NoProbe

\* The controller, the root port and the hub come up, or there is no keyboard.
BringUp ==
    /\ usb = "usb_init"
    /\ \/ usb' = "status" /\ UNCHANGED <<probe, trouble, events>>
       \/ NoMore /\ Fault
    /\ UNCHANGED <<hub, address, kbd, typing>>

\* GET_STATUS, and the reset of the port if something is connected.  The result of
\* the reset request is not looked at; a failing GET_STATUS ends the search.
ProbePort ==
    /\ usb = "status"
    /\ \/ probe.port \notin DOMAIN hub /\ NoMore /\ UNCHANGED <<address, trouble, events>>
       \/ /\ probe.port \in DOMAIN hub
          /\ \/ NoMore /\ Fault /\ UNCHANGED address
             \/ /\ hub[probe.port] = "none"
                /\ probe' = [probe EXCEPT !.port = @ + 1]
                /\ UNCHANGED <<usb, address, trouble, events>>
             \/ /\ hub[probe.port] # "none" /\ usb' = "mps" /\ UNCHANGED probe
                /\ \/ OneMore /\ UNCHANGED address
                   \/ UNCHANGED events /\ address' = [address EXCEPT ![probe.port] = 0]
                /\ trouble' = [trouble EXCEPT !.clash = @ \/ Answering(0) # {},
                                              !.failed = @ \/ address' = address]
    /\ UNCHANGED <<hub, kbd, typing>>

\* The first 8 bytes of the device descriptor, one packet, asked at address 0.
GetMps ==
    /\ usb = "mps"
    /\ \/ Answering(0) # {} /\ usb' = "address" /\ UNCHANGED <<probe, trouble, events>>
       \/ Fails(0) /\ GiveUp
    /\ UNCHANGED <<hub, address, kbd, typing>>

\* Whoever answers at address 0 takes the new address.
SetAddress ==
    /\ usb = "address"
    /\ \/ /\ Answering(0) # {} /\ usb' = "header"
          /\ address' = [p \in DOMAIN hub |-> IF address[p] = 0 THEN probe.addr ELSE address[p]]
          /\ probe' = [probe EXCEPT !.whole = Cardinality(Answering(0)) = 1]
          /\ UNCHANGED <<trouble, events>>
       \/ Fails(0) /\ GiveUp /\ UNCHANGED address
    /\ UNCHANGED <<hub, kbd, typing>>

------------------------------------------------------------------------------
(* A data stage towards the host.  A device slower than the hub is reached    *)
(* by split transactions, one packet at a time; when it puts off a packet     *)
(* chunk_msg returns XFER_AGAIN and usb_ctrl_stage starts the stage over, at  *)
(* the start of the buffer, while the device goes on with the next packet.    *)

Packets == IF usb = "header" THEN HeaderPackets ELSE ConfigPackets
InDataStage == usb \in {"header", "config"} /\ Answering(probe.addr) # {}

PacketArrives ==
    /\ InDataStage /\ probe.sent < Packets
    /\ probe' = [probe EXCEPT !.sent = @ + 1, !.buf = Append(@, probe.sent + 1)]
    /\ UNCHANGED <<hub, usb, address, kbd, typing, trouble, events>>

PacketPutOff ==
    /\ InDataStage /\ probe.sent < Packets
    /\ \E p \in Answering(probe.addr) : hub[p] = "keyboard"
    /\ probe.tries < CTRL_AGAIN_MAX
    /\ probe' = [probe EXCEPT !.buf = <<>>, !.tries = @ + 1]
    /\ trouble' = [trouble EXCEPT !.restarted = @ \/ probe.buf # <<>>]
    /\ UNCHANGED <<hub, usb, address, kbd, typing, events>>

RequestFails ==
    /\ usb \in {"header", "config"}
    /\ Fails(probe.addr) /\ GiveUp
    /\ UNCHANGED <<hub, address, kbd, typing>>

\* The last packet is short and ends the stage.  How much came is not looked at.
InOrder(buf) == buf = [i \in 1 .. Packets |-> i]
StageDone ==
    /\ InDataStage /\ probe.sent = Packets
    /\ \E whole \in {probe.whole /\ InOrder(probe.buf)}, p \in Answering(probe.addr) :
          IF usb = "header"
          THEN usb' = "config" /\ probe' = [NoProbe EXCEPT !.port = probe.port,
                                                  !.addr = probe.addr, !.whole = whole]
          ELSE \* the walk over the descriptors, which in a mangled buffer meets anything
               \/ /\ whole => hub[p] = "keyboard"
                  /\ usb' = "select" /\ probe' = [probe EXCEPT !.whole = whole]
               \/ (whole => hub[p] # "keyboard") /\ GiveUp
    /\ UNCHANGED <<hub, address, kbd, typing, trouble, events>>

\* SET_CONFIGURATION, with a value that may be mangled too; the requests after it are
\* best-effort.
SelectConfiguration ==
    /\ usb = "select"
    /\ \/ /\ NoMore /\ UNCHANGED <<trouble, events>>
          /\ kbd' = [present |-> TRUE, addr |-> probe.addr, hub_port |-> probe.port,
                     epRead |-> probe.whole]
       \/ Fails(probe.addr) /\ GiveUp /\ UNCHANGED kbd
       \/ ~probe.whole /\ GiveUp /\ UNCHANGED <<kbd, trouble, events>>
    /\ UNCHANGED <<hub, address, typing>>

Search ==
    \/ BringUp \/ ProbePort \/ GetMps \/ SetAddress
    \/ PacketArrives \/ PacketPutOff \/ StageDone \/ SelectConfiguration
    \/ RequestFails

------------------------------------------------------------------------------
(* Keys, reports and the ring.                                                *)

\* The report of a change lists the keys that are down, of which the user holds no more
\* than it has room for.
KeysChange(keys) ==
    /\ Len(reports) < MaxReports
    /\ held' = keys /\ reports' = Append(reports, keys)
    /\ UNCHANGED <<search, queue, given, trouble>>

Press(k) ==
    /\ kbd.present /\ ~Contains(held, k) /\ Len(held) < REPORT_KEYS /\ OneMore
    /\ typed' = typed \o Decoded[k]
    /\ KeysChange(Append(held, k))

Release(k) ==
    /\ \E i \in DOMAIN held : held[i] = k /\ KeysChange(RemoveAt(held, i))
    /\ UNCHANGED <<events, typed>>

IsFull(q) == (q.head + 1) % KBD_RING_SIZE = q.tail

kbd_push(q, c) ==
    IF IsFull(q) THEN q
    ELSE [q EXCEPT !.ring[q.head] = c, !.head = (q.head + 1) % KBD_RING_SIZE]

\* Mutant: every key of a report counts as pressed.
AnyKey(key, prev) == TRUE

\* A key that is down now and was not in the report before.
JustPressed(key, prev) == ~Contains(prev, key)

\* What the loops over the keys of a report, and over the bytes of a key, come to.
Emitted(report, prev) ==
    LET After[n \in 0 .. Len(report)] ==
            IF n = 0 THEN <<>>
            ELSE IF JustPressed(report[n], prev) THEN After[n - 1] \o Decoded[report[n]]
            ELSE After[n - 1]
    IN After[Len(report)]

Pushed(q, bytes) ==
    LET After[n \in 0 .. Len(bytes)] ==
            IF n = 0 THEN q ELSE kbd_push(After[n - 1], bytes[n])
    IN After[Len(bytes)]

InRing(q) == (q.head - q.tail) % KBD_RING_SIZE

\* usb_kbd_poll, by an interrupt transfer that is not tried again: no report, or an
\* error; a report; or one the hub has fetched and the host asks for too late.
NoReport == [queue |-> queue, reports |-> reports, trouble |-> trouble]
ReportLost == [NoReport EXCEPT !.reports = Tail(@), !.trouble = [@ EXCEPT !.late = TRUE]]
ReportTaken ==
    LET bytes == Emitted(reports[1], queue.prev_keys)
        after == Pushed([queue EXCEPT !.prev_keys = reports[1]], bytes)
    IN [queue |-> after, reports |-> Tail(reports),
        trouble |-> [trouble EXCEPT !.dropped = @ \/ InRing(after) # InRing(queue) + Len(bytes)]]

usb_kbd_poll ==
    {NoReport} \union IF kbd.present /\ kbd.epRead /\ reports # <<>>
                      THEN {ReportTaken, ReportLost} ELSE {}

\* The ring after the poll: what usb_kbd_rx_ready and usb_kbd_getc go by.
SomethingWaits(q) == q.head # q.tail
usb_kbd_getc(q) == q.ring[q.tail]
Removed(q) == [q EXCEPT !.tail = (q.tail + 1) % KBD_RING_SIZE]

------------------------------------------------------------------------------
Content(q) == [i \in 1 .. InRing(q) |-> q.ring[(q.tail + i - 1) % KBD_RING_SIZE]]
Buffered == Content(queue)

\* How many of some are met, in their order, on the way through all.
Met(some, all) ==
    LET Count[n \in 0 .. Len(all)] ==
            IF n = 0 THEN 0
            ELSE IF Count[n - 1] < Len(some) /\ some[Count[n - 1] + 1] = all[n]
                 THEN Count[n - 1] + 1
            ELSE Count[n - 1]
    IN Count[Len(all)]

InSameOrder(some, all) == Met(some, all) = Len(some)

\* A key pressed gives its bytes once and in the order of the presses, however the
\* polls fall between the reports and whatever reports are lost; and unless one was, or
\* the ring was full, nothing of what was typed is missing.
TypedOnceInOrder ==
    /\ InSameOrder(given \o Buffered, typed)
    /\ (reports = <<>> /\ ~trouble.late /\ ~trouble.dropped) => given \o Buffered = typed

TheKeyboard ==
    /\ hub[kbd.hub_port] = "keyboard" /\ kbd.epRead
    /\ Answering(kbd.addr) = {kbd.hub_port}

\* The search ends with the keyboard, alone at its address, if one is connected and no
\* request failed; and if one failed, still with a keyboard alone at its address or with
\* none, unless the device whose request failed was left at address 0.
FoundIfThere ==
    (usb = "done" /\ ~trouble.restarted) =>
        /\ (kbd.present /\ ~trouble.clash) => TheKeyboard
        /\ (~trouble.failed /\ \E p \in DOMAIN hub : hub[p] = "keyboard") => kbd.present
==============================================================================
