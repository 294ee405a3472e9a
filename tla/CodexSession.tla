---------------------------- MODULE CodexSession ----------------------------
(***************************************************************************)
(* Session arbitration of the Codex Micro protocol: the two transports     *)
(* (USB HID and BLE HID), their callback tasks, the inbound report queue   *)
(* and codex_micro::service(), which the main task runs once per loop.     *)
(*                                                                         *)
(* The callback tasks share four things with the main task and nothing     *)
(* else: the epoch, the liveness stamp and the reset flag of each          *)
(* transport (atomics) and the FreeRTOS queue.  One action is one access   *)
(* to shared state together with the main-task work that follows it, so a  *)
(* callback may run between any two accesses of the main task.             *)
(***************************************************************************)
EXTENDS Integers, Sequences, FiniteSets

CONSTANTS
  ClockModulus,   \* now_ms() is a uint32_t: 2^32
  MaxTime,        \* bound on the clock; from ClockModulus on it wraps for ever
  SessionIdle,    \* kSessionIdleMs
  Settle,         \* kHandshakeSettleMs
  QueueCapacity,  \* kInboundCapacity
  MaxFragments,   \* kMaxJson, counted in reports
  MaxEpoch,       \* bounds on the number of resets of each transport
  Kinds,          \* the messages the hosts send, see AllKinds
  Parts,          \* the reports they are cut into, see AllParts
  FastReconnect   \* TRUE: a new connection may report before service() runs

Usb == "usb"
Ble == "ble"
None == "none"
Transports == {Usb, Ble}

\* The three methods of the handshake, any other method the host may call, and
\* the ways a message is cut into reports.
Methods == {"config", "threads", "status"}
AllKinds == Methods \cup {"other"}
AllParts == {"whole", "head", "tail"}

ASSUME SessionConstants ==
  /\ ClockModulus \in Nat /\ MaxTime \in Nat
  /\ MaxEpoch \in [Transports -> Nat \ {0}]
  /\ SessionIdle \in Nat /\ Settle \in Nat
  /\ SessionIdle < ClockModulus /\ 1 < ClockModulus
  /\ QueueCapacity \in Nat \ {0} /\ MaxFragments \in Nat \ {0}
  /\ FastReconnect \in BOOLEAN
  /\ Kinds \subseteq AllKinds
  /\ Parts \subseteq AllParts

VARIABLES
  now,          \* esp_timer in milliseconds, cut to 32 bits
  epoch,        \* usb_epoch, ble_epoch
  lastValid,    \* usb_last_valid_ms, ble_last_valid_ms; 0 is "never"
  resetPending, \* usb_reset_pending, ble_reset_pending
  queue,        \* inbound_queue
  buffer,       \* usb_input, ble_input: the fragments of an unfinished line
  mask,         \* Tracker::mask_
  holdUntil,    \* Tracker::hold_until_ms_
  owner,        \* presentation_owner
  link,         \* the host can deliver reports on this transport
  usbEnabled,   \* usb_transport: enabled
  sending,      \* the message the host has sent the first half of
  cbPc,         \* where the callback task of a transport is
  pc,           \* where the main task is
  report,       \* the report service_report() works on
  line,         \* the fragments of the line handed to handle()
  heard,        \* history: epoch in which a method was last applied, per owner
  stampEpoch,   \* history: epoch of the report that wrote lastValid
  raced         \* history: a reset ran while a line of its transport was handled

shared == <<epoch, lastValid, resetPending>>
session == <<mask, holdUntil>>
environment == <<link, usbEnabled, sending>>
history == <<heard, stampEpoch, raced>>
vars == <<now, epoch, lastValid, resetPending, queue, buffer, mask, holdUntil,
          owner, link, usbEnabled, sending, cbPc, pc, report, line,
          heard, stampEpoch, raced>>

Reports == [source : Transports, epoch : Nat, kind : AllKinds, part : AllParts]
NoReport == [source |-> Usb, epoch |-> 1, kind |-> "other", part |-> "whole"]

-----------------------------------------------------------------------------
(* Pure helpers.                                                           *)

Elapsed(since) == (now - since) % ClockModulus

\* session_alive(): the stamp is written and no older than the idle limit.
Alive(s) == lastValid[s] # 0 /\ Elapsed(lastValid[s]) <= SessionIdle

\* active_transport(): USB is preferred.  Only the main task makes a session
\* alive, so reading the two stamps in one step loses no outcome.
Active == IF Alive(Usb) THEN Usb ELSE IF Alive(Ble) THEN Ble ELSE None

\* The int32_t cast of a 32-bit difference is positive.
Later(a, b) == (a - b) % ClockModulus \in 1 .. ((ClockModulus - 1) \div 2)

\* Tracker::baseline()
Baseline(s) == mask[s] # Methods \/ Later(holdUntil[s], now)

\* A line that cJSON parses: one whole message or the two halves of one.
WellFormed(l) ==
  \/ Len(l) = 1 /\ l[1].part = "whole"
  \/ Len(l) = 2 /\ l[1].part = "head" /\ l[2].part = "tail" /\ l[1].kind = l[2].kind

\* xQueueSend() without waiting: a report that does not fit is dropped.
QueuedUnbounded(r) == Append(queue, r)
Queued(r) == IF Len(queue) < QueueCapacity THEN Append(queue, r) ELSE queue

\* The epoch check of service_report().
CurrentAlways(r) == TRUE
Current(r) == r.epoch = epoch[r.source]

\* The condition of the takeover at the end of service().
MustElectUsbOnly == Active = Usb /\ owner # Usb
MustElect == Active # None /\ owner # Active

\* handle() answers only to the transport that owns the presentation.
Owns(s) == Active = s /\ owner = s

Nothing == [m \in Methods |-> 0]

\* apply_pending_reset(): input_for(source).reset()
KeepInput(s) == UNCHANGED buffer
ResetInput(s) == buffer' = [buffer EXCEPT ![s] = <<>>]

\* reset_presentation_sync(), the part of it that lives in this component.
BeginHoldOnly ==
  /\ holdUntil' = [s \in Transports |-> 0]
  /\ UNCHANGED mask

BeginBoth ==
  /\ mask' = [s \in Transports |-> {}]
  /\ holdUntil' = [s \in Transports |-> 0]

-----------------------------------------------------------------------------
(* reset_transport(): three separate stores, on the caller's task.         *)

BumpEpoch(s) == epoch' = [epoch EXCEPT ![s] = @ + 1]

RenewStamp(s) ==
  /\ lastValid' = [lastValid EXCEPT ![s] = now]
  /\ UNCHANGED raced

ClearStamp(s) ==
  /\ lastValid' = [lastValid EXCEPT ![s] = 0]
  /\ raced' = [raced EXCEPT ![s] = pc \in {"parse", "claim", "apply"} /\ report.source = s]

RaiseReset(s) == resetPending' = [resetPending EXCEPT ![s] = TRUE]

\* tud_mount_cb, tud_umount_cb, ESP_HIDD_CONNECT_EVENT, ESP_HIDD_DISCONNECT_EVENT
LinkChange(s) ==
  /\ cbPc[s] = "idle"
  /\ epoch[s] < MaxEpoch[s]
  /\ s = Usb => usbEnabled
  /\ link' = [link EXCEPT ![s] = ~@]
  /\ sending' = [sending EXCEPT ![s] = None]
  /\ BumpEpoch(s)
  /\ cbPc' = [cbPc EXCEPT ![s] = "bumped"]
  /\ UNCHANGED <<now, lastValid, resetPending, queue, buffer, session, owner,
                 usbEnabled, pc, report, line, history>>

LinkChangeStamp(s) ==
  /\ cbPc[s] = "bumped"
  /\ ClearStamp(s)
  /\ cbPc' = [cbPc EXCEPT ![s] = "cleared"]
  /\ UNCHANGED <<now, epoch, resetPending, queue, buffer, session, owner,
                 environment, pc, report, line, heard, stampEpoch>>

LinkChangeFlag(s) ==
  /\ cbPc[s] = "cleared"
  /\ RaiseReset(s)
  /\ cbPc' = [cbPc EXCEPT ![s] = "idle"]
  /\ UNCHANGED <<now, epoch, lastValid, queue, buffer, session, owner,
                 environment, pc, report, line, history>>

\* tud_hid_set_report_cb and ESP_HIDD_OUTPUT_EVENT, through enqueue_report().
\* Reading the epoch and queueing are one step: only the transport's own task and
\* a reset by the main task change the epoch, and a report that the latter overtakes
\* there is dropped for its epoch as if it had been queued before.
EnqueueReport(s, kind, part) ==
  /\ cbPc[s] = "idle"
  /\ link[s]
  /\ FastReconnect \/ ~resetPending[s]
  /\ \/ part = "whole" /\ sending[s] = None /\ UNCHANGED sending
     \/ part = "head" /\ sending[s] = None /\ sending' = [sending EXCEPT ![s] = kind]
     \/ part = "tail" /\ sending[s] = kind /\ sending' = [sending EXCEPT ![s] = None]
  /\ queue' = Queued([source |-> s, epoch |-> epoch[s], kind |-> kind, part |-> part])
  /\ UNCHANGED <<now, shared, buffer, session, owner, link, usbEnabled, cbPc,
                 pc, report, line, history>>

-----------------------------------------------------------------------------
(* The main task outside service().                                        *)

\* companion_usb_set_enabled() from the debug page.  An uninstall that fails
\* sets enabled back and leaves the host's side mounted.
ToggleUsb ==
  /\ pc = "idle"
  /\ epoch[Usb] < MaxEpoch[Usb]
  /\ \/ /\ usbEnabled
        /\ usbEnabled' = FALSE
        /\ link' = [link EXCEPT ![Usb] = FALSE]
        /\ sending' = [sending EXCEPT ![Usb] = None]
     \/ /\ usbEnabled
        /\ UNCHANGED environment
     \/ /\ ~usbEnabled
        /\ usbEnabled' = TRUE
        /\ UNCHANGED <<link, sending>>
  /\ BumpEpoch(Usb)
  /\ pc' = "toggle_stamp"
  /\ UNCHANGED <<now, lastValid, resetPending, queue, buffer, session, owner,
                 cbPc, report, line, history>>

\* companion_ble_forget_bonds() from the debug page: BLE is reset while its link
\* is still up, the disconnection it asks for comes later, or never.
ForgetBonds ==
  /\ pc = "idle"
  /\ epoch[Ble] < MaxEpoch[Ble]
  /\ BumpEpoch(Ble)
  /\ pc' = "forget_stamp"
  /\ UNCHANGED <<now, lastValid, resetPending, queue, buffer, session, owner,
                 environment, cbPc, report, line, history>>

\* The second and the third store of a reset by the main task.
ResetStamp(s, at, then) ==
  /\ pc = at
  /\ ClearStamp(s)
  /\ pc' = then
  /\ UNCHANGED <<now, epoch, resetPending, queue, buffer, session, owner,
                 environment, cbPc, report, line, heard, stampEpoch>>

ResetFlag(s, at) ==
  /\ pc = at
  /\ RaiseReset(s)
  /\ pc' = "idle"
  /\ UNCHANGED <<now, epoch, lastValid, queue, buffer, session, owner,
                 environment, cbPc, report, line, history>>

\* begin_session_sync() when the offline grace of app_main() expires.
BeginSessionSync ==
  /\ pc = "idle"
  /\ Active = None
  /\ owner' = None
  /\ BeginBoth
  /\ heard' = [s \in Transports |-> Nothing]
  /\ UNCHANGED <<now, shared, queue, buffer, environment, cbPc, pc, report,
                 line, stampEpoch, raced>>

-----------------------------------------------------------------------------
(* service(), step by step.                                                *)

\* apply_pending_reset(s): the exchange, then main-task state only.
ApplyPendingReset(s, at, then) ==
  /\ pc = at
  /\ pc' = then
  /\ resetPending' = [resetPending EXCEPT ![s] = FALSE]
  /\ IF resetPending[s]
     THEN /\ ResetInput(s)
          /\ IF owner = s
             THEN /\ owner' = None
                  /\ BeginBoth
                  /\ heard' = [t \in Transports |-> Nothing]
             ELSE /\ mask' = [mask EXCEPT ![s] = {}]
                  /\ holdUntil' = [holdUntil EXCEPT ![s] = 0]
                  /\ UNCHANGED <<owner, heard>>
     ELSE UNCHANGED <<buffer, session, owner, heard>>
  /\ UNCHANGED <<now, epoch, lastValid, queue, environment, cbPc, report,
                 line, stampEpoch, raced>>

\* xQueueReceive()
TakeReport ==
  /\ pc = "receive"
  /\ IF queue = <<>>
     THEN pc' = "elect" /\ UNCHANGED <<queue, report>>
     ELSE /\ report' = Head(queue)
          /\ queue' = Tail(queue)
          /\ pc' = "feed"
  /\ UNCHANGED <<now, shared, buffer, session, owner, environment, cbPc,
                 line, history>>

\* service_report(): the epoch check, then Assembler::feed().
FeedReport ==
  LET s == report.source
      text == Append(buffer[s], report)
  IN /\ pc = "feed"
     /\ \/ /\ ~Current(report)
           /\ pc' = "receive"
           /\ UNCHANGED <<buffer, line>>
        \/ /\ Current(report)
           /\ Len(text) > MaxFragments
           /\ buffer' = [buffer EXCEPT ![s] = <<>>]
           /\ pc' = "receive"
           /\ UNCHANGED line
        \/ /\ Current(report)
           /\ Len(text) <= MaxFragments
           /\ report.part = "head"
           /\ buffer' = [buffer EXCEPT ![s] = text]
           /\ pc' = "receive"
           /\ UNCHANGED line
        \/ /\ Current(report)
           /\ Len(text) <= MaxFragments
           /\ report.part # "head"
           /\ buffer' = [buffer EXCEPT ![s] = <<>>]
           /\ line' = text
           /\ pc' = "parse"
     /\ UNCHANGED <<now, shared, queue, session, owner, environment, cbPc,
                    report, history>>

\* handle(): a line that does not parse is dropped, any other one stamps the
\* session (the store of note_valid_rpc()).
StampValid ==
  LET s == report.source
  IN /\ pc = "parse"
     /\ IF WellFormed(line)
        THEN /\ lastValid' = [lastValid EXCEPT ![s] = now]
             /\ stampEpoch' = [stampEpoch EXCEPT ![s] = report.epoch]
             /\ pc' = "claim"
        ELSE /\ pc' = "receive"
             /\ UNCHANGED <<lastValid, stampEpoch>>
     /\ UNCHANGED <<now, epoch, resetPending, queue, buffer, session, owner,
                    environment, cbPc, report, line, heard, raced>>

\* presentation_owner changes hands: every session starts a new baseline.
TakeOver(s) ==
  /\ owner' = s
  /\ BeginBoth
  /\ heard' = [t \in Transports |-> Nothing]

\* note_valid_rpc(), after the store.
ClaimPresentation ==
  LET s == report.source
  IN /\ pc = "claim"
     /\ IF Active = s /\ owner # s
        THEN TakeOver(s)
        ELSE UNCHANGED <<owner, session, heard>>
     /\ pc' = "apply"
     /\ UNCHANGED <<now, shared, queue, buffer, environment, cbPc, report,
                    line, stampEpoch, raced>>

\* Tracker::note()
Note(s, m) ==
  /\ mask' = [mask EXCEPT ![s] = @ \cup {m}]
  /\ holdUntil' = IF mask[s] # Methods /\ mask[s] \cup {m} = Methods
                  THEN [holdUntil EXCEPT ![s] = (now + Settle) % ClockModulus]
                  ELSE holdUntil
  /\ heard' = [heard EXCEPT ![s][m] = report.epoch]

\* The rest of handle(): owns_state, the model update, session.note().  An
\* all-off or picker frame of v.oai.thstatus is not noted.
ApplyMethod ==
  LET s == report.source
      kind == report.kind
  IN /\ pc = "apply"
     /\ \/ /\ Owns(s) /\ kind \in Methods
           /\ Note(s, kind)
        \/ /\ ~(Owns(s) /\ kind \in {"config", "status"})
           /\ UNCHANGED <<session, heard>>
     /\ pc' = "receive"
     /\ line' = <<>>
     /\ UNCHANGED <<now, shared, queue, buffer, owner, environment, cbPc,
                    report, stampEpoch, raced>>

\* The tail of service(): the live transport takes the presentation over.
ElectOwner ==
  /\ pc = "elect"
  /\ IF MustElect
     THEN TakeOver(Active)
     ELSE UNCHANGED <<owner, session, heard>>
  /\ pc' = "idle"
  /\ report' = NoReport
  /\ line' = <<>>
  /\ UNCHANGED <<now, shared, queue, buffer, environment, cbPc, stampEpoch,
                 raced>>

Tick ==
  /\ now # MaxTime
  /\ now' = (now + 1) % ClockModulus
  /\ UNCHANGED <<shared, queue, buffer, session, owner, environment, cbPc,
                 pc, report, line, history>>

-----------------------------------------------------------------------------

Init ==
  /\ now = 1
  /\ epoch = [s \in Transports |-> 1]
  /\ lastValid = [s \in Transports |-> 0]
  /\ resetPending = [s \in Transports |-> FALSE]
  /\ queue = <<>>
  /\ buffer = [s \in Transports |-> <<>>]
  /\ mask = [s \in Transports |-> {}]
  /\ holdUntil = [s \in Transports |-> 0]
  /\ owner = None
  /\ link = [s \in Transports |-> FALSE]
  /\ usbEnabled = TRUE
  /\ sending = [s \in Transports |-> None]
  /\ cbPc = [s \in Transports |-> "idle"]
  /\ pc = "idle"
  /\ report = NoReport
  /\ line = <<>>
  /\ heard = [s \in Transports |-> Nothing]
  /\ stampEpoch = [s \in Transports |-> 1]
  /\ raced = [s \in Transports |-> FALSE]

Callback(s) ==
  \/ LinkChange(s)
  \/ LinkChangeStamp(s)
  \/ LinkChangeFlag(s)
  \/ \E kind \in Kinds, part \in Parts : EnqueueReport(s, kind, part)

Service ==
  \/ ApplyPendingReset(Usb, "idle", "reset_ble")
  \/ ApplyPendingReset(Ble, "reset_ble", "receive")
  \/ TakeReport
  \/ FeedReport
  \/ StampValid
  \/ ClaimPresentation
  \/ ApplyMethod
  \/ ElectOwner

FinishReset ==
  \/ ResetStamp(Usb, "toggle_stamp", "toggle_flag")
  \/ ResetStamp(Ble, "forget_stamp", "forget_flag")
  \/ ResetFlag(Usb, "toggle_flag")
  \/ ResetFlag(Ble, "forget_flag")

Main ==
  \/ Service
  \/ ToggleUsb
  \/ ForgetBonds
  \/ FinishReset
  \/ BeginSessionSync

Next == Main \/ (\E s \in Transports : Callback(s)) \/ Tick

Spec == Init /\ [][Next]_vars

\* The main loop calls service() on every turn, and a callback that has
\* started returns.  Links, hosts, users and the clock owe nothing.
Fairness ==
  /\ WF_vars(Service) /\ WF_vars(FinishReset)
  /\ \A s \in Transports :
       /\ WF_vars(LinkChangeStamp(s))
       /\ WF_vars(LinkChangeFlag(s))

FairSpec == Spec /\ Fairness

-----------------------------------------------------------------------------
(* Properties.                                                             *)

\* Every variable has its type; the queue never exceeds kInboundCapacity and
\* an assembler never holds more than kMaxJson (codex_micro_protocol.cpp:29-52).
TypeOK ==
  /\ now \in 0 .. (ClockModulus - 1)
  /\ epoch \in [Transports -> Nat]
  /\ lastValid \in [Transports -> 0 .. (ClockModulus - 1)]
  /\ resetPending \in [Transports -> BOOLEAN]
  /\ queue \in Seq(Reports) /\ Len(queue) <= QueueCapacity
  /\ buffer \in [Transports -> Seq(Reports)]
  /\ \A s \in Transports : Len(buffer[s]) <= MaxFragments
  /\ mask \in [Transports -> SUBSET Methods]
  /\ holdUntil \in [Transports -> 0 .. (ClockModulus - 1)]
  /\ owner \in Transports \cup {None}
  /\ link \in [Transports -> BOOLEAN]
  /\ usbEnabled \in BOOLEAN
  /\ sending \in [Transports -> AllKinds \cup {None}]
  /\ cbPc \in [Transports -> {"idle", "bumped", "cleared"}]
  /\ pc \in {"idle", "reset_ble", "receive", "feed", "parse", "claim", "apply",
             "elect", "toggle_stamp", "toggle_flag", "forget_stamp", "forget_flag"}
  /\ report \in Reports
  /\ line \in Seq(Reports)
  /\ heard \in [Transports -> [Methods -> Nat]]
  /\ stampEpoch \in [Transports -> Nat]
  /\ raced \in [Transports -> BOOLEAN]

\* Between two calls of service() a live USB session owns the presentation,
\* and no live session is left without an owner (note_valid_rpc and the tail
\* of service(), whatever resets ran in between).
OwnerIsLive ==
  pc = "idle" =>
    /\ Alive(Usb) => owner = Usb
    /\ owner = None => ~Alive(Usb) /\ ~Alive(Ble)

\* The lamp frame being applied may raise announcements.
Announcing ==
  /\ pc = "apply"
  /\ report.kind = "threads"
  /\ Owns(report.source)
  /\ ~Baseline(report.source)

\* "Lighting snapshots may update the deck during this phase but can never
\* become events": a frame raises announcements only when its own connection
\* has delivered all three handshake methods since it became the owner.
BaselineBeforeEvents ==
  Announcing => \A m \in Methods : heard[report.source][m] = report.epoch

\* "Invalidate buffered fragments": a line handed to the parser never mixes
\* the fragments of two connections (apply_pending_reset, Assembler::reset).
NoSplicedLine ==
  pc = "parse" => \A i, j \in 1..Len(line) : line[i].epoch = line[j].epoch

\* A stamp left by a connection that a completed reset has ended can only come
\* from a line that was in the main task's hands when the reset ran.
StaleStampOnlyByRace ==
  \A s \in Transports :
    ( /\ lastValid[s] # 0
      /\ stampEpoch[s] # epoch[s]
      /\ cbPc[s] = "idle"
      /\ pc # IF s = Usb THEN "toggle_stamp" ELSE "forget_stamp" ) => raced[s]

\* "A valid Codex RPC proves that this specific companion session is alive":
\* nothing else revives a session, neither a reset nor a switch of owners nor
\* time, but for one moment: exactly 2^32 ms after the last RPC the 32-bit clock
\* shows the very value of its stamp again (the subtraction of session_alive).
RevivedOnlyByRpc ==
  [][\A s \in Transports : ~Alive(s) /\ Alive(s)' =>
       \/ pc = "parse" /\ report.source = s
       \/ now' # now /\ now' = lastValid[s] /\ lastValid' = lastValid]_vars

\* A live session without a preferred rival becomes the owner, or stops being
\* so, with no report arriving for it (the tail of service()), as long as
\* service() returns: its drain of the inbound queue has no bound of its own,
\* so a host that outpaces the main task would hold the election back.
LiveSessionTakesOver ==
  []<>(pc = "idle") =>
    \A s \in Transports : (Active = s) ~> (owner = s \/ Active # s)

=============================================================================
