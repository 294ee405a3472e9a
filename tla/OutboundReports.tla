-------------------------- MODULE OutboundReports --------------------------
(***************************************************************************)
(* From an action of the user, or the response to an RPC, to the reports   *)
(* the host receives: transmit(), the report ring of each transport, and   *)
(* the retry list of companion_codex_key().                                *)
(*                                                                         *)
(* The main task fills and drains the rings; the callbacks of TinyUSB and  *)
(* NimBLE run at any time and only touch the atomics.  Every step of       *)
(* either side makes one access to what they share.                        *)
(***************************************************************************)
EXTENDS Integers, Sequences

CONSTANTS
  LastSession,    \* bound: connections are numbered so that the last one of
                  \* every transport is this
  Quotas,         \* bound: how often each transport is connected, one of these
  Kinds,          \* which of "key", "direct", "response" are sent
  RingCapacity,   \* kQueueCapacity = kRpcQueueCapacity = 24 reports
  RetryCapacity,  \* kPendingCapacity = 12 actions
  MaxMessages     \* bound: messages of one behaviour

Transports == {"usb", "ble"}
None == "none"

ASSUME OutboundConstants ==
  /\ LastSession \in Nat
  /\ Quotas \subseteq [Transports -> 0 .. LastSession]
  /\ Kinds \subseteq {"key", "direct", "response"}
  /\ RingCapacity \in Nat \ {0} /\ RetryCapacity \in Nat \ {0}
  /\ MaxMessages \in Nat

VARIABLES
  up,            \* mounted of USB, connected of BLE
  free,          \* the USB endpoint has no transfer in flight
  generation,    \* generation of USB, rpc_generation of BLE
  resetAsked,    \* queue_reset_requested, rpc_reset_requested
  retryReset,    \* pending_reset_requested
  live,          \* codex_micro::session_alive()
  callback,      \* the step request_session_reset() or request_rpc_reset() is at
  ring,          \* queue of USB, rpc_queue of BLE
  retries,       \* pending of ble_transport.cpp
  at, on, job,   \* the step of the main task, the transport it works on, and
                 \* the message it sends
  session,       \* history: number of the connection
  issued,        \* history: kind and connection of every message
  retried, cut,  \* history: messages that waited for a retry; that were refused
                 \* after some of their reports were accepted
  got            \* history: the reports the host received

shared == <<up, free, generation, resetAsked, retryReset, live, callback, session>>
history == <<issued, retried, cut, got>>
vars == <<up, free, generation, resetAsked, retryReset, live, callback, session,
          ring, retries, at, on, job, issued, retried, cut, got>>

\* A key is one report (kPayload = 61 bytes), a response several.
Parts(kind) == IF kind = "response" THEN 2 ELSE 1

NoJob == [msg |-> 0, part |-> 0, retry |-> FALSE]

\* active_transport()
Active == IF live["usb"] THEN "usb" ELSE IF live["ble"] THEN "ble" ELSE None

\* companion_usb_connected() asks tud_hid_ready(), which an endpoint with a
\* transfer in flight is not.
Connected(t) == up[t] /\ (t = "usb" => free)

-----------------------------------------------------------------------------
(* The callbacks.                                                          *)

\* A connection takes far longer to come back than one call of the main task
\* takes, so it is back only when the main task is at the start of a call, or
\* in one about the other transport.  Within a call the reset flags and the
\* generation have no defence against it.
BetweenCalls(t) == on # t \/ at \in {"drain", "retry", "work"}

Connect(t) ==
  /\ callback[t] = "idle" /\ ~up[t]
  /\ session[t] < LastSession
  /\ BetweenCalls(t)
  /\ up' = [up EXCEPT ![t] = TRUE]
  /\ session' = [session EXCEPT ![t] = @ + 1]
  /\ callback' = [callback EXCEPT ![t] = "generation"]
  /\ UNCHANGED <<free, generation, resetAsked, retryReset, live, ring, retries, at, on, job, history>>

Disconnect(t) ==
  /\ callback[t] = "idle" /\ up[t]
  /\ up' = [up EXCEPT ![t] = FALSE]
  /\ callback' = [callback EXCEPT ![t] = "generation"]
  /\ UNCHANGED <<free, generation, resetAsked, retryReset, live, session, ring, retries, at, on, job, history>>

BumpGeneration(t) ==
  /\ callback[t] = "generation"
  /\ generation' = [generation EXCEPT ![t] = @ + 1]
  /\ callback' = [callback EXCEPT ![t] = "ring"]
  /\ UNCHANGED <<up, free, resetAsked, retryReset, live, session, ring, retries, at, on, job, history>>

AskRingReset(t) ==
  /\ callback[t] = "ring"
  /\ resetAsked' = [resetAsked EXCEPT ![t] = TRUE]
  /\ callback' = [callback EXCEPT ![t] = IF t = "ble" THEN "retries" ELSE "session"]
  /\ UNCHANGED <<up, free, generation, retryReset, live, session, ring, retries, at, on, job, history>>

\* Only the BLE callback ends the retries of its actions.
AskRetryReset ==
  /\ callback["ble"] = "retries"
  /\ retryReset' = TRUE
  /\ callback' = [callback EXCEPT !["ble"] = "session"]
  /\ UNCHANGED <<up, free, generation, resetAsked, live, session, ring, retries, at, on, job, history>>

\* codex_micro::reset_transport()
EndSession(t) ==
  /\ callback[t] = "session"
  /\ live' = [live EXCEPT ![t] = FALSE]
  /\ callback' = [callback EXCEPT ![t] = "idle"]
  /\ UNCHANGED <<up, free, generation, resetAsked, retryReset, session, ring, retries, at, on, job, history>>

\* The host reads the report on the USB endpoint.
HostPolls ==
  /\ ~free
  /\ free' = TRUE
  /\ UNCHANGED <<up, generation, resetAsked, retryReset, live, callback, session, ring, retries,
                 at, on, job, history>>

-----------------------------------------------------------------------------
(* The main task: draining a ring, companion_usb_service() and             *)
(* service_rpc_queue(), USB first.                                         *)

AfterDrain == at' = (IF on = "usb" THEN "drain" ELSE "retry") /\ on' = "ble"

\* service_queue_reset(), the first half of service_rpc_reset()
RingResetIgnored == UNCHANGED <<ring, resetAsked>>
RingReset ==
  /\ ring' = IF resetAsked[on] THEN [ring EXCEPT ![on] = <<>>] ELSE ring
  /\ resetAsked' = [resetAsked EXCEPT ![on] = FALSE]

RetryResetIgnored == UNCHANGED <<retries, retryReset>>
RetryReset ==
  /\ retries' = IF retryReset THEN <<>> ELSE retries
  /\ retryReset' = FALSE

DrainReset ==
  /\ at = "drain"
  /\ RingReset
  /\ at' = IF on = "ble" THEN "drain_retries" ELSE "drain_check"
  /\ UNCHANGED <<up, free, generation, retryReset, live, callback, session, retries, on, job, history>>

DrainRetryReset ==
  /\ at = "drain_retries"
  /\ RetryReset
  /\ at' = "drain_check"
  /\ UNCHANGED <<up, free, generation, resetAsked, live, callback, session, ring, on, job, history>>

\* No connection, no report, or the pause of 4 ms between two BLE reports.
DrainNothing ==
  /\ at = "drain_check"
  /\ ~Connected(on) \/ ring[on] = <<>> \/ on = "ble"
  /\ AfterDrain
  /\ UNCHANGED <<shared, ring, retries, job, history>>

DrainCheck ==
  /\ at = "drain_check"
  /\ Connected(on) /\ ring[on] # <<>>
  /\ at' = "drain_compare"
  /\ UNCHANGED <<shared, ring, retries, on, job, history>>

SameGeneration(t) == Head(ring[t]).generation = generation[t]

\* A report of another generation empties the ring.
DrainCompare ==
  /\ at = "drain_compare"
  /\ IF SameGeneration(on)
     THEN at' = "drain_write" /\ UNCHANGED <<ring, on>>
     ELSE AfterDrain /\ ring' = [ring EXCEPT ![on] = <<>>]
  /\ UNCHANGED <<shared, retries, job, history>>

\* tud_hid_report() and esp_hidd_dev_input_set() take the report ...
DrainWrite ==
  LET report == Head(ring[on])
  IN /\ at = "drain_write"
     /\ Connected(on)
     /\ got' = [got EXCEPT ![on] =
          Append(@, [msg |-> report.msg, part |-> report.part, session |-> session[on]])]
     /\ free' = (free /\ on # "usb")
     /\ at' = "drain_pop"
     /\ UNCHANGED <<up, generation, resetAsked, retryReset, live, callback, session,
                    ring, retries, on, job, issued, retried, cut>>

\* ... or refuse it, and it stays at the head of the ring.
DrainFails ==
  /\ at = "drain_write"
  /\ AfterDrain
  /\ UNCHANGED <<shared, ring, retries, job, history>>

NotPopped(q) == q
Popped(q) == Tail(q)

DrainPop ==
  /\ at = "drain_pop"
  /\ IF SameGeneration(on)
     THEN ring' = [ring EXCEPT ![on] = Popped(@)] /\ UNCHANGED resetAsked
     ELSE resetAsked' = [resetAsked EXCEPT ![on] = TRUE] /\ UNCHANGED ring
  /\ AfterDrain
  /\ UNCHANGED <<up, free, generation, retryReset, live, callback, session, retries, job, history>>

-----------------------------------------------------------------------------
(* transmit(): one report after the other until one is refused.            *)

SendReset ==
  /\ at = "send"
  /\ RingReset
  /\ at' = IF on = "ble" THEN "send_retries" ELSE "send_check"
  /\ UNCHANGED <<up, free, generation, retryReset, live, callback, session, retries, on, job, history>>

SendRetryReset ==
  /\ at = "send_retries"
  /\ RetryReset
  /\ at' = "send_check"
  /\ UNCHANGED <<up, free, generation, resetAsked, live, callback, session, ring, on, job, history>>

AlwaysRoom(t) == TRUE
HasRoom(t) == Len(ring[t]) < RingCapacity

SendCheck ==
  /\ at = "send_check"
  /\ Connected(on) /\ HasRoom(on)
  /\ at' = "send_stamp"
  /\ UNCHANGED <<shared, ring, retries, on, job, history>>

\* A message that was sent is taken from the retries, which a reset may have
\* emptied meanwhile.
RetriesAfterSuccess == IF job.retry /\ retries # <<>> THEN Tail(retries) ELSE retries

Enqueued(q, report) == Append(q, report)

SendStamp ==
  LET parts == Parts(issued[job.msg].kind)
  IN /\ at = "send_stamp"
     /\ ring' = [ring EXCEPT ![on] =
          Enqueued(@, [generation |-> generation[on], msg |-> job.msg, part |-> job.part])]
     /\ IF job.part < parts
        THEN /\ job' = [job EXCEPT !.part = @ + 1]
             /\ at' = "send"
             /\ UNCHANGED retries
        ELSE /\ job' = NoJob
             /\ at' = IF job.retry THEN "retry" ELSE "work"
             /\ retries' = RetriesAfterSuccess
     /\ UNCHANGED <<shared, on, history>>

\* companion_codex_key() keeps a refused key for later, while there is room; a
\* retry that is refused ends the retries of this turn.
RetryRefused == UNCHANGED <<retries, retried>>
KeyRefused ==
  IF Len(retries) < RetryCapacity
  THEN /\ retries' = Append(retries, [msg |-> job.msg, target |-> on, old |-> FALSE])
       /\ retried' = retried \cup {job.msg}
  ELSE UNCHANGED <<retries, retried>>

NextPart ==
  IF job.part < Parts(issued[job.msg].kind)
  THEN job' = [job EXCEPT !.part = @ + 1] /\ at' = "send"
  ELSE job' = NoJob /\ at' = "work"
GiveUp == job' = NoJob /\ at' = "work"

SendRefused ==
  /\ at = "send_check"
  /\ ~Connected(on) \/ ~HasRoom(on)
  /\ IF issued[job.msg].kind = "key" /\ ~job.retry THEN KeyRefused ELSE RetryRefused
  /\ cut' = IF job.part > 1 THEN cut \cup {job.msg} ELSE cut
  /\ GiveUp
  /\ UNCHANGED <<shared, ring, on, issued, got>>

-----------------------------------------------------------------------------
(* The retries of companion_ble_service(), and the rest of the main loop.  *)

RetryNothing ==
  /\ at = "retry"
  /\ Active = None \/ retries = <<>>
  /\ at' = "work"
  /\ UNCHANGED <<shared, ring, retries, on, job, history>>

\* Older than kPendingLifeMs, or meant for a transport that is not the active one.
RetryExpires ==
  /\ at = "retry"
  /\ Active # None /\ retries # <<>>
  /\ Head(retries).old \/ Head(retries).target # Active
  /\ retries' = Tail(retries)
  /\ UNCHANGED <<shared, ring, at, on, job, history>>

RetrySend ==
  /\ at = "retry"
  /\ Active # None /\ retries # <<>>
  /\ ~Head(retries).old /\ Head(retries).target = Active
  /\ job' = [msg |-> Head(retries).msg, part |-> 1, retry |-> TRUE]
  /\ on' = Active
  /\ at' = "send"
  /\ UNCHANGED <<shared, ring, retries, history>>

\* 750 ms pass.
RetriesAge ==
  /\ \E i \in DOMAIN retries : ~retries[i].old
  /\ retries' = [i \in DOMAIN retries |-> [retries[i] EXCEPT !.old = TRUE]]
  /\ UNCHANGED <<shared, ring, at, on, job, history>>

\* A valid RPC of a connection whose callback has run.
Handshake(t) ==
  /\ at = "work"
  /\ up[t] /\ callback[t] = "idle" /\ ~live[t]
  /\ live' = [live EXCEPT ![t] = TRUE]
  /\ UNCHANGED <<up, free, generation, resetAsked, retryReset, callback, session,
                 ring, retries, at, on, job, history>>

\* kSessionIdleMs without an RPC.
SessionIdle(t) ==
  /\ live[t]
  /\ live' = [live EXCEPT ![t] = FALSE]
  /\ UNCHANGED <<up, free, generation, resetAsked, retryReset, callback, session,
                 ring, retries, at, on, job, history>>

\* companion_codex_key() and send_key_to() send to the active transport, a
\* response goes where its RPC came from.
Issue(kind, t) ==
  /\ at = "work"
  /\ Len(issued) < MaxMessages
  /\ live[t] /\ (kind # "response" => t = Active)
  /\ issued' = Append(issued, [kind |-> kind, session |-> session[t]])
  /\ job' = [msg |-> Len(issued) + 1, part |-> 1, retry |-> FALSE]
  /\ on' = t
  /\ at' = "send"
  /\ UNCHANGED <<shared, ring, retries, retried, cut, got>>

NextTurn ==
  /\ at = "work"
  /\ at' = "drain"
  /\ on' = "usb"
  /\ UNCHANGED <<shared, ring, retries, job, history>>

-----------------------------------------------------------------------------

Init ==
  /\ up = [t \in Transports |-> FALSE]
  /\ free = TRUE
  /\ generation = [t \in Transports |-> 1]
  /\ resetAsked = [t \in Transports |-> FALSE]
  /\ retryReset = FALSE
  /\ live = [t \in Transports |-> FALSE]
  /\ callback = [t \in Transports |-> "idle"]
  /\ ring = [t \in Transports |-> <<>>]
  /\ retries = <<>>
  /\ at = "work" /\ on = "usb" /\ job = NoJob
  /\ \E quota \in Quotas : session = [t \in Transports |-> LastSession - quota[t]]
  /\ issued = <<>>
  /\ retried = {} /\ cut = {}
  /\ got = [t \in Transports |-> <<>>]

Callback(t) == BumpGeneration(t) \/ AskRingReset(t) \/ EndSession(t)
Callbacks == AskRetryReset \/ \E t \in Transports : Connect(t) \/ Disconnect(t) \/ Callback(t)

DrainStep ==
  \/ DrainReset \/ DrainRetryReset \/ DrainNothing \/ DrainCheck
  \/ DrainCompare \/ DrainWrite \/ DrainFails \/ DrainPop
SendStep == SendReset \/ SendRetryReset \/ SendCheck \/ SendStamp \/ SendRefused
RetryStep == RetryNothing \/ RetryExpires \/ RetrySend
MainStep == DrainStep \/ SendStep \/ RetryStep \/ NextTurn

Environment ==
  \/ HostPolls
  \/ RetriesAge
  \/ \E t \in Transports : Handshake(t) \/ SessionIdle(t)
  \/ \E kind \in Kinds, t \in Transports : Issue(kind, t)

Next == Callbacks \/ MainStep \/ Environment

Spec == Init /\ [][Next]_vars

\* The main loop never stops, a callback that began returns, the host polls its
\* endpoint, and a connected transport does not refuse a report for ever.
FairSpec ==
  /\ Spec
  /\ WF_vars(MainStep)
  /\ WF_vars(HostPolls)
  /\ WF_vars(AskRetryReset) /\ \A t \in Transports : WF_vars(Callback(t))
  /\ SF_vars(DrainCheck /\ on = "ble") /\ SF_vars(DrainCheck /\ on = "usb")
  /\ SF_vars(DrainWrite /\ on = "ble") /\ SF_vars(DrainWrite /\ on = "usb")

-----------------------------------------------------------------------------
(* Properties.                                                             *)

Steps == {"drain", "drain_retries", "drain_check", "drain_compare", "drain_write", "drain_pop",
          "send", "send_retries", "send_check", "send_stamp", "retry", "work"}
Reports == [generation : Nat, msg : Nat, part : 1..2]

\* Every variable has its type, and no list outgrows its array.
TypeOK ==
  /\ up \in [Transports -> BOOLEAN] /\ live \in [Transports -> BOOLEAN]
  /\ free \in BOOLEAN /\ retryReset \in BOOLEAN
  /\ generation \in [Transports -> Nat] /\ session \in [Transports -> Nat]
  /\ resetAsked \in [Transports -> BOOLEAN]
  /\ callback \in [Transports -> {"idle", "generation", "ring", "retries", "session"}]
  /\ ring \in [Transports -> Seq(Reports)]
  /\ \A t \in Transports : Len(ring[t]) <= RingCapacity
  /\ retries \in Seq([msg : Nat, target : Transports, old : BOOLEAN])
  /\ Len(retries) <= RetryCapacity
  /\ at \in Steps /\ on \in Transports
  /\ job \in [msg : Nat, part : Nat, retry : BOOLEAN]
  /\ issued \in Seq([kind : Kinds, session : Nat])
  /\ retried \subseteq 1..MaxMessages /\ cut \subseteq 1..MaxMessages
  /\ got \in [Transports -> Seq([msg : Nat, part : 1..2, session : Nat])]

\* The generation in each packet: what was sent to one connection is never
\* delivered to the next one, whatever the callbacks do between two steps of
\* the main task.  A key in the retries of USB, which no callback resets, is
\* the exception.
NoStaleReport ==
  \A t \in Transports : \A i \in DOMAIN got[t] :
    LET report == got[t][i]
    IN report.session = issued[report.msg].session \/ (t = "usb" /\ report.msg \in retried)

\* Retry and generation check do not repeat a report the host already has.
AtMostOnce ==
  \A t, u \in Transports : \A i \in DOMAIN got[t], j \in DOMAIN got[u] :
    got[t][i].msg = got[u][j].msg /\ got[t][i].part = got[u][j].part => t = u /\ i = j

\* transmit() stops at the first refused report: what the host receives of a
\* message are its first reports, one after the other, and the rest follows
\* unless a full ring or a lost connection cut it.
WholeMessages ==
  \A t \in Transports : \A i \in DOMAIN got[t] :
    LET report == got[t][i]
        more == report.part < Parts(issued[report.msg].kind)
    IN /\ report.part > 1 =>
            /\ i > 1
            /\ got[t][i - 1] = [report EXCEPT !.part = @ - 1]
       /\ more /\ i < Len(got[t]) =>
            \/ got[t][i + 1] = [report EXCEPT !.part = @ + 1]
            \/ report.msg \in cut
            \/ got[t][i + 1].session # report.session

\* A ring with reports in it is emptied, by the host or by the reset that ends
\* the connection, whatever fails in between.
RingsDrain == \A t \in Transports : (ring[t] # <<>>) ~> (ring[t] = <<>>)

=============================================================================
