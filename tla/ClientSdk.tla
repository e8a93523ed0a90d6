------------------------------- MODULE ClientSdk -------------------------------
(* The event task of the Rust client (Client::events and Client::reconnect in  *)
(* client/src/lib.rs) and the polling queue of the C library on top of it      *)
(* (client-ffi/src/lib.rs), against the authority's side in module Session.    *)
EXTENDS Session

CONSTANTS InboxCap,      \* 256, the channel between the task and the application
          LocalCap,      \* 1024, the C library's queue
          MaxFaults,     \* bound on lost answers, broken streams, refused calls
          MaxOther       \* bound on sessions opened for the player from elsewhere

ASSUME ClientAssumption ==
  InboxCap \in Nat /\ LocalCap \in Nat /\ MaxFaults \in Nat /\ MaxOther \in Nat

VARIABLES pc,            \* where the task is in its loop
          token,         \* the task's session_token
          reading,       \* the stream it reads, 0 for none
          seen,          \* version of the last event or state it delivered
          told,          \* it delivered an error since
          gap,           \* history: versions sent while no open stream of the
                         \* task was on the latest channel
          inbox,         \* the channel between the task and the C library's loop,
                         \* TRUE for an event or state, FALSE for an error
          local,         \* items in the C library's queue
          failed,        \* event_stream_failed: the loop has stopped for good
          faults, others

clientVars == <<pc, token, reading, seen, told, gap, inbox, local, failed, faults, others>>
vars == <<sessionVars, clientVars>>

At(place) == pc = place

Init == /\ SessionInit
        /\ pc = "watch" /\ token = 1 /\ reading = 0 /\ seen = 0 /\ told = FALSE /\ gap = {}
        /\ inbox = << >> /\ local = 0 /\ failed = FALSE /\ faults = 0 /\ others = 0

-------------------------------------------------------------------------------
(* The task.  A send to the application waits for room, and ends the task when *)
(* the receiver is gone.                                                       *)

Request(kind, from, to) ==
  /\ At(from) /\ pc' = to
  /\ Call(kind, token)
  /\ UNCHANGED <<version, nextToken, current, offline, streams, nextStream,
                 reply, ended, token, reading, seen, told, gap, inbox, local, failed, faults,
                 others>>

Watch == Request("watch", "watch", "watching")
Reopen == Request("open", "backoff", "opening")      \* after the backoff's sleep
Fetch == Request("state", "fetch", "fetching")

Received(place, ok) == At(place) /\ reply # << >> /\ reply[1].ok = ok /\ reply' = << >>

Watched ==
  /\ Received("watching", TRUE)
  /\ pc' = "forward" /\ reading' = reply[1].value
  /\ UNCHANGED <<version, nextToken, current, offline, streams, nextStream,
                 jobs, ended, token, seen, told, gap, inbox, local, failed, faults, others>>

Reopened ==
  /\ Received("opening", TRUE)
  /\ pc' = "fetch" /\ token' = reply[1].value
  /\ UNCHANGED <<version, nextToken, current, offline, streams, nextStream,
                 jobs, ended, reading, seen, told, gap, inbox, local, failed, faults, others>>

(* tx.send: the item is in the channel, or nobody will ever take it and the    *)
(* task returns.                                                               *)
Deliver(next, upTo, error) ==
  \/ /\ ~failed /\ Len(inbox) < InboxCap
     /\ inbox' = Append(inbox, ~error) /\ pc' = next /\ seen' = upTo /\ told' = error
  \/ /\ failed
     /\ pc' = "gone" /\ UNCHANGED <<inbox, seen, told>>

Fetched ==
  /\ Received("fetching", TRUE)
  /\ Deliver("watch", reply[1].value, FALSE)
  /\ UNCHANGED <<version, nextToken, current, offline, streams, nextStream,
                 jobs, ended, token, reading, gap, local, failed, faults, others>>

(* A watch that fails goes straight to the backoff. *)
WatchRefused ==
  /\ Received("watching", FALSE)
  /\ pc' = "backoff"
  /\ UNCHANGED <<version, nextToken, current, offline, streams, nextStream,
                 jobs, ended, token, reading, seen, told, gap, inbox, local, failed, faults,
                 others>>

(* A reconnect that fails, in either of its calls, reports the error and tries *)
(* to watch with whatever token the task has.                                  *)
AfterFailureGone == "gone"
AfterFailure == "watch"
ReconnectFailed ==
  /\ Received("opening", FALSE) \/ Received("fetching", FALSE)
  /\ Deliver(AfterFailure, seen, TRUE)
  /\ UNCHANGED <<version, nextToken, current, offline, streams, nextStream,
                 jobs, ended, token, reading, gap, local, failed, faults, others>>

Stop(s) == {IF t = s THEN [s EXCEPT !.open = FALSE] ELSE t : t \in streams}

Forward ==
  \E s \in streams :
    /\ At("forward") /\ s.id = reading /\ ~s.lagged /\ s.buffer # << >>
    /\ Deliver("forward", Head(s.buffer), FALSE)
    /\ reading' = IF failed THEN 0 ELSE reading
    /\ streams' = IF failed THEN Stop(s)
                  ELSE (streams \ {s}) \union {[s EXCEPT !.buffer = Tail(@)]}
    /\ UNCHANGED <<version, nextToken, current, offline, nextStream, jobs,
                   reply, ended, token, gap, local, failed, faults, others>>

(* The stream reports that its reader fell behind, or its channel was replaced *)
(* and is drained.                                                             *)
StreamEnds ==
  \E s \in streams :
    /\ At("forward") /\ s.id = reading
    /\ s.lagged \/ (s.buffer = << >> /\ s.channel # current)
    /\ pc' = "backoff" /\ reading' = 0
    /\ streams' = Stop(s)
    /\ UNCHANGED <<version, nextToken, current, offline, nextStream, jobs,
                   reply, ended, token, seen, told, gap, inbox, local, failed, faults, others>>

TaskStep == \/ Watch \/ Watched \/ WatchRefused \/ Forward \/ StreamEnds
            \/ Reopen \/ Reopened \/ ReconnectFailed \/ Fetch \/ Fetched

-------------------------------------------------------------------------------
(* The C library's loop: an error only leaves a text behind, an event that     *)
(* finds the queue full ends it.  And what the application calls.              *)

Pump ==
  /\ inbox # << >> /\ ~failed
  /\ inbox' = Tail(inbox)
  /\ local' = IF Head(inbox) /\ local < LocalCap THEN local + 1 ELSE local
  /\ failed' = (Head(inbox) /\ local = LocalCap)
  /\ UNCHANGED <<sessionVars, pc, token, reading, seen, told, gap, faults, others>>

Poll ==
  /\ local > 0 /\ local' = local - 1
  /\ UNCHANGED <<sessionVars, pc, token, reading, seen, told, gap, inbox, failed, faults, others>>

(* erps_client_get_state puts its snapshot into the same queue. *)
AskState ==
  /\ local < LocalCap /\ local' = local + 1
  /\ UNCHANGED <<sessionVars, pc, token, reading, seen, told, gap, inbox, failed, faults, others>>

-------------------------------------------------------------------------------
(* Faults, each bounded by MaxFaults. *)

Fault == faults < MaxFaults /\ faults' = faults + 1

(* The call fails for the client: refused by a full queue, cut off before it   *)
(* reached the queue, or its answer is lost and the command applied all the    *)
(* same.  Connecting anew before open_session fails the same way.              *)
CallFails ==
  /\ Fault
  /\ pc \in {"watching", "opening", "fetching"} /\ (reply # << >> => reply[1].ok)
  /\ reply' = Refusal
  /\ \/ jobs' = {j \in jobs : ~j.wanted}
     \/ jobs' = {IF j.wanted THEN [j EXCEPT !.wanted = FALSE, !.by = faults'] ELSE j : j \in jobs}
  /\ streams' = {IF reply # << >> /\ At("watching") /\ s.id = reply[1].value
                 THEN [s EXCEPT !.open = FALSE] ELSE s : s \in streams}
  /\ UNCHANGED <<version, nextToken, current, offline, nextStream, ended,
                 pc, token, reading, seen, told, gap, inbox, local, failed, others>>

StreamBreaks ==
  \E s \in streams :
    /\ Fault
    /\ At("forward") /\ s.id = reading
    /\ pc' = "backoff" /\ reading' = 0 /\ streams' = Stop(s)
    /\ UNCHANGED <<version, nextToken, current, offline, nextStream, jobs,
                   reply, ended, token, seen, told, gap, inbox, local, failed, others>>

LoseDisconnect == Fault /\ DropStream(TRUE)
                  /\ UNCHANGED <<pc, token, reading, seen, told, gap, inbox, local, failed, others>>

-------------------------------------------------------------------------------
ServerChange ==
  /\ Change
  /\ gap' = IF \E s \in streams : s.open /\ s.channel = current THEN gap
            ELSE gap \union {version + 1}
  /\ UNCHANGED <<pc, token, reading, seen, told, inbox, local, failed, faults, others>>

Elsewhere == /\ others < MaxOther /\ others' = others + 1
             /\ OtherSession
             /\ UNCHANGED <<pc, token, reading, seen, told, gap, inbox, local, failed, faults>>

Serve == Apply /\ UNCHANGED clientVars
Notice == DropStream(FALSE) /\ UNCHANGED clientVars

Next == \/ TaskStep \/ Pump \/ Poll \/ AskState
        \/ CallFails \/ StreamBreaks \/ LoseDisconnect
        \/ ServerChange \/ Elsewhere \/ Serve \/ Notice

(* The task, the loop, the actor and the transport go on working; nothing is   *)
(* asked of the application, the network or the player's other sessions.       *)
Spec == /\ Init /\ [][Next]_vars
        /\ WF_vars(TaskStep) /\ WF_vars(Pump) /\ WF_vars(Serve) /\ WF_vars(Notice)

-------------------------------------------------------------------------------
JobKind == {"open", "state", "watch", "disconnect"}
Tokens == 1..(nextToken - 1)

(* The shape of the state: buffers and queues within their capacities, streams *)
(* and jobs holding issued tokens only, at most one call waited for.           *)
ClientTypeOK ==
  /\ version \in 0..MaxVersion /\ nextToken \in Nat /\ current \in Tokens /\ token \in Tokens
  /\ offline \in BOOLEAN /\ nextStream \in Nat
  /\ streams \subseteq [id : 1..(nextStream - 1), token : Tokens, channel : Tokens,
                        buffer : UNION {[1..n -> 1..version] : n \in 0..BufferCap},
                        lagged : BOOLEAN, open : BOOLEAN]
  /\ \A j \in jobs : j.kind \in JobKind /\ j.token \in Tokens
  /\ \A j, k \in {i \in jobs : i.wanted} : j = k
  /\ ended \subseteq Tokens /\ gap \subseteq 1..version
  /\ pc \in {"watch", "watching", "forward", "backoff", "opening", "fetch", "fetching", "gone"}
  /\ reading \in 0..(nextStream - 1) /\ seen \in 0..version /\ told \in BOOLEAN
  /\ inbox \in UNION {[1..n -> BOOLEAN] : n \in 0..InboxCap} /\ local \in 0..LocalCap /\ failed \in BOOLEAN

(* A player is held to be offline only if a stream of its latest session was   *)
(* dropped: the late end of an older stream, or a disconnect command that a    *)
(* new session overtakes, takes nobody offline.                                *)
OfflineHasCause == offline => current \in ended

(* Through broken streams, lost answers, replaced channels and snapshots, what *)
(* the application is handed never goes back in time.                          *)
DeliveredInOrder == [][seen' >= seen]_vars

(* Every event is handed over, or a snapshot taken after it, or an error first *)
(* - with one exception, the events sent while the task had no stream on the   *)
(* latest channel: between its snapshot and its next watch_events nothing      *)
(* holds them, and nothing tells the application.                              *)
NothingElseLostSilently ==
  [][At("forward") /\ seen' # seen /\ ~told => (seen + 1)..(seen' - 1) \subseteq gap]_vars

(* Once the faults stop, the task is back on a stream that carries the         *)
(* player's events and stays there, unless the C library has given up because  *)
(* its queue was full.                                                         *)
Recovers ==
  <>[](\/ failed
       \/ At("forward") /\ \E s \in streams : s.id = reading /\ s.open /\ s.channel = current)
================================================================================
