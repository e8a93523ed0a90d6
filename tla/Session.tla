-------------------------------- MODULE Session --------------------------------
(* What the authority keeps of one connected player (grpc/mod.rs): the tokens  *)
(* it has issued, whether it holds the player to be offline, the broadcast     *)
(* channel its events go out on, and the streams subscribed to it.  Commands   *)
(* reach it through the queue of the command actor.                            *)
(*                                                                             *)
(* The actor draws sequence numbers before a command is in the queue, so two   *)
(* commands may be applied in either order: the queue is a set.  Other         *)
(* players' commands fill it at any time: a call may be refused whenever the   *)
(* client (module ClientSdk) lets it.                                          *)
EXTENDS Naturals, Sequences

CONSTANTS BufferCap,     \* event_queue_capacity, slots of a broadcast channel
          MaxVersion     \* bound on the changes of the player's state

(* CoreConfig::validate refuses an empty queue.                                *)
ASSUME SessionAssumption == BufferCap \in Nat \ {0} /\ MaxVersion \in Nat

VARIABLES version,       \* counts the changes of the player's state, one event each
          nextToken,     \* tokens 1..nextToken-1 are in sessions, none ever leaves
          current,       \* current_session; events holds the broadcast channel that
                         \* the same open_session made, so the token names it
          offline,       \* the player is in offline
          streams,       \* the server's DisconnectAwareEvents values
          nextStream,
          jobs,          \* the command queue
          reply,         \* the answer on its way to the call waited for, if any
          ended          \* history: the tokens one of whose streams was dropped

sessionVars == <<version, nextToken, current, offline, streams, nextStream, jobs, reply,
                 ended>>

Answer(v) == << [ok |-> TRUE, value |-> v] >>
Refusal == << [ok |-> FALSE, value |-> 0] >>

SessionInit ==      \* Client::connect has opened the first session
  /\ version = 0 /\ nextToken = 2 /\ current = 1 /\ offline = FALSE
  /\ streams = {} /\ nextStream = 1 /\ jobs = {} /\ reply = << >>
  /\ ended = {}

Call(kind, token) == jobs' = jobs \union {[kind |-> kind, token |-> token, by |-> 0, wanted |-> TRUE]}

(* Any change of the player's party, proposal or match, with its event: sent   *)
(* on the channel of the latest session.  A subscriber that is a full ring     *)
(* behind loses its oldest event and will be told so.                          *)
PushUnbounded(s, v) == [s EXCEPT !.buffer = Append(@, v)]
PushSilently(s, v) ==
  IF Len(s.buffer) < BufferCap THEN [s EXCEPT !.buffer = Append(@, v)]
  ELSE [s EXCEPT !.buffer = Append(Tail(@), v)]
Push(s, v) ==
  IF Len(s.buffer) < BufferCap THEN [s EXCEPT !.buffer = Append(@, v)]
  ELSE [s EXCEPT !.buffer = Append(Tail(@), v), !.lagged = TRUE]

Change ==
  /\ version < MaxVersion
  /\ version' = version + 1
  /\ streams' = {IF s.channel = current THEN Push(s, version + 1) ELSE s : s \in streams}
  /\ UNCHANGED <<nextToken, current, offline, nextStream, jobs, reply, ended>>

(* The answer goes to the call if somebody still waits for it. *)
Reply(job, answer) == reply' = IF job.wanted THEN answer ELSE reply

(* open_session: the player is online again, and the subscribers of the old    *)
(* channel will see its end.  (The disconnect deadline is in module Authority.) *)
OpenSession(job) ==
  /\ job.kind = "open"
  /\ jobs' = jobs \ {job}
  /\ nextToken' = nextToken + 1 /\ current' = nextToken
  /\ offline' = FALSE
  /\ Reply(job, Answer(nextToken))
  /\ UNCHANGED <<version, streams, nextStream, ended>>

(* get_state: a snapshot of what the authority holds now. *)
SnapshotLagging(v) == IF v > 0 THEN v - 1 ELSE v
Snapshot(v) == v
GetState(job) ==
  /\ job.kind = "state"
  /\ jobs' = jobs \ {job}
  /\ Reply(job, Answer(Snapshot(version)))
  /\ UNCHANGED <<version, nextToken, current, offline, streams, nextStream,
                 ended>>

(* watch_events: any token ever issued subscribes to the channel of the latest *)
(* session.  The stream of a call given up meanwhile is either never made or   *)
(* dropped at the first write.                                                 *)
WatchEvents(job) ==
  /\ job.kind = "watch"
  /\ jobs' = jobs \ {job}
  /\ Reply(job, Answer(nextStream))
  /\ \/ /\ nextStream' = nextStream + 1
        /\ streams' = streams \union {[id |-> nextStream, token |-> job.token,
                                       channel |-> current, buffer |-> << >>,
                                       lagged |-> FALSE, open |-> job.wanted]}
     \/ ~job.wanted /\ UNCHANGED <<streams, nextStream>>
  /\ UNCHANGED <<version, nextToken, current, offline, ended>>

(* The command of a dropped stream: only the current session's counts. *)
EndsAnySession(token) == TRUE
EndsSession(token) == token = current
Disconnect(job) ==
  /\ job.kind = "disconnect"
  /\ jobs' = jobs \ {job}
  /\ offline' = (offline \/ EndsSession(job.token))
  /\ UNCHANGED <<version, nextToken, current, streams, nextStream, reply, ended>>

Apply == \E job \in jobs : \/ OpenSession(job) \/ GetState(job)
                           \/ WatchEvents(job) \/ Disconnect(job)

(* The transport notices that nobody reads a stream any more: Drop sends the   *)
(* disconnect command, or loses it if the queue is full just then.             *)
DropStream(lost) ==
  \E s \in streams :
    /\ ~s.open
    /\ streams' = streams \ {s}
    /\ jobs' = IF lost THEN jobs
               ELSE jobs \union {[kind |-> "disconnect", token |-> s.token, by |-> s.id,
                                  wanted |-> FALSE]}
    /\ ended' = ended \union {s.token}
    /\ UNCHANGED <<version, nextToken, current, offline, nextStream, reply>>

(* open_session for the same player from somewhere else. *)
OtherSession ==
  /\ nextToken' = nextToken + 1 /\ current' = nextToken
  /\ offline' = FALSE
  /\ UNCHANGED <<version, streams, nextStream, jobs, reply, ended>>
================================================================================
