----------------------------- MODULE ClientProofs ------------------------------
(* The event task and its session for buffers of any size and any number of    *)
(* changes, faults and other sessions: what the application is handed never    *)
(* goes back, and it is told of what it misses but for the gap between its     *)
(* snapshot and its next stream.                                               *)
(*                                                                             *)
(* The argument follows the one stream that may still be the task's: it is the *)
(* only open one, what it buffers is newer than what was delivered, and while  *)
(* it has not lagged, nothing is missing between the two but the gap.  That an *)
(* answer is the answer to the call waited for, and not to one given up, is    *)
(* what keeps a snapshot from being older than what was delivered.             *)
EXTENDS ClientSdk, TLAPS

Held(buffer) == {buffer[i] : i \in 1..Len(buffer)}
Increasing(buffer) == \A i, k \in 1..Len(buffer) : i < k => buffer[i] < buffer[k]

Stream == [id : Nat, token : Nat, channel : Nat, buffer : Seq(Nat),
           lagged : BOOLEAN, open : BOOLEAN]
StreamOK(s) ==
  /\ s \in Stream /\ s.id \in 1..(nextStream - 1) /\ s.token \in Tokens /\ s.channel \in Tokens
  /\ Len(s.buffer) <= BufferCap /\ Increasing(s.buffer) /\ Held(s.buffer) \subseteq 1..version

Job == [kind : JobKind, token : Nat, by : Nat, wanted : BOOLEAN]
Place == [kind \in {"open", "state", "watch"} |->
            CASE kind = "open" -> "opening"
              [] kind = "state" -> "fetching"
              [] kind = "watch" -> "watching"]

(* The stream with this identity is the one the task reads, or will. *)
Own(id) == \/ pc = "forward" /\ id = reading
           \/ pc = "watching" /\ reply = Answer(id)

(* Versions from this one on are in the gap or in the buffer. *)
Covered(from, buffer) == from..version \subseteq gap \union Held(buffer)

ScalarTypes ==
  /\ version \in 0..MaxVersion /\ nextToken \in Nat /\ current \in Tokens /\ token \in Tokens
  /\ offline \in BOOLEAN /\ nextStream \in Nat \ {0}
  /\ ended \subseteq Tokens /\ gap \subseteq 1..version
  /\ pc \in {"watch", "watching", "forward", "backoff", "opening", "fetch", "fetching", "gone"}
  /\ reading \in 0..(nextStream - 1) /\ seen \in 0..version /\ told \in BOOLEAN
  /\ inbox \in Seq(BOOLEAN) /\ Len(inbox) <= InboxCap /\ local \in 0..LocalCap
  /\ failed \in BOOLEAN /\ faults \in Nat

(* A call waited for is the one the task's place in its loop says. *)
JobInv ==
  /\ \A j \in jobs : j \in Job /\ j.token \in Tokens
  /\ \A j \in jobs : j.wanted =>
       /\ reply = << >> /\ j.token = token /\ j.by = 0
       /\ j.kind # "disconnect" /\ pc = Place[j.kind]
  /\ \A j \in jobs : j.kind = "disconnect" => j.token \in ended
  /\ OfflineHasCause

ReplyInv ==
  /\ reply # << >> => pc \in {"watching", "opening", "fetching"}
  /\ \/ reply = << >> \/ reply = Refusal
     \/ pc = "watching" /\ \E v \in 1..(nextStream - 1) : reply = Answer(v)
     \/ pc = "opening" /\ \E v \in Tokens : reply = Answer(v)
     \/ pc = "fetching" /\ \E v \in seen..version :
                              reply = Answer(v) /\ (v + 1)..version \subseteq gap

StreamInv ==
  /\ \A s \in streams : StreamOK(s)
  /\ \A s, t \in streams : s.id = t.id => s = t
  /\ \A s \in streams : s.open => Own(s.id)
  /\ \A s \in streams : Own(s.id) =>
       /\ \A v \in Held(s.buffer) : v > seen
       /\ ~s.lagged => \A v \in Held(s.buffer) : Covered(v, s.buffer)
       /\ ~s.lagged /\ ~told => Covered(seen + 1, s.buffer)

(* Between streams, what was sent since the last delivery is in the gap. *)
GapInv ==
  ~told /\ (pc = "watch" \/ (pc = "watching" /\ reply = << >>)) => (seen + 1)..version \subseteq gap

ClientInv == ScalarTypes /\ JobInv /\ ReplyInv /\ StreamInv /\ GapInv

-------------------------------------------------------------------------------
(* Answers and buffers *)

LEMMA AnswerFacts ==
  /\ \A v : /\ Answer(v) # << >> /\ Answer(v) # Refusal
            /\ Answer(v)[1].ok = TRUE /\ Answer(v)[1].value = v
  /\ Refusal # << >> /\ Refusal[1].ok = FALSE
<1>1. ASSUME NEW v
      PROVE  Answer(v) # << >> /\ Answer(v)[1].ok = TRUE /\ Answer(v)[1].value = v
  BY DEF Answer
<1>2. Refusal # << >> /\ Refusal[1].ok = FALSE
  BY DEF Refusal
<1>3. QED BY <1>1, <1>2

(* The task goes on with the answer to its own call. *)
LEMMA Answered ==
  ASSUME ReplyInv, NEW place, Received(place, TRUE)
  PROVE  /\ pc = place /\ reply # << >> /\ reply' = << >> /\ reply = Answer(reply[1].value)
         /\ place = "watching" => reply[1].value \in 1..(nextStream - 1)
         /\ place = "opening" => reply[1].value \in Tokens
         /\ place = "fetching" => /\ reply[1].value \in seen..version
                                  /\ (reply[1].value + 1)..version \subseteq gap
<1>1. pc = place /\ reply # << >> /\ reply' = << >> /\ reply # Refusal
  BY AnswerFacts DEF Received, At
<1>2. \A v : reply = Answer(v) => reply[1].value = v
  BY AnswerFacts
<1>3. QED BY <1>1, <1>2 DEF ReplyInv

LEMMA Refused ==
  ASSUME ReplyInv, NEW place, Received(place, FALSE)
  PROVE  pc = place /\ reply # << >> /\ reply' = << >> /\ reply = Refusal
BY AnswerFacts DEF Received, At, ReplyInv

LEMMA AppendFacts ==
  ASSUME NEW S, NEW b \in Seq(S), NEW v \in S
  PROVE  /\ Append(b, v) \in Seq(S) /\ Len(Append(b, v)) = Len(b) + 1
         /\ Held(Append(b, v)) = Held(b) \union {v}
<1>1. /\ Append(b, v) \in Seq(S) /\ Len(Append(b, v)) = Len(b) + 1
      /\ \A i \in 1..Len(b) : Append(b, v)[i] = b[i]
      /\ Append(b, v)[Len(b) + 1] = v
      /\ Len(b) \in Nat
  OBVIOUS
<1>2. QED BY <1>1 DEF Held

LEMMA TailFacts ==
  ASSUME NEW S, NEW b \in Seq(S), b # << >>
  PROVE  /\ Tail(b) \in Seq(S) /\ Len(b) \in Nat \ {0} /\ Len(Tail(b)) = Len(b) - 1
         /\ Head(b) \in S /\ Head(b) = b[1] /\ Head(b) \in Held(b)
         /\ \A i \in 1..Len(Tail(b)) : Tail(b)[i] = b[i + 1]
         /\ Held(b) = {Head(b)} \union Held(Tail(b))
<1>1. /\ Tail(b) \in Seq(S) /\ Len(b) \in Nat \ {0} /\ Len(Tail(b)) = Len(b) - 1
      /\ Head(b) \in S /\ Head(b) = b[1]
      /\ \A i \in 1..Len(Tail(b)) : Tail(b)[i] = b[i + 1]
  OBVIOUS
<1>2. Head(b) \in Held(b)
  BY <1>1 DEF Held
<1>3. ASSUME NEW x \in Held(b), x # Head(b)
      PROVE  x \in Held(Tail(b))
  <2>1. PICK i \in 1..Len(b) : x = b[i] BY DEF Held
  <2>2. i - 1 \in 1..Len(Tail(b)) /\ b[(i - 1) + 1] = x
    BY <1>1, <1>3, <2>1
  <2>3. QED BY <1>1, <2>2 DEF Held
<1>4. Held(Tail(b)) \subseteq Held(b)
  <2>1. ASSUME NEW i \in 1..Len(Tail(b)) PROVE Tail(b)[i] \in Held(b)
    <3>1. i + 1 \in 1..Len(b) /\ Tail(b)[i] = b[i + 1] BY <1>1
    <3>2. QED BY <3>1 DEF Held
  <2>2. QED BY <2>1 DEF Held
<1>5. QED BY <1>1, <1>2, <1>3, <1>4

LEMMA IncreasingAppend ==
  ASSUME NEW b \in Seq(Nat), NEW v \in Nat, Increasing(b), \A x \in Held(b) : x < v
  PROVE  Increasing(Append(b, v))
<1>1. /\ Len(Append(b, v)) = Len(b) + 1 /\ Len(b) \in Nat
      /\ \A i \in 1..Len(b) : Append(b, v)[i] = b[i] /\ b[i] < v
      /\ Append(b, v)[Len(b) + 1] = v
  BY DEF Held
<1>2. ASSUME NEW i \in 1..(Len(b) + 1), NEW k \in 1..(Len(b) + 1), i < k
      PROVE  Append(b, v)[i] < Append(b, v)[k]
  <2>1. i \in 1..Len(b) BY <1>1, <1>2
  <2>2. CASE k = Len(b) + 1 BY <1>1, <2>1, <2>2
  <2>3. CASE k # Len(b) + 1
    <3>1. k \in 1..Len(b) BY <1>1, <2>3
    <3>2. QED BY <1>1, <1>2, <2>1, <3>1 DEF Increasing
  <2>4. QED BY <2>2, <2>3
<1>3. QED BY <1>1, <1>2 DEF Increasing

LEMMA IncreasingTail ==
  ASSUME NEW b \in Seq(Nat), b # << >>, Increasing(b)
  PROVE  Increasing(Tail(b)) /\ \A x \in Held(Tail(b)) : x > Head(b)
<1>1. /\ Len(b) \in Nat \ {0} /\ Len(Tail(b)) = Len(b) - 1 /\ Head(b) = b[1]
      /\ \A i \in 1..Len(Tail(b)) : Tail(b)[i] = b[i + 1]
  BY TailFacts
<1>2. \A i \in 1..Len(b) : b[i] \in Nat
  OBVIOUS
<1>3. ASSUME NEW i \in 1..Len(Tail(b)), NEW k \in 1..Len(Tail(b)), i < k
      PROVE  Tail(b)[i] < Tail(b)[k]
  <2>1. i + 1 \in 1..Len(b) /\ k + 1 \in 1..Len(b) /\ i + 1 < k + 1 BY <1>1, <1>3
  <2>2. b[i + 1] < b[k + 1] BY <2>1 DEF Increasing
  <2>3. QED BY <1>1, <2>2
<1>4. ASSUME NEW i \in 1..Len(Tail(b)) PROVE Tail(b)[i] > Head(b)
  <2>1. 1 \in 1..Len(b) /\ i + 1 \in 1..Len(b) /\ 1 < i + 1 BY <1>1
  <2>2. b[1] < b[i + 1] BY <2>1 DEF Increasing
  <2>3. QED BY <1>1, <1>2, <2>1, <2>2
<1>5. QED BY <1>3, <1>4 DEF Increasing, Held

-------------------------------------------------------------------------------
(* Streams under the steps that leave their buffers alone *)

LEMMA ScalarFacts ==
  ASSUME ScalarTypes
  PROVE  /\ version \in Nat /\ seen \in Nat /\ seen <= version /\ nextToken \in Nat
         /\ nextStream \in Nat \ {0} /\ reading \in Nat
         /\ Tokens \subseteq Nat /\ 0 \notin Tokens /\ nextToken \notin Tokens
         /\ \A t \in Tokens : t < nextToken
BY SessionAssumption DEF ScalarTypes, Tokens

LEMMA StreamsStay ==
  ASSUME ClientInv, streams' \subseteq streams, UNCHANGED <<version, gap, nextStream>>,
         nextToken' \in Nat, nextToken <= nextToken',
         \A s \in streams' : s.open => Own(s.id)',
         \A s \in streams' : Own(s.id)' => Own(s.id) /\ UNCHANGED <<seen, told>>
  PROVE  StreamInv'
<1>1. Tokens \subseteq Tokens'
  BY ScalarFacts DEF ClientInv, Tokens
<1>2. \A s \in streams' : StreamOK(s)'
  BY <1>1 DEF ClientInv, StreamInv, StreamOK
<1>3. \A s \in streams' : Own(s.id)' =>
        /\ \A v \in Held(s.buffer) : v > seen'
        /\ ~s.lagged => \A v \in Held(s.buffer) : Covered(v, s.buffer)'
        /\ ~s.lagged /\ ~told' => Covered(seen + 1, s.buffer)'
  BY DEF ClientInv, StreamInv, Covered
<1>4. QED BY <1>2, <1>3 DEF ClientInv, StreamInv

(* The task has closed every stream it had. *)
LEMMA StreamsClose ==
  ASSUME ClientInv, UNCHANGED <<version, nextStream, nextToken>>, NEW C,
         streams' = {IF s \in C THEN [s EXCEPT !.open = FALSE] ELSE s : s \in streams},
         \A s \in streams : s.open => s \in C,
         \A id \in Nat : ~Own(id)'
  PROVE  StreamInv'
<1>1. ASSUME NEW s \in streams, NEW t, t = IF s \in C THEN [s EXCEPT !.open = FALSE] ELSE s
      PROVE  StreamOK(t)' /\ t.id = s.id /\ t.id \in Nat /\ ~t.open
  <2>1. s \in Stream /\ StreamOK(s) BY DEF ClientInv, StreamInv, StreamOK
  <2>2. /\ t \in Stream /\ t.id = s.id /\ t.token = s.token /\ t.channel = s.channel
        /\ t.buffer = s.buffer /\ ~t.open
    BY <1>1, <2>1 DEF Stream
  <2>3. t.id \in Nat BY <2>2 DEF Stream
  <2>4. QED BY <2>1, <2>2, <2>3 DEF StreamOK, Tokens
<1>2. \A t \in streams' : StreamOK(t)' /\ t.id \in Nat /\ ~t.open
  BY <1>1
<1>3. ASSUME NEW t \in streams', NEW u \in streams', t.id = u.id
      PROVE  t = u
  <2>1. PICK s \in streams : t = IF s \in C THEN [s EXCEPT !.open = FALSE] ELSE s
    OBVIOUS
  <2>2. PICK r \in streams : u = IF r \in C THEN [r EXCEPT !.open = FALSE] ELSE r
    OBVIOUS
  <2>3. s.id = r.id BY <1>1, <1>3, <2>1, <2>2
  <2>4. s = r BY <2>3 DEF ClientInv, StreamInv
  <2>5. QED BY <2>1, <2>2, <2>4
<1>4. QED BY <1>2, <1>3 DEF StreamInv

(* Only the stream read can be open while the task forwards, and none while it *)
(* does anything else but wait for a stream.                                   *)
LEMMA OpenStreams ==
  ASSUME ClientInv
  PROVE  /\ \A s \in streams : s.id \in Nat
         /\ pc = "forward" => \A s, t \in streams : t.id = reading /\ s.open => s = t
         /\ pc = "watching" => \A s \in streams : s.open => reply = Answer(s.id)
         /\ pc \notin {"forward", "watching"} => \A s \in streams : ~s.open
<1>1. \A s \in streams : s.id \in Nat
  BY DEF ClientInv, StreamInv, StreamOK, Stream
<1>2. QED BY <1>1 DEF ClientInv, StreamInv, Own

LEMMA JobsStay ==
  ASSUME ClientInv, jobs' \subseteq jobs, ended \subseteq ended',
         nextToken' \in Nat, nextToken <= nextToken', OfflineHasCause',
         \A j \in jobs' : j.wanted => UNCHANGED <<pc, reply, token>>
  PROVE  JobInv'
<1>1. Tokens \subseteq Tokens'
  BY ScalarFacts DEF ClientInv, Tokens
<1>2. QED BY <1>1 DEF ClientInv, JobInv

-------------------------------------------------------------------------------
(* The task's steps *)

(* A call is waited for in three places of the loop only, and no longer once   *)
(* its answer is there.                                                        *)
LEMMA NoCallOutside ==
  ASSUME ClientInv, pc \notin {"watching", "opening", "fetching"}
  PROVE  \A j \in jobs : ~j.wanted
<1>1. \A k \in {"open", "state", "watch"} : Place[k] \in {"watching", "opening", "fetching"}
  BY DEF Place
<1>2. ASSUME NEW j \in jobs, j.wanted PROVE FALSE
  <2>1. j.kind \in {"open", "state", "watch"}
    BY <1>2 DEF ClientInv, JobInv, Job, JobKind
  <2>2. pc = Place[j.kind] BY <1>2 DEF ClientInv, JobInv
  <2>3. QED BY <1>1, <2>1, <2>2
<1>3. QED BY <1>2

LEMMA NoCallWaits ==
  ASSUME ClientInv, reply # << >>
  PROVE  \A j \in jobs : ~j.wanted
BY DEF ClientInv, JobInv

LEMMA RequestStep ==
  ASSUME ClientInv, NEW kind \in {"watch", "open", "state"}, NEW from,
         from \in {"watch", "backoff", "fetch"}, from = "watch" <=> kind = "watch",
         Request(kind, from, Place[kind])
  PROVE  ClientInv'
<1> DEFINE to == Place[kind]
           job == [kind |-> kind, token |-> token, by |-> 0, wanted |-> TRUE]
<1>1. /\ pc = from /\ pc' = to /\ jobs' = jobs \union {job}
      /\ UNCHANGED <<version, nextToken, current, offline, streams, nextStream, reply, ended,
                     token, reading, seen, told, gap, inbox, local, failed, faults>>
  BY DEF Request, Call, At
<1>2. to \in {"watching", "opening", "fetching"} /\ (to = "watching" <=> kind = "watch")
  BY DEF Place
<1>3. reply = << >>
  BY <1>1 DEF ClientInv, ReplyInv
<1>4. \A j \in jobs : ~j.wanted
  BY <1>1, NoCallOutside
<1>5. ScalarTypes'
  BY <1>1, <1>2 DEF ClientInv, ScalarTypes, Tokens
<1>6. JobInv'
  <2>1. job \in Job /\ job.kind = kind /\ job.token = token /\ job.wanted /\ job.by = 0
    BY ScalarFacts DEF ClientInv, ScalarTypes, Job, JobKind
  <2> HIDE DEF job
  <2>2. /\ Tokens' = Tokens /\ token \in Tokens
    BY <1>1 DEF ClientInv, ScalarTypes, Tokens
  <2>3. QED BY <1>1, <1>3, <1>4, <2>1, <2>2 DEF ClientInv, JobInv, OfflineHasCause
<1>7. ReplyInv'
  BY <1>1, <1>3 DEF ReplyInv
<1>8. StreamInv'
  <2>1. \A id : ~Own(id)'
    BY <1>1, <1>2, <1>3, AnswerFacts DEF Own
  <2>2. \A s \in streams : ~s.open
    BY <1>1, OpenStreams
  <2>3. QED BY <1>1, <2>1, <2>2, StreamsStay, ScalarFacts DEF ClientInv
<1>9. GapInv'
  BY <1>1, <1>2 DEF ClientInv, GapInv
<1>10. QED BY <1>5, <1>6, <1>7, <1>8, <1>9 DEF ClientInv

LEMMA WatchedStep == ClientInv /\ Watched => ClientInv'
<1> SUFFICES ASSUME ClientInv, Watched PROVE ClientInv'
  OBVIOUS
<1> DEFINE v == reply[1].value
<1>1. /\ pc = "watching" /\ reply # << >> /\ reply' = << >> /\ reply = Answer(v)
      /\ v \in 1..(nextStream - 1)
  BY Answered DEF ClientInv, Watched
<1>2. /\ pc' = "forward" /\ reading' = v
      /\ UNCHANGED <<version, nextToken, current, offline, streams, nextStream, jobs, ended,
                     token, seen, told, gap, inbox, local, failed, faults>>
  BY DEF Watched
<1>3. ScalarTypes'
  BY <1>1, <1>2 DEF ClientInv, ScalarTypes, Tokens
<1>4. JobInv'
  BY <1>1, <1>2, NoCallWaits, JobsStay, ScalarFacts DEF ClientInv, JobInv, OfflineHasCause
<1>5. StreamInv'
  <2>1. \A id : Own(id)' <=> Own(id)
    <3>1. \A id : Answer(v) = Answer(id) <=> id = v
      <4>1. \A id : Answer(id)[1].value = id BY AnswerFacts
      <4>2. QED BY <4>1
    <3>2. QED BY <1>1, <1>2, <3>1 DEF Own
  <2>2. QED BY <1>2, <2>1, StreamsStay, ScalarFacts DEF ClientInv, StreamInv
<1>6. ReplyInv' /\ GapInv'
  BY <1>1, <1>2 DEF ReplyInv, GapInv
<1>7. QED BY <1>3, <1>4, <1>5, <1>6 DEF ClientInv

LEMMA ReopenedStep == ClientInv /\ Reopened => ClientInv'
<1> SUFFICES ASSUME ClientInv, Reopened PROVE ClientInv'
  OBVIOUS
<1> DEFINE v == reply[1].value
<1>1. pc = "opening" /\ reply # << >> /\ reply' = << >> /\ v \in Tokens
  BY Answered DEF ClientInv, Reopened
<1>2. /\ pc' = "fetch" /\ token' = v
      /\ UNCHANGED <<version, nextToken, current, offline, streams, nextStream, jobs, ended,
                     reading, seen, told, gap, inbox, local, failed, faults>>
  BY DEF Reopened
<1>3. ScalarTypes'
  BY <1>1, <1>2 DEF ClientInv, ScalarTypes, Tokens
<1>4. JobInv'
  BY <1>1, <1>2, NoCallWaits, JobsStay, ScalarFacts DEF ClientInv, JobInv, OfflineHasCause
<1>5. StreamInv'
  <2>1. \A id : ~Own(id)' BY <1>2 DEF Own
  <2>2. \A s \in streams : ~s.open BY <1>1, OpenStreams
  <2>3. QED BY <1>2, <2>1, <2>2, StreamsStay, ScalarFacts DEF ClientInv
<1>6. ReplyInv' /\ GapInv'
  BY <1>1, <1>2 DEF ReplyInv, GapInv
<1>7. QED BY <1>3, <1>4, <1>5, <1>6 DEF ClientInv

LEMMA WatchRefusedStep == ClientInv /\ WatchRefused => ClientInv'
<1> SUFFICES ASSUME ClientInv, WatchRefused PROVE ClientInv'
  OBVIOUS
<1>1. pc = "watching" /\ reply # << >> /\ reply' = << >> /\ reply = Refusal
  BY Refused DEF ClientInv, WatchRefused
<1>2. /\ pc' = "backoff"
      /\ UNCHANGED <<version, nextToken, current, offline, streams, nextStream, jobs, ended,
                     token, reading, seen, told, gap, inbox, local, failed, faults>>
  BY DEF WatchRefused
<1>3. ScalarTypes'
  BY <1>2 DEF ClientInv, ScalarTypes, Tokens
<1>4. JobInv'
  BY <1>1, <1>2, NoCallWaits, JobsStay, ScalarFacts DEF ClientInv, JobInv, OfflineHasCause
<1>5. StreamInv'
  <2>1. \A id : ~Own(id)' BY <1>2 DEF Own
  <2>2. \A s \in streams : ~s.open BY <1>1, OpenStreams, AnswerFacts
  <2>3. QED BY <1>2, <2>1, <2>2, StreamsStay, ScalarFacts DEF ClientInv
<1>6. ReplyInv' /\ GapInv'
  BY <1>1, <1>2 DEF ReplyInv, GapInv
<1>7. QED BY <1>3, <1>4, <1>5, <1>6 DEF ClientInv

(* The application's channel takes one item more, or the task ends. *)
LEMMA DeliverTypes ==
  ASSUME ScalarTypes, NEW next, NEW upTo \in 0..version, NEW error \in BOOLEAN,
         Deliver(next, upTo, error)
  PROVE  /\ inbox' \in Seq(BOOLEAN) /\ Len(inbox') <= InboxCap
         /\ seen' \in 0..version /\ told' \in BOOLEAN
         /\ \/ pc' = next /\ seen' = upTo /\ told' = error /\ ~failed
            \/ pc' = "gone" /\ UNCHANGED <<seen, told>> /\ failed
<1>1. CASE ~failed /\ Len(inbox) < InboxCap /\ inbox' = Append(inbox, ~error) /\ pc' = next
           /\ seen' = upTo /\ told' = error
  <2>1. inbox \in Seq(BOOLEAN) /\ Len(inbox) \in Nat BY DEF ScalarTypes
  <2>2. (~error) \in BOOLEAN OBVIOUS
  <2>3. inbox' \in Seq(BOOLEAN) /\ Len(inbox') = Len(inbox) + 1
    <3> DEFINE item == ~error
    <3>1. item \in BOOLEAN /\ inbox' = Append(inbox, item) BY <1>1
    <3> HIDE DEF item
    <3>2. QED BY <2>1, <3>1, AppendFacts
  <2>4. QED BY <1>1, <2>1, <2>3, ClientAssumption
<1>2. CASE failed /\ pc' = "gone" /\ UNCHANGED <<inbox, seen, told>>
  BY <1>2 DEF ScalarTypes
<1>3. QED BY <1>1, <1>2 DEF Deliver

LEMMA FetchedStep == ClientInv /\ Fetched => ClientInv'
<1> SUFFICES ASSUME ClientInv, Fetched PROVE ClientInv'
  OBVIOUS
<1> DEFINE v == reply[1].value
<1>1. /\ pc = "fetching" /\ reply # << >> /\ reply' = << >>
      /\ v \in seen..version /\ (v + 1)..version \subseteq gap
  BY Answered DEF ClientInv, Fetched
<1>2. /\ Deliver("watch", v, FALSE)
      /\ UNCHANGED <<version, nextToken, current, offline, streams, nextStream, jobs, ended,
                     token, reading, gap, local, failed, faults>>
  BY DEF Fetched
<1>3. /\ inbox' \in Seq(BOOLEAN) /\ Len(inbox') <= InboxCap
      /\ seen' \in 0..version /\ told' \in BOOLEAN
      /\ (pc' = "watch" /\ seen' = v) \/ pc' = "gone"
  <2>1. v \in 0..version BY <1>1, ScalarFacts DEF ClientInv
  <2> HIDE DEF v
  <2>2. QED BY <1>2, <2>1, DeliverTypes DEF ClientInv
<1> HIDE DEF v
<1>4. ScalarTypes'
  BY <1>1, <1>2, <1>3 DEF ClientInv, ScalarTypes, Tokens
<1>5. JobInv'
  BY <1>1, <1>2, NoCallWaits, JobsStay, ScalarFacts DEF ClientInv, JobInv, OfflineHasCause
<1>6. StreamInv'
  <2>1. \A id : ~Own(id)' BY <1>3 DEF Own
  <2>2. \A s \in streams : ~s.open BY <1>1, OpenStreams
  <2>3. QED BY <1>2, <2>1, <2>2, StreamsStay, ScalarFacts DEF ClientInv
<1>7. ReplyInv' /\ GapInv'
  BY <1>1, <1>2, <1>3 DEF ReplyInv, GapInv
<1>8. QED BY <1>4, <1>5, <1>6, <1>7 DEF ClientInv

LEMMA ReconnectFailedStep == ClientInv /\ ReconnectFailed => ClientInv'
<1> SUFFICES ASSUME ClientInv, ReconnectFailed PROVE ClientInv'
  OBVIOUS
<1>1. pc \in {"opening", "fetching"} /\ reply # << >> /\ reply' = << >>
  BY Refused DEF ClientInv, ReconnectFailed
<1>2. /\ Deliver("watch", seen, TRUE)
      /\ UNCHANGED <<version, nextToken, current, offline, streams, nextStream, jobs, ended,
                     token, reading, gap, local, failed, faults>>
  BY DEF ReconnectFailed, AfterFailure
<1>3. /\ inbox' \in Seq(BOOLEAN) /\ Len(inbox') <= InboxCap
      /\ seen' \in 0..version /\ told' \in BOOLEAN
      /\ (pc' = "watch" /\ told') \/ pc' = "gone"
  BY <1>2, DeliverTypes DEF ClientInv, ScalarTypes
<1>4. ScalarTypes'
  BY <1>1, <1>2, <1>3 DEF ClientInv, ScalarTypes, Tokens
<1>5. JobInv'
  BY <1>1, <1>2, NoCallWaits, JobsStay, ScalarFacts DEF ClientInv, JobInv, OfflineHasCause
<1>6. StreamInv'
  <2>1. \A id : ~Own(id)' BY <1>3 DEF Own
  <2>2. \A s \in streams : ~s.open BY <1>1, OpenStreams
  <2>3. QED BY <1>2, <2>1, <2>2, StreamsStay, ScalarFacts DEF ClientInv
<1>7. ReplyInv' /\ GapInv'
  BY <1>1, <1>3 DEF ReplyInv, GapInv
<1>8. QED BY <1>4, <1>5, <1>6, <1>7 DEF ClientInv

(* The task stops reading its stream, and reads none from then on. *)
LEMMA StreamStops ==
  ASSUME ClientInv, NEW s \in streams, pc = "forward", s.id = reading, streams' = Stop(s),
         pc' \in {"backoff", "gone"}, reading' = 0, seen' = seen, told' = told,
         inbox' = inbox, faults' \in Nat,
         UNCHANGED <<version, nextToken, current, offline, nextStream, jobs, reply, ended,
                     token, gap, local, failed>>
  PROVE  ClientInv'
<1>1. ScalarTypes'
  BY DEF ClientInv, ScalarTypes, Tokens
<1>2. JobInv'
  BY NoCallOutside, JobsStay, ScalarFacts DEF ClientInv, JobInv, OfflineHasCause
<1>3. StreamInv'
  <2>1. \A id \in Nat : ~Own(id)' BY DEF Own
  <2>2. \A t \in streams : t.open => t \in {s} BY OpenStreams
  <2>3. streams' = {IF t \in {s} THEN [t EXCEPT !.open = FALSE] ELSE t : t \in streams}
    BY DEF Stop
  <2>4. QED BY <2>1, <2>2, <2>3, StreamsClose
<1>4. ReplyInv' /\ GapInv'
  BY DEF ClientInv, ReplyInv, GapInv
<1>5. QED BY <1>1, <1>2, <1>3, <1>4 DEF ClientInv

LEMMA StreamEndsStep == ClientInv /\ StreamEnds => ClientInv'
<1> SUFFICES ASSUME ClientInv, NEW s \in streams, pc = "forward", s.id = reading,
                    pc' = "backoff", reading' = 0, streams' = Stop(s),
                    UNCHANGED <<version, nextToken, current, offline, nextStream, jobs,
                                reply, ended, token, seen, told, gap, inbox, local, failed,
                                faults>>
             PROVE  ClientInv'
  BY DEF StreamEnds, At
<1>1. faults' \in Nat BY DEF ClientInv, ScalarTypes
<1>2. QED BY <1>1, StreamStops

LEMMA StreamBreaksStep == ClientInv /\ StreamBreaks => ClientInv'
<1> SUFFICES ASSUME ClientInv, NEW s \in streams, Fault, pc = "forward", s.id = reading,
                    pc' = "backoff", reading' = 0, streams' = Stop(s),
                    UNCHANGED <<version, nextToken, current, offline, nextStream, jobs,
                                reply, ended, token, seen, told, gap, inbox, local, failed>>
             PROVE  ClientInv'
  BY DEF StreamBreaks, At
<1>1. faults' \in Nat BY DEF ClientInv, ScalarTypes, Fault
<1>2. QED BY <1>1, StreamStops

LEMMA ForwardStep == ClientInv /\ Forward => ClientInv'
<1> SUFFICES ASSUME ClientInv, NEW s \in streams, pc = "forward", s.id = reading, ~s.lagged,
                    s.buffer # << >>, Deliver("forward", Head(s.buffer), FALSE),
                    reading' = IF failed THEN 0 ELSE reading,
                    streams' = IF failed THEN Stop(s)
                               ELSE (streams \ {s}) \union {[s EXCEPT !.buffer = Tail(@)]},
                    UNCHANGED <<version, nextToken, current, offline, nextStream, jobs,
                                reply, ended, token, gap, local, failed, faults>>
             PROVE  ClientInv'
  BY DEF Forward, At
<1> DEFINE b == s.buffer
           h == Head(b)
<1>1. /\ s \in Stream /\ StreamOK(s) /\ b \in Seq(Nat) /\ Increasing(b)
      /\ Held(b) \subseteq 1..version /\ h \in Held(b)
  <2>1. s \in Stream /\ StreamOK(s) BY DEF ClientInv, StreamInv, StreamOK
  <2>2. b \in Seq(Nat) BY <2>1 DEF Stream
  <2>3. QED BY <2>1, <2>2, TailFacts DEF StreamOK
<1>2. h \in 0..version /\ h \in Nat
  BY <1>1
<1>3. /\ inbox' \in Seq(BOOLEAN) /\ Len(inbox') <= InboxCap
      /\ seen' \in 0..version /\ told' \in BOOLEAN
      /\ \/ pc' = "forward" /\ seen' = h /\ ~told' /\ ~failed
         \/ pc' = "gone" /\ UNCHANGED <<seen, told>> /\ failed
  BY <1>2, DeliverTypes DEF ClientInv
<1>4. ScalarTypes'
  BY <1>3 DEF ClientInv, ScalarTypes, Tokens
<1>5. JobInv'
  BY NoCallOutside, JobsStay, ScalarFacts DEF ClientInv, JobInv, OfflineHasCause
<1>6. ReplyInv' /\ GapInv'
  BY <1>3 DEF ClientInv, ReplyInv, GapInv
<1>7. CASE failed
  <2>1. \A id \in Nat : ~Own(id)' BY <1>3, <1>7 DEF Own
  <2>2. \A t \in streams : t.open => t \in {s} BY OpenStreams
  <2>3. streams' = {IF t \in {s} THEN [t EXCEPT !.open = FALSE] ELSE t : t \in streams}
    BY <1>7 DEF Stop
  <2>4. StreamInv' BY <2>1, <2>2, <2>3, StreamsClose
  <2>5. QED BY <1>4, <1>5, <1>6, <2>4 DEF ClientInv
<1>8. CASE ~failed
  <2>1. PICK c : c = [s EXCEPT !.buffer = Tail(b)]
    OBVIOUS
  <2>2. streams' = (streams \ {s}) \union {c}
    BY <1>8, <2>1
  <2>3. /\ c \in Stream /\ c.id = s.id /\ c.token = s.token /\ c.channel = s.channel
        /\ c.lagged = s.lagged /\ c.open = s.open /\ c.buffer = Tail(b)
    BY <1>1, <2>1, TailFacts DEF Stream
  <2>4. /\ Len(c.buffer) <= Len(b) /\ Increasing(c.buffer)
        /\ Held(b) = {h} \union Held(c.buffer)
        /\ \A x \in Held(c.buffer) : x > h
    <3>1. Len(Tail(b)) <= Len(b) BY <1>1, TailFacts
    <3>2. QED BY <1>1, <2>3, <3>1, TailFacts, IncreasingTail
  <2>5. StreamOK(c)'
    <3>1. Len(c.buffer) \in Nat /\ Len(b) \in Nat /\ Len(b) <= BufferCap
      BY <1>1, <2>3 DEF StreamOK, Stream
    <3>2. Len(c.buffer) <= BufferCap BY <2>4, <3>1, SessionAssumption
    <3>3. QED BY <1>1, <2>3, <2>4, <3>2 DEF StreamOK, Tokens
  <2>6. \A t \in streams \ {s} : StreamOK(t)' /\ t.id # s.id /\ ~t.open
    <3>1. \A t \in streams \ {s} : t.id # s.id /\ ~t.open
      BY OpenStreams DEF ClientInv, StreamInv
    <3>2. \A t \in streams : StreamOK(t)' BY DEF ClientInv, StreamInv, StreamOK, Tokens
    <3>3. QED BY <3>1, <3>2
  <2>7. \A id : Own(id)' <=> id = s.id
    BY <1>3, <1>8 DEF Own
  <2>8. \A v \in Held(b) : Covered(v, b)
    BY DEF ClientInv, StreamInv, Own
  <2>9. \A v \in Held(c.buffer) : Covered(v, c.buffer)'
    <3>1. ASSUME NEW v \in Held(c.buffer), NEW u \in v..version
          PROVE  u \in gap \union Held(c.buffer)
      <4>1. v \in Held(b) /\ v > h /\ v \in 1..version BY <1>1, <2>4
      <4>2. u \in gap \union Held(b) BY <2>8, <4>1 DEF Covered
      <4>3. u # h BY <1>2, <4>1
      <4>4. QED BY <2>4, <4>2, <4>3
    <3>2. QED BY <3>1 DEF Covered
  <2>10. Covered(h + 1, c.buffer)'
    <3>1. ASSUME NEW u \in (h + 1)..version
          PROVE  u \in gap \union Held(c.buffer)
      <4>1. u \in h..version /\ u # h BY <1>2, ScalarFacts DEF ClientInv
      <4>2. u \in gap \union Held(b) BY <1>1, <2>8, <4>1 DEF Covered
      <4>3. QED BY <2>4, <4>1, <4>2
    <3>2. QED BY <3>1 DEF Covered
  <2>11. StreamInv'
    <3>1. seen' = h BY <1>3, <1>8
    <3> HIDE DEF h, b
    <3>2. \A t \in streams' : StreamOK(t)' BY <2>2, <2>5, <2>6
    <3>3. \A t, u \in streams' : t.id = u.id => t = u
      BY <2>2, <2>3, <2>6 DEF ClientInv, StreamInv
    <3>4. \A t \in streams' : t.open => Own(t.id)' BY <2>2, <2>3, <2>6, <2>7
    <3>5. \A t \in streams' : Own(t.id)' =>
            /\ \A v \in Held(t.buffer) : v > seen'
            /\ \A v \in Held(t.buffer) : Covered(v, t.buffer)'
            /\ Covered(seen + 1, t.buffer)'
      <4>1. ASSUME NEW t \in streams', Own(t.id)' PROVE t = c
        BY <2>2, <2>6, <2>7, <4>1
      <4>2. Covered(seen + 1, c.buffer)' BY <2>10, <3>1 DEF Covered
      <4>3. QED BY <2>4, <2>9, <3>1, <4>1, <4>2
    <3>6. QED BY <3>2, <3>3, <3>4, <3>5 DEF StreamInv
  <2>12. QED BY <1>4, <1>5, <1>6, <2>11 DEF ClientInv
<1>9. QED BY <1>7, <1>8

-------------------------------------------------------------------------------
(* The application, the faults and the server *)

(* The C library's queue and the application touch nothing the rest reads. *)
LEMMA ApplicationStep ==
  ASSUME ClientInv, ScalarTypes', UNCHANGED <<sessionVars, pc, token, reading, seen, told, gap>>
  PROVE  ClientInv'
BY DEF sessionVars, ClientInv, JobInv, OfflineHasCause, ReplyInv, StreamInv, StreamOK, GapInv,
       Own, Covered, Tokens

LEMMA ApplicationTypes ==
  ASSUME ClientInv, Pump \/ Poll \/ AskState
  PROVE  ScalarTypes'
<1>1. /\ UNCHANGED <<sessionVars, pc, token, reading, seen, told, gap, faults>>
  BY DEF Pump, Poll, AskState
<1>2. inbox' \in Seq(BOOLEAN) /\ Len(inbox') <= InboxCap
  <2>1. inbox \in Seq(BOOLEAN) /\ Len(inbox) \in Nat /\ Len(inbox) <= InboxCap
    BY DEF ClientInv, ScalarTypes
  <2>2. CASE inbox # << >> /\ inbox' = Tail(inbox)
    <3>1. /\ Tail(inbox) \in Seq(BOOLEAN) /\ Len(inbox) \in Nat \ {0}
          /\ Len(Tail(inbox)) = Len(inbox) - 1
      BY <2>1, <2>2, TailFacts
    <3>2. QED BY <2>1, <2>2, <3>1, ClientAssumption
  <2>3. CASE inbox' = inbox BY <2>1, <2>3
  <2>4. QED BY <2>2, <2>3 DEF Pump, Poll, AskState
<1>3. local' \in 0..LocalCap
  <2>1. local \in 0..LocalCap BY DEF ClientInv, ScalarTypes
  <2>2. CASE Pump
    <3>1. (local < LocalCap /\ local' = local + 1) \/ local' = local
      BY <2>2, Zenon DEF Pump
    <3>2. QED BY <2>1, <3>1, ClientAssumption
  <2>3. CASE Poll \/ AskState
    BY <2>1, <2>3, ClientAssumption DEF Poll, AskState
  <2>4. QED BY <2>2, <2>3
<1>4. failed' \in BOOLEAN
  <2>1. CASE Pump BY <2>1, Zenon DEF Pump
  <2>2. CASE ~Pump BY <2>2 DEF ClientInv, ScalarTypes, Poll, AskState
  <2>3. QED BY <2>1, <2>2
<1>5. QED BY <1>1, <1>2, <1>3, <1>4 DEF ClientInv, ScalarTypes, sessionVars, Tokens

LEMMA CallFailsStep == ClientInv /\ CallFails => ClientInv'
<1> SUFFICES ASSUME ClientInv, CallFails PROVE ClientInv'
  OBVIOUS
<1> DEFINE C == {s \in streams : reply # << >> /\ pc = "watching" /\ s.id = reply[1].value}
<1>0. faults' \in Nat
  <2>1. Fault BY Zenon DEF CallFails
  <2>2. QED BY <2>1 DEF Fault, ClientInv, ScalarTypes
<1>1. /\ pc \in {"watching", "opening", "fetching"} /\ reply' = Refusal /\ faults' \in Nat
      /\ UNCHANGED <<version, nextToken, current, offline, nextStream, ended, pc, token,
                     reading, seen, told, gap, inbox, local, failed>>
  <2>1. /\ pc \in {"watching", "opening", "fetching"} /\ reply' = Refusal
        /\ UNCHANGED <<version, nextToken, current, offline, nextStream, ended,
                       pc, token, reading, seen, told, gap, inbox, local, failed, others>>
    BY Zenon DEF CallFails
  <2>2. QED BY <1>0, <2>1
<1>2. streams' = {IF s \in C THEN [s EXCEPT !.open = FALSE] ELSE s : s \in streams}
  BY DEF CallFails, At
<1>3. ScalarTypes'
  BY <1>1 DEF ClientInv, ScalarTypes, Tokens
<1>4. JobInv'
  <2>1. CASE jobs' = {j \in jobs : ~j.wanted}
    BY <1>1, <2>1, JobsStay, ScalarFacts DEF ClientInv, JobInv, OfflineHasCause
  <2>2. CASE jobs' = {IF j.wanted THEN [j EXCEPT !.wanted = FALSE, !.by = faults'] ELSE j :
                        j \in jobs}
    <3>1. ASSUME NEW j \in jobs,
                 NEW k, k = IF j.wanted THEN [j EXCEPT !.wanted = FALSE, !.by = faults'] ELSE j
          PROVE  k \in Job /\ k.token = j.token /\ k.kind = j.kind /\ ~k.wanted
      <4>1. j \in Job BY DEF ClientInv, JobInv
      <4>2. QED BY <1>1, <3>1, <4>1 DEF Job
    <3>2. \A k \in jobs' : \E j \in jobs :
            k \in Job /\ k.token = j.token /\ k.kind = j.kind /\ ~k.wanted
      BY <2>2, <3>1
    <3>3. Tokens' = Tokens BY <1>1 DEF Tokens
    <3>4. QED BY <1>1, <3>2, <3>3 DEF ClientInv, JobInv, OfflineHasCause
  <2>3. QED BY <2>1, <2>2 DEF CallFails
<1>5. ReplyInv'
  BY <1>1 DEF ReplyInv
<1>6. StreamInv'
  <2>1. \A id : ~Own(id)' BY <1>1, AnswerFacts DEF Own
  <2>2. \A s \in streams : s.open => s \in C
    <3>1. \A s \in streams : s.open => pc = "watching" /\ reply = Answer(s.id)
      BY <1>1, OpenStreams
    <3>2. QED BY <3>1, AnswerFacts
  <2> HIDE DEF C
  <2>3. QED BY <1>1, <1>2, <2>1, <2>2, StreamsClose
<1>7. GapInv'
  BY <1>1, AnswerFacts DEF GapInv
<1>8. QED BY <1>3, <1>4, <1>5, <1>6, <1>7 DEF ClientInv

LEMMA DropStreamStep ==
  ASSUME ClientInv, NEW lost \in BOOLEAN, DropStream(lost), faults' \in Nat,
         UNCHANGED <<pc, token, reading, seen, told, gap, inbox, local, failed>>
  PROVE  ClientInv'
<1>1. PICK s \in streams :
        /\ ~s.open /\ streams' = streams \ {s} /\ ended' = ended \union {s.token}
        /\ jobs' = IF lost THEN jobs
                   ELSE jobs \union {[kind |-> "disconnect", token |-> s.token, by |-> s.id,
                                      wanted |-> FALSE]}
        /\ UNCHANGED <<version, nextToken, current, offline, nextStream, reply>>
  BY DEF DropStream
<1> DEFINE job == [kind |-> "disconnect", token |-> s.token, by |-> s.id, wanted |-> FALSE]
<1>2. s.token \in Tokens /\ s.token \in Nat /\ s.id \in Nat
  BY DEF ClientInv, StreamInv, StreamOK, Stream
<1>3. ScalarTypes'
  BY <1>1, <1>2 DEF ClientInv, ScalarTypes, Tokens
<1>4. JobInv'
  <2>1. job \in Job /\ job.kind = "disconnect" /\ job.token = s.token /\ ~job.wanted
    BY <1>2 DEF Job, JobKind
  <2>2. jobs' \subseteq jobs \union {job} BY <1>1
  <2> HIDE DEF job
  <2>3. Tokens' = Tokens BY <1>1 DEF Tokens
  <2>4. QED BY <1>1, <1>2, <2>1, <2>2, <2>3 DEF ClientInv, JobInv, OfflineHasCause
<1>5. StreamInv'
  <2>1. \A id : Own(id)' <=> Own(id) BY <1>1 DEF Own
  <2>2. QED BY <1>1, <2>1, StreamsStay, ScalarFacts DEF ClientInv, StreamInv
<1>6. ReplyInv' /\ GapInv'
  BY <1>1 DEF ClientInv, ReplyInv, GapInv, Tokens
<1>7. QED BY <1>3, <1>4, <1>5, <1>6 DEF ClientInv

LEMMA ElsewhereStep == ClientInv /\ Elsewhere => ClientInv'
<1> SUFFICES ASSUME ClientInv, Elsewhere PROVE ClientInv'
  OBVIOUS
<1>1. /\ nextToken' = nextToken + 1 /\ current' = nextToken /\ offline' = FALSE
      /\ UNCHANGED <<version, streams, nextStream, jobs, reply, ended, pc, token, reading, seen,
                     told, gap, inbox, local, failed, faults>>
  BY DEF Elsewhere, OtherSession
<1>2. Tokens \subseteq Tokens' /\ current' \in Tokens' /\ nextToken' \in Nat
  <2>1. nextToken \in Nat \ {0} BY ScalarFacts DEF ClientInv, ScalarTypes
  <2>2. QED BY <1>1, <2>1 DEF Tokens
<1>3. ScalarTypes'
  BY <1>1, <1>2 DEF ClientInv, ScalarTypes
<1>4. JobInv'
  BY <1>1, <1>2, JobsStay, ScalarFacts DEF ClientInv, OfflineHasCause
<1>5. StreamInv'
  <2>1. \A id : Own(id)' <=> Own(id) BY <1>1 DEF Own
  <2>2. QED BY <1>1, <1>2, <2>1, StreamsStay, ScalarFacts DEF ClientInv, StreamInv
<1>6. ReplyInv' /\ GapInv'
  BY <1>1, <1>2 DEF ClientInv, ReplyInv, GapInv
<1>7. QED BY <1>3, <1>4, <1>5, <1>6 DEF ClientInv

(* An event enters a ring: nothing but the oldest is lost, and not silently. *)
Pushed(s, c) ==
  /\ c \in Stream /\ c.id = s.id /\ c.token = s.token /\ c.channel = s.channel /\ c.open = s.open
  /\ Len(c.buffer) <= BufferCap /\ Increasing(c.buffer)
  /\ Held(c.buffer) \subseteq Held(s.buffer) \union {version + 1}
  /\ ~c.lagged => ~s.lagged /\ Held(c.buffer) = Held(s.buffer) \union {version + 1}

LEMMA PushFacts ==
  ASSUME ScalarTypes, NEW s, StreamOK(s)
  PROVE  Pushed(s, Push(s, version + 1))
<1> DEFINE c == Push(s, version + 1)
<1> DEFINE b == s.buffer
           n == version + 1
<1>1. /\ s \in Stream /\ b \in Seq(Nat) /\ Len(b) \in Nat /\ Len(b) <= BufferCap
      /\ Increasing(b) /\ Held(b) \subseteq 1..version /\ n \in Nat /\ BufferCap \in Nat \ {0}
  BY SessionAssumption, ScalarFacts DEF StreamOK, Stream
<1>2. \A x \in Held(b) : x < n
  BY <1>1, ScalarFacts
<1> HIDE DEF n
<1>3. CASE Len(b) < BufferCap
  <2>1. c = [s EXCEPT !.buffer = Append(b, n)]
    BY <1>3 DEF Push, n
  <2>2. /\ Append(b, n) \in Seq(Nat) /\ Len(Append(b, n)) = Len(b) + 1
        /\ Held(Append(b, n)) = Held(b) \union {n} /\ Increasing(Append(b, n))
    BY <1>1, <1>2, AppendFacts, IncreasingAppend
  <2>3. /\ c \in Stream /\ c.id = s.id /\ c.token = s.token /\ c.channel = s.channel
        /\ c.open = s.open /\ c.lagged = s.lagged /\ c.buffer = Append(b, n)
    BY <1>1, <2>1, <2>2 DEF Stream
  <2>4. Len(c.buffer) <= BufferCap BY <1>1, <1>3, <2>2, <2>3
  <2>5. QED BY <2>2, <2>3, <2>4 DEF n, Pushed
<1>4. CASE ~(Len(b) < BufferCap)
  <2>1. b # << >> BY <1>1, <1>4
  <2>2. c = [s EXCEPT !.buffer = Append(Tail(b), n), !.lagged = TRUE]
    BY <1>4 DEF Push, n
  <2>3. /\ Tail(b) \in Seq(Nat) /\ Len(Tail(b)) = Len(b) - 1 /\ Increasing(Tail(b))
        /\ Held(Tail(b)) \subseteq Held(b)
    BY <1>1, <2>1, TailFacts, IncreasingTail
  <2>4. /\ Append(Tail(b), n) \in Seq(Nat) /\ Len(Append(Tail(b), n)) = Len(Tail(b)) + 1
        /\ Held(Append(Tail(b), n)) = Held(Tail(b)) \union {n} /\ Increasing(Append(Tail(b), n))
    <3>1. PICK t \in Seq(Nat) : t = Tail(b) BY <2>3
    <3>2. Increasing(t) /\ \A x \in Held(t) : x < n BY <1>2, <2>3, <3>1
    <3>3. /\ Append(t, n) \in Seq(Nat) /\ Len(Append(t, n)) = Len(t) + 1
          /\ Held(Append(t, n)) = Held(t) \union {n}
      BY <1>1, AppendFacts
    <3>4. Increasing(Append(t, n)) BY <1>1, <3>2, IncreasingAppend
    <3>5. QED BY <3>1, <3>3, <3>4
  <2>5. /\ c \in Stream /\ c.id = s.id /\ c.token = s.token /\ c.channel = s.channel
        /\ c.open = s.open /\ c.lagged = TRUE /\ c.buffer = Append(Tail(b), n)
    BY <1>1, <2>2, <2>4 DEF Stream
  <2>6. Len(c.buffer) <= BufferCap BY <1>1, <2>3, <2>4, <2>5
  <2>7. QED BY <2>3, <2>4, <2>5, <2>6 DEF n, Pushed
<1>5. QED BY <1>3, <1>4

LEMMA ServerChangeStep == ClientInv /\ ServerChange => ClientInv'
<1> SUFFICES ASSUME ClientInv, ServerChange PROVE ClientInv'
  OBVIOUS
<1> DEFINE n == version + 1
           After(s) == IF s.channel = current THEN Push(s, n) ELSE s
<1>1. /\ version < MaxVersion /\ version' = n
      /\ streams' = {After(s) : s \in streams}
      /\ gap' = IF \E s \in streams : s.open /\ s.channel = current THEN gap ELSE gap \union {n}
      /\ UNCHANGED <<nextToken, current, offline, nextStream, jobs, reply, ended, pc, token,
                     reading, seen, told, inbox, local, failed, faults>>
  BY DEF ServerChange, Change
<1>2. version \in Nat /\ n \in Nat /\ version \in 0..n /\ 1..n = (1..version) \union {n}
  BY ScalarFacts DEF ClientInv
<1>3. Tokens' = Tokens /\ gap \subseteq gap' /\ gap' \subseteq gap \union {n}
  BY <1>1 DEF Tokens
<1>4. ScalarTypes'
  <2>1. n \in 0..MaxVersion BY <1>1, <1>2, SessionAssumption
  <2>2. seen \in 0..n /\ gap' \subseteq 1..n
    BY <1>2, <1>3, ScalarFacts DEF ClientInv, ScalarTypes
  <2> HIDE DEF n
  <2>3. QED BY <1>1, <1>3, <2>1, <2>2 DEF ClientInv, ScalarTypes
<1>5. JobInv'
  BY <1>1, JobsStay, ScalarFacts DEF ClientInv, JobInv, OfflineHasCause
<1>6. ASSUME \A s \in streams : ~s.open
      PROVE  n \in gap'
  BY <1>1, <1>6
<1>7. \A v \in Nat : v..n \subseteq (v..version) \union {n}
  BY <1>2
<1>8. GapInv'
  <2>1. SUFFICES ASSUME ~told, pc = "watch" \/ (pc = "watching" /\ reply = << >>)
                 PROVE  (seen + 1)..n \subseteq gap'
    BY <1>1 DEF GapInv
  <2>2. \A s \in streams : ~s.open BY <2>1, OpenStreams, AnswerFacts
  <2>3. n \in gap' BY <1>6, <2>2
  <2>4. (seen + 1)..version \subseteq gap BY <2>1 DEF ClientInv, GapInv
  <2>5. seen + 1 \in Nat BY ScalarFacts DEF ClientInv
  <2> HIDE DEF n
  <2>6. QED BY <1>3, <1>7, <2>3, <2>4, <2>5
<1>9. ReplyInv'
  <2>1. ASSUME pc = "fetching", NEW v \in seen..version, reply = Answer(v),
               (v + 1)..version \subseteq gap
        PROVE  v \in seen..n /\ (v + 1)..n \subseteq gap'
    <3>1. \A s \in streams : ~s.open BY <2>1, OpenStreams
    <3>2. n \in gap' BY <1>6, <3>1
    <3>3. v + 1 \in Nat /\ v \in seen..n BY <1>2, ScalarFacts DEF ClientInv
    <3> HIDE DEF n
    <3>4. QED BY <1>3, <1>7, <2>1, <3>2, <3>3
  <2> HIDE DEF n
  <2>2. QED BY <1>1, <1>3, <2>1 DEF ClientInv, ReplyInv
<1>10. ASSUME NEW s \in streams, NEW c, c = After(s)
       PROVE  /\ StreamOK(c)' /\ c.id = s.id /\ c.open = s.open /\ (~c.lagged => ~s.lagged)
              /\ Held(c.buffer) \subseteq Held(s.buffer) \union {n}
              /\ ~c.lagged => Held(s.buffer) \subseteq Held(c.buffer)
              /\ ~c.lagged /\ s.channel = current => n \in Held(c.buffer)
  <2>1. StreamOK(s) /\ s \in Stream BY DEF ClientInv, StreamInv, StreamOK
  <2>2. /\ c \in Stream /\ c.id = s.id /\ c.token = s.token /\ c.channel = s.channel
        /\ c.open = s.open /\ (~c.lagged => ~s.lagged)
        /\ Len(c.buffer) <= BufferCap /\ Increasing(c.buffer)
        /\ Held(c.buffer) \subseteq Held(s.buffer) \union {n}
        /\ ~c.lagged => Held(s.buffer) \subseteq Held(c.buffer)
        /\ ~c.lagged /\ s.channel = current => n \in Held(c.buffer)
    <3>1. CASE s.channel = current
      <4>1. c = Push(s, version + 1) BY <1>10, <3>1
      <4>2. Pushed(s, c) BY <2>1, <4>1, PushFacts DEF ClientInv
      <4>3. QED BY <4>2 DEF Pushed
    <3>2. CASE s.channel # current
      BY <1>10, <2>1, <3>2 DEF StreamOK
    <3>3. QED BY <3>1, <3>2
  <2>3. Held(c.buffer) \subseteq 1..n BY <1>2, <2>1, <2>2 DEF StreamOK
  <2> HIDE DEF n, After
  <2>4. c.id \in 1..(nextStream - 1) /\ c.token \in Tokens /\ c.channel \in Tokens
    BY <2>1, <2>2 DEF StreamOK
  <2>5. StreamOK(c)' BY <1>1, <1>3, <2>2, <2>3, <2>4 DEF StreamOK
  <2>6. QED BY <2>2, <2>5
(* The event is in the task's stream, or no open stream is on its channel. *)
<1>11. ASSUME NEW s \in streams, Own(s.id), NEW c, c = After(s), ~c.lagged
       PROVE  n \in gap' \union Held(c.buffer)
  <2>1. CASE s.channel = current BY <1>10, <1>11, <2>1
  <2>2. CASE s.channel # current
    <3>1. \A t \in streams : t.open => t = s
      <4>1. ASSUME NEW t \in streams, t.open PROVE t = s
        <5>1. Own(t.id) BY <4>1 DEF ClientInv, StreamInv
        <5>2. t.id = s.id
          <6>1. ASSUME Answer(t.id) = Answer(s.id) PROVE t.id = s.id
            <7>1. Answer(t.id)[1].value = t.id /\ Answer(s.id)[1].value = s.id BY AnswerFacts
            <7>2. QED BY <6>1, <7>1
          <6>2. QED BY <1>11, <5>1, <6>1 DEF Own
        <5>3. QED BY <5>2 DEF ClientInv, StreamInv
      <4>2. QED BY <4>1
    <3>2. QED BY <1>1, <2>2, <3>1
  <2>3. QED BY <2>1, <2>2
<1>12. StreamInv'
  <2>1. ASSUME NEW c \in streams'
        PROVE  \E s \in streams : c = After(s)
    BY <1>1
  <2>2. \A c \in streams' : StreamOK(c)' BY <1>10, <2>1
  <2>3. ASSUME NEW c \in streams', NEW d \in streams', c.id = d.id
        PROVE  c = d
    <3>1. PICK s \in streams : c = After(s) BY <2>1
    <3>2. PICK t \in streams : d = After(t) BY <2>1
    <3>3. s.id = t.id BY <1>10, <2>3, <3>1, <3>2
    <3>4. s = t BY <3>3 DEF ClientInv, StreamInv
    <3>5. QED BY <3>1, <3>2, <3>4
  <2>4. \A id : Own(id)' <=> Own(id) BY <1>1 DEF Own
  <2>5. ASSUME NEW c \in streams'
        PROVE  /\ c.open => Own(c.id)
               /\ Own(c.id) =>
                    /\ \A v \in Held(c.buffer) : v > seen
                    /\ ~c.lagged => \A v \in Held(c.buffer) :
                                       v..n \subseteq gap' \union Held(c.buffer)
                    /\ ~c.lagged /\ ~told => (seen + 1)..n \subseteq gap' \union Held(c.buffer)
    <3>1. PICK s \in streams : c = After(s) BY <2>1
    <3>2. /\ c.id = s.id /\ c.open = s.open /\ (~c.lagged => ~s.lagged)
          /\ Held(c.buffer) \subseteq Held(s.buffer) \union {n}
          /\ ~c.lagged => Held(s.buffer) \subseteq Held(c.buffer)
      BY <1>10, <3>1
    <3>3. c.open => Own(c.id) BY <3>2 DEF ClientInv, StreamInv
    <3>4. ASSUME Own(c.id)
          PROVE  /\ \A v \in Held(c.buffer) : v > seen
                 /\ ~c.lagged => \A v \in Held(c.buffer) :
                                    v..n \subseteq gap' \union Held(c.buffer)
                 /\ ~c.lagged /\ ~told => (seen + 1)..n \subseteq gap' \union Held(c.buffer)
      <4>1. /\ \A v \in Held(s.buffer) : v > seen
            /\ ~s.lagged => \A v \in Held(s.buffer) : v..version \subseteq gap \union Held(s.buffer)
            /\ ~s.lagged /\ ~told => (seen + 1)..version \subseteq gap \union Held(s.buffer)
        BY <3>2, <3>4 DEF ClientInv, StreamInv, Covered
      <4>2. n > seen /\ seen + 1 \in Nat BY <1>2, ScalarFacts DEF ClientInv
      <4>3. Held(s.buffer) \subseteq Nat /\ n..n = {n}
        <5>1. StreamOK(s) BY DEF ClientInv, StreamInv
        <5>2. QED BY <1>2, <5>1 DEF StreamOK
      <4>4. ~c.lagged => n \in gap' \union Held(c.buffer) BY <1>11, <3>1, <3>2, <3>4
      <4> HIDE DEF n, After
      <4>5. \A v \in Held(c.buffer) : v > seen BY <3>2, <4>1, <4>2
      <4>6. ASSUME ~c.lagged, NEW v \in Held(c.buffer)
            PROVE  v..n \subseteq gap' \union Held(c.buffer)
        <5>1. CASE v = n BY <4>3, <4>4, <4>6, <5>1
        <5>2. CASE v \in Held(s.buffer)
          BY <1>3, <1>7, <3>2, <4>1, <4>3, <4>4, <4>6, <5>2
        <5>3. QED BY <3>2, <5>1, <5>2
      <4>7. ASSUME ~c.lagged, ~told
            PROVE  (seen + 1)..n \subseteq gap' \union Held(c.buffer)
        BY <1>3, <1>7, <3>2, <4>1, <4>2, <4>4, <4>7
      <4>8. QED BY <4>5, <4>6, <4>7
    <3>5. QED BY <3>3, <3>4
  <2>6. \A c \in streams' : Own(c.id) =>
          /\ ~c.lagged => \A v \in Held(c.buffer) : Covered(v, c.buffer)'
          /\ ~c.lagged /\ ~told => Covered(seen + 1, c.buffer)'
    BY <1>1, <2>5 DEF Covered
  <2> HIDE DEF n, After
  <2>7. QED BY <1>1, <2>2, <2>3, <2>4, <2>5, <2>6 DEF StreamInv
<1>13. QED BY <1>4, <1>5, <1>8, <1>9, <1>12 DEF ClientInv

-------------------------------------------------------------------------------
(* The actor applies a command *)

(* At most one call is waited for, so its answer finds no other waiting. *)
LEMMA OneCall ==
  ASSUME ClientInv, NEW j \in jobs, NEW k \in jobs, j.wanted, k.wanted
  PROVE  j = k
<1>1. j \in Job /\ k \in Job BY DEF ClientInv, JobInv
<1>2. /\ j.token = k.token /\ j.by = k.by
      /\ j.kind \in {"open", "state", "watch"} /\ k.kind \in {"open", "state", "watch"}
      /\ Place[j.kind] = Place[k.kind]
  BY <1>1 DEF ClientInv, JobInv, Job, JobKind
<1>3. j.kind = k.kind BY <1>2 DEF Place
<1>4. j.wanted = TRUE /\ k.wanted = TRUE BY <1>1 DEF Job
<1>5. QED BY <1>1, <1>2, <1>3, <1>4 DEF Job

(* What an answer needs to find: nobody is left waiting for another. *)
LEMMA ServedJobs ==
  ASSUME ClientInv, NEW job \in jobs, jobs' = jobs \ {job}, UNCHANGED <<pc, token, ended>>,
         nextToken' \in Nat, nextToken <= nextToken', OfflineHasCause',
         job.wanted \/ reply' = reply
  PROVE  JobInv'
<1>1. \A j \in jobs' : j.wanted => reply' = reply
  BY OneCall
<1>2. QED BY <1>1, JobsStay

LEMMA OpenSessionStep ==
  ASSUME ClientInv, NEW job \in jobs, OpenSession(job), UNCHANGED clientVars
  PROVE  ClientInv'
<1>1. /\ job.kind = "open" /\ jobs' = jobs \ {job}
      /\ nextToken' = nextToken + 1 /\ current' = nextToken /\ offline' = FALSE
      /\ reply' = IF job.wanted THEN Answer(nextToken) ELSE reply
      /\ UNCHANGED <<version, streams, nextStream, ended, pc, token, reading, seen, told, gap,
                     inbox, local, failed, faults>>
  BY DEF OpenSession, Reply, clientVars
<1>2. Tokens \subseteq Tokens' /\ current' \in Tokens' /\ nextToken' \in Nat /\ nextToken <= nextToken'
  <2>1. nextToken \in Nat \ {0} BY ScalarFacts DEF ClientInv, ScalarTypes
  <2>2. QED BY <1>1, <2>1 DEF Tokens
<1>3. job.wanted => pc = "opening"
  BY <1>1 DEF ClientInv, JobInv, Place
<1>4. ScalarTypes'
  BY <1>1, <1>2 DEF ClientInv, ScalarTypes
<1>5. JobInv'
  BY <1>1, <1>2, ServedJobs DEF OfflineHasCause
<1>6. ReplyInv'
  <2>1. CASE job.wanted BY <1>1, <1>2, <1>3, <2>1 DEF ReplyInv
  <2>2. CASE ~job.wanted BY <1>1, <1>2, <2>2 DEF ClientInv, ReplyInv
  <2>3. QED BY <2>1, <2>2
<1>7. StreamInv'
  <2>1. \A id : Own(id)' <=> Own(id) BY <1>1, <1>3 DEF Own
  <2>2. QED BY <1>1, <1>2, <2>1, StreamsStay DEF ClientInv, StreamInv
<1>8. GapInv'
  BY <1>1, <1>3 DEF ClientInv, GapInv
<1>9. QED BY <1>4, <1>5, <1>6, <1>7, <1>8 DEF ClientInv

LEMMA GetStateStep ==
  ASSUME ClientInv, NEW job \in jobs, GetState(job), UNCHANGED clientVars
  PROVE  ClientInv'
<1>1. /\ job.kind = "state" /\ jobs' = jobs \ {job}
      /\ reply' = IF job.wanted THEN Answer(version) ELSE reply
      /\ UNCHANGED <<version, nextToken, current, offline, streams, nextStream, ended, pc, token,
                     reading, seen, told, gap, inbox, local, failed, faults>>
  BY DEF GetState, Snapshot, Reply, clientVars
<1>2. job.wanted => pc = "fetching"
  BY <1>1 DEF ClientInv, JobInv, Place
<1>3. ScalarTypes'
  BY <1>1 DEF ClientInv, ScalarTypes, Tokens
<1>4. JobInv'
  BY <1>1, ServedJobs, ScalarFacts DEF ClientInv, JobInv, OfflineHasCause
<1>5. ReplyInv'
  <2>1. CASE job.wanted
    <3>1. version \in seen..version /\ (version + 1)..version \subseteq gap
      BY ScalarFacts DEF ClientInv
    <3>2. QED BY <1>1, <1>2, <2>1, <3>1 DEF ReplyInv
  <2>2. CASE ~job.wanted BY <1>1, <2>2 DEF ClientInv, ReplyInv, Tokens
  <2>3. QED BY <2>1, <2>2
<1>6. StreamInv'
  <2>1. \A id : Own(id)' <=> Own(id) BY <1>1, <1>2 DEF Own
  <2>2. QED BY <1>1, <2>1, StreamsStay, ScalarFacts DEF ClientInv, StreamInv
<1>7. GapInv'
  BY <1>1, <1>2 DEF ClientInv, GapInv
<1>8. QED BY <1>3, <1>4, <1>5, <1>6, <1>7 DEF ClientInv

LEMMA DisconnectStep ==
  ASSUME ClientInv, NEW job \in jobs, Disconnect(job), UNCHANGED clientVars
  PROVE  ClientInv'
<1>1. /\ job.kind = "disconnect" /\ jobs' = jobs \ {job}
      /\ offline' = (offline \/ job.token = current)
      /\ UNCHANGED <<version, nextToken, current, streams, nextStream, reply, ended, pc, token,
                     reading, seen, told, gap, inbox, local, failed, faults>>
  BY DEF Disconnect, EndsSession, clientVars
<1>2. offline' \in BOOLEAN
  BY <1>1, Zenon
<1>3. ScalarTypes'
  BY <1>1, <1>2 DEF ClientInv, ScalarTypes, Tokens
<1>4. OfflineHasCause'
  <2>1. job.token \in ended BY <1>1 DEF ClientInv, JobInv
  <2>2. offline => current \in ended BY DEF ClientInv, JobInv, OfflineHasCause
  <2>3. QED BY <1>1, <2>1, <2>2, Zenon DEF OfflineHasCause
<1>5. JobInv'
  BY <1>1, <1>4, ServedJobs, ScalarFacts DEF ClientInv
<1>6. StreamInv'
  <2>1. \A id : Own(id)' <=> Own(id) BY <1>1 DEF Own
  <2>2. QED BY <1>1, <2>1, StreamsStay, ScalarFacts DEF ClientInv, StreamInv
<1>7. ReplyInv' /\ GapInv'
  BY <1>1 DEF ClientInv, ReplyInv, GapInv, Tokens
<1>8. QED BY <1>3, <1>5, <1>6, <1>7 DEF ClientInv

LEMMA WatchEventsStep ==
  ASSUME ClientInv, NEW job \in jobs, WatchEvents(job), UNCHANGED clientVars
  PROVE  ClientInv'
<1>a. PICK n \in Nat \ {0} : n = nextStream
  BY DEF ClientInv, ScalarTypes
<1>b. PICK new : new = [id |-> n, token |-> job.token, channel |-> current, buffer |-> << >>,
                        lagged |-> FALSE, open |-> job.wanted]
  OBVIOUS
<1>1. /\ job.kind = "watch" /\ jobs' = jobs \ {job}
      /\ reply' = IF job.wanted THEN Answer(n) ELSE reply
      /\ \/ nextStream' = n + 1 /\ streams' = streams \union {new}
         \/ ~job.wanted /\ UNCHANGED <<streams, nextStream>>
      /\ UNCHANGED <<version, nextToken, current, offline, ended, pc, token,
                     reading, seen, told, gap, inbox, local, failed, faults>>
  BY <1>a, <1>b DEF WatchEvents, Reply, clientVars
<1>2. /\ job.wanted => pc = "watching" /\ reply = << >>
      /\ job.wanted \in BOOLEAN /\ job.token \in Tokens /\ n \in Nat \ {0}
  BY <1>a, <1>1 DEF ClientInv, JobInv, Place, Job, ScalarTypes
<1>3. Tokens' = Tokens
  BY <1>1 DEF Tokens
<1>c. PICK m \in Nat \ {0} : m = nextStream' /\ (m = n \/ m = n + 1) /\ (job.wanted => m = n + 1)
  <2>1. CASE nextStream' = n + 1
    <3>1. n + 1 \in Nat \ {0} OBVIOUS
    <3>2. QED BY <2>1, <3>1
  <2>2. CASE ~job.wanted /\ nextStream' = n BY <2>2
  <2>3. QED BY <1>a, <1>1, <2>1, <2>2
<1>d. 1..(n - 1) \subseteq 1..(m - 1) /\ 0..(n - 1) \subseteq 0..(m - 1)
  <2>1. n <= m BY <1>c
  <2>2. QED BY <2>1
<1>4. ScalarTypes'
  <2>1. reading \in 0..(m - 1) BY <1>a, <1>d DEF ClientInv, ScalarTypes
  <2>2. UNCHANGED <<version, nextToken, current, offline, ended, pc, token, reading, seen, told,
                   gap, inbox, local, failed, faults>>
    BY <1>1
  <2>3. QED BY <1>3, <1>c, <2>1, <2>2 DEF ClientInv, ScalarTypes
<1>5. JobInv'
  BY <1>1, ServedJobs, ScalarFacts DEF ClientInv, JobInv, OfflineHasCause
<1>6. ReplyInv'
  <2>1. CASE job.wanted
    <3>1. n \in 1..(m - 1) BY <1>c, <2>1
    <3>2. QED BY <1>1, <1>2, <1>c, <2>1, <3>1 DEF ReplyInv
  <2>2. CASE ~job.wanted
    <3>1. reply' = reply /\ pc' = pc /\ gap' = gap /\ seen' = seen /\ version' = version
      BY <1>1, <2>2
    <3>2. QED BY <1>a, <1>3, <1>c, <1>d, <3>1 DEF ClientInv, ReplyInv
  <2>3. QED BY <2>1, <2>2
<1>7. GapInv'
  <2>1. CASE job.wanted BY <1>1, <1>2, <2>1, AnswerFacts DEF GapInv
  <2>2. CASE ~job.wanted BY <1>1, <2>2 DEF ClientInv, GapInv
  <2>3. QED BY <2>1, <2>2
(* The new stream is the task's if the call is still waited for. *)
<1>8. /\ \A id : Own(id)' => Own(id) \/ id = n
      /\ \A id : Own(id) => Own(id)' /\ id # n /\ ~job.wanted
      /\ Own(n)' <=> job.wanted
  <2>1. reading # n BY <1>a, <1>2 DEF ClientInv, ScalarTypes
  <2>2. ASSUME pc = "watching", reply = Answer(n) PROVE FALSE
    <3>1. reply # << >> /\ reply # Refusal BY <2>2, AnswerFacts
    <3>2. PICK v \in 1..(n - 1) : reply = Answer(v)
      BY <1>a, <2>2, <3>1 DEF ClientInv, ReplyInv
    <3>3. v = n
      <4>1. Answer(v)[1].value = v /\ Answer(n)[1].value = n BY AnswerFacts
      <4>2. QED BY <2>2, <3>2, <4>1
    <3>4. QED BY <1>2, <3>2, <3>3
  <2>3. ASSUME NEW id, Answer(n) = Answer(id) PROVE id = n
    <3>1. Answer(id)[1].value = id /\ Answer(n)[1].value = n BY AnswerFacts
    <3>2. QED BY <2>3, <3>1
  <2>4. \A id : reply # << >> \/ reply # Answer(id) BY AnswerFacts
  <2>5. CASE job.wanted BY <1>1, <1>2, <2>3, <2>4, <2>5 DEF Own
  <2>6. CASE ~job.wanted BY <1>1, <2>1, <2>2, <2>6 DEF Own
  <2>7. QED BY <2>5, <2>6
<1>9. StreamInv'
  <2>1. CASE streams' = streams /\ ~job.wanted /\ nextStream' = nextStream
    <3>1. \A id : Own(id)' <=> Own(id) BY <1>1, <2>1 DEF Own
    <3>2. QED BY <1>1, <2>1, <3>1, StreamsStay, ScalarFacts DEF ClientInv, StreamInv
  <2>2. CASE nextStream' = n + 1 /\ streams' = streams \union {new}
    <3>1. /\ new \in Stream /\ new.id = n /\ new.token = job.token /\ new.channel = current
          /\ new.buffer = << >> /\ new.open = job.wanted
      <4>1. job.token \in Nat /\ current \in Nat
        BY <1>2, ScalarFacts DEF ClientInv, ScalarTypes
      <4>2. QED BY <1>b, <1>2, <4>1 DEF Stream
    <3>2. Held(new.buffer) = {} /\ Increasing(new.buffer) /\ Len(new.buffer) = 0
      BY <3>1 DEF Held, Increasing
    <3>3. StreamOK(new)'
      <4>1. n \in 1..(nextStream' - 1) BY <1>2, <2>2
      <4>2. current \in Tokens' /\ job.token \in Tokens'
        BY <1>2, <1>3 DEF ClientInv, ScalarTypes
      <4>3. QED BY <3>1, <3>2, <4>1, <4>2, SessionAssumption DEF StreamOK
    <3>4. \A s \in streams : StreamOK(s)' /\ s.id # n
      <4>1. 1..(n - 1) \subseteq 1..(nextStream' - 1) /\ n \notin 1..(n - 1) BY <1>2, <2>2
      <4>2. \A s \in streams : StreamOK(s) /\ s.id \in 1..(n - 1)
        BY <1>a DEF ClientInv, StreamInv, StreamOK
      <4>3. QED BY <1>1, <1>3, <4>1, <4>2 DEF StreamOK
    <3>5. \A s \in streams' : StreamOK(s)' BY <2>2, <3>3, <3>4
    <3>6. \A s, t \in streams' : s.id = t.id => s = t
      BY <2>2, <3>1, <3>4 DEF ClientInv, StreamInv
    <3>7. \A s \in streams' : s.open => Own(s.id)'
      BY <1>8, <2>2, <3>1 DEF ClientInv, StreamInv
    <3>8. ASSUME NEW s \in streams, Own(s.id)'
          PROVE  /\ \A v \in Held(s.buffer) : v > seen
                 /\ ~s.lagged => \A v \in Held(s.buffer) : Covered(v, s.buffer)'
                 /\ ~s.lagged /\ ~told => Covered(seen + 1, s.buffer)'
      <4>1. Own(s.id) BY <1>8, <3>4, <3>8
      <4>2. QED BY <1>1, <4>1 DEF ClientInv, StreamInv, Covered
    <3>9. ASSUME Own(n)', ~told
          PROVE  Covered(seen + 1, new.buffer)'
      <4>1. (seen + 1)..version \subseteq gap BY <1>2, <1>8, <3>9 DEF ClientInv, GapInv
      <4>2. QED BY <1>1, <4>1 DEF Covered
    <3>10. \A s \in streams' : Own(s.id)' =>
             /\ \A v \in Held(s.buffer) : v > seen
             /\ ~s.lagged => \A v \in Held(s.buffer) : Covered(v, s.buffer)'
             /\ ~s.lagged /\ ~told => Covered(seen + 1, s.buffer)'
      BY <2>2, <3>1, <3>2, <3>8, <3>9
    <3>11. QED BY <1>1, <3>5, <3>6, <3>7, <3>10 DEF StreamInv
  <2>3. QED BY <1>1, <2>1, <2>2
<1>10. QED BY <1>4, <1>5, <1>6, <1>7, <1>9 DEF ClientInv

-------------------------------------------------------------------------------
(* The invariant *)

LEMMA InitClient == Init => ClientInv
<1> SUFFICES ASSUME Init PROVE ClientInv
  OBVIOUS
<1>1. /\ version = 0 /\ nextToken = 2 /\ current = 1 /\ offline = FALSE /\ streams = {}
      /\ nextStream = 1 /\ jobs = {} /\ reply = << >> /\ ended = {} /\ pc = "watch"
      /\ token = 1 /\ reading = 0 /\ seen = 0 /\ told = FALSE /\ gap = {} /\ inbox = << >>
      /\ local = 0 /\ failed = FALSE /\ faults = 0
  BY DEF Init, SessionInit
<1>2. Tokens = {1}
  BY <1>1 DEF Tokens
<1>3. ScalarTypes
  <2>1. 0 \in 0..MaxVersion /\ 0 \in 0..LocalCap /\ 0 <= InboxCap
    BY SessionAssumption, ClientAssumption
  <2>2. inbox \in Seq(BOOLEAN) /\ Len(inbox) = 0
    BY <1>1
  <2>3. 0 \in 0..(nextStream - 1) /\ 0 \in 0..version
    BY <1>1
  <2>4. /\ version \in 0..MaxVersion /\ nextToken \in Nat /\ current \in Tokens /\ token \in Tokens
        /\ offline \in BOOLEAN /\ nextStream \in Nat \ {0}
        /\ ended \subseteq Tokens /\ gap \subseteq 1..version
    <3>1. 2 \in Nat /\ 1 \in Nat \ {0} /\ 1 \in Tokens BY <1>2
    <3>2. QED BY <1>1, <2>1, <3>1
  <2>5. /\ pc = "watch" /\ told \in BOOLEAN /\ failed \in BOOLEAN /\ faults \in Nat
        /\ reading \in 0..(nextStream - 1) /\ seen \in 0..version
        /\ Len(inbox) <= InboxCap /\ local \in 0..LocalCap
    BY <1>1, <2>1, <2>2, <2>3
  <2>6. QED BY <2>2, <2>4, <2>5 DEF ScalarTypes
<1>4. JobInv /\ ReplyInv /\ StreamInv
  BY <1>1 DEF JobInv, OfflineHasCause, ReplyInv, StreamInv
<1>5. GapInv
  <2>1. (seen + 1)..version = {} BY <1>1
  <2>2. QED BY <2>1 DEF GapInv
<1>6. QED BY <1>3, <1>4, <1>5 DEF ClientInv

LEMMA TaskKeepsInv == ClientInv /\ TaskStep => ClientInv'
<1> SUFFICES ASSUME ClientInv, TaskStep PROVE ClientInv'
  OBVIOUS
<1>1. Place["watch"] = "watching" /\ Place["open"] = "opening" /\ Place["state"] = "fetching"
  BY DEF Place
<1>2. CASE Watch
  <2>1. Request("watch", "watch", Place["watch"]) BY <1>1, <1>2 DEF Watch
  <2>2. QED BY <2>1, RequestStep
<1>3. CASE Reopen
  <2>1. Request("open", "backoff", Place["open"]) BY <1>1, <1>3 DEF Reopen
  <2>2. QED BY <2>1, RequestStep
<1>4. CASE Fetch
  <2>1. Request("state", "fetch", Place["state"]) BY <1>1, <1>4 DEF Fetch
  <2>2. QED BY <2>1, RequestStep
<1>5. CASE Watched BY <1>5, WatchedStep
<1>6. CASE WatchRefused BY <1>6, WatchRefusedStep
<1>7. CASE Forward BY <1>7, ForwardStep
<1>8. CASE StreamEnds BY <1>8, StreamEndsStep
<1>9. CASE Reopened BY <1>9, ReopenedStep
<1>10. CASE ReconnectFailed BY <1>10, ReconnectFailedStep
<1>11. CASE Fetched BY <1>11, FetchedStep
<1>12. QED
  BY <1>2, <1>3, <1>4, <1>5, <1>6, <1>7, <1>8, <1>9, <1>10, <1>11 DEF TaskStep

LEMMA ClientStep == ClientInv /\ [Next]_vars => ClientInv'
<1> SUFFICES ASSUME ClientInv, [Next]_vars PROVE ClientInv'
  OBVIOUS
<1>1. CASE TaskStep
  BY <1>1, TaskKeepsInv
<1>2. CASE Pump \/ Poll \/ AskState
  <2>1. ScalarTypes' BY <1>2, ApplicationTypes
  <2>2. UNCHANGED <<sessionVars, pc, token, reading, seen, told, gap>>
    BY <1>2 DEF Pump, Poll, AskState
  <2>3. QED BY <2>1, <2>2, ApplicationStep
<1>3. CASE CallFails
  BY <1>3, CallFailsStep
<1>4. CASE StreamBreaks
  BY <1>4, StreamBreaksStep
<1>5. CASE LoseDisconnect
  <2>1. /\ Fault /\ DropStream(TRUE)
        /\ UNCHANGED <<pc, token, reading, seen, told, gap, inbox, local, failed>>
    BY <1>5 DEF LoseDisconnect
  <2>2. faults' \in Nat BY <2>1 DEF Fault, ClientInv, ScalarTypes
  <2>3. QED BY <2>1, <2>2, DropStreamStep
<1>6. CASE Notice
  <2>1. /\ DropStream(FALSE) /\ faults' = faults
        /\ UNCHANGED <<pc, token, reading, seen, told, gap, inbox, local, failed>>
    BY <1>6 DEF Notice, clientVars
  <2>2. faults' \in Nat BY <2>1 DEF ClientInv, ScalarTypes
  <2>3. QED BY <2>1, <2>2, DropStreamStep
<1>7. CASE ServerChange
  BY <1>7, ServerChangeStep
<1>8. CASE Elsewhere
  BY <1>8, ElsewhereStep
<1>9. CASE Serve
  <2>1. PICK job \in jobs : OpenSession(job) \/ GetState(job) \/ WatchEvents(job) \/ Disconnect(job)
    BY <1>9 DEF Serve, Apply
  <2>2. UNCHANGED clientVars
    BY <1>9 DEF Serve
  <2>3. QED BY <2>1, <2>2, OpenSessionStep, GetStateStep, WatchEventsStep, DisconnectStep
<1>10. CASE UNCHANGED vars
  <2>1. /\ UNCHANGED <<sessionVars, pc, token, reading, seen, told, gap>>
        /\ UNCHANGED <<inbox, local, failed, faults>>
    BY <1>10 DEF vars, clientVars
  <2>2. ScalarTypes' BY <2>1 DEF ClientInv, ScalarTypes, sessionVars, Tokens
  <2>3. QED BY <2>1, <2>2, ApplicationStep
<1>11. QED
  BY <1>1, <1>2, <1>3, <1>4, <1>5, <1>6, <1>7, <1>8, <1>9, <1>10 DEF Next

(* The invariant of the client and its session, for all values of the          *)
(* capacities and bounds.                                                      *)
THEOREM ClientInvariant == Spec => []ClientInv
<1>1. QED BY InitClient, ClientStep, PTL DEF Spec

(* A player is held to be offline only if a stream of its latest session was   *)
(* dropped (EndsSession): no disconnect takes a newer session offline.         *)
THEOREM OfflineIsCaused == Spec => []OfflineHasCause
<1>1. ClientInv => OfflineHasCause
  BY DEF ClientInv, JobInv
<1>2. QED BY <1>1, ClientInvariant, PTL

LEMMA BoundedSequence ==
  ASSUME NEW S, NEW T, NEW b \in Seq(T), \A i \in 1..Len(b) : b[i] \in S,
         NEW N \in Nat, Len(b) <= N
  PROVE  b \in UNION {[1..n -> S] : n \in 0..N}
<1>1. PICK n \in Nat : n = Len(b)
  OBVIOUS
<1>2. n \in 0..N /\ b \in [1..n -> T] /\ \A i \in 1..n : b[i] \in S
  BY <1>1
<1>3. b \in [1..n -> S]
  BY <1>2
<1>4. QED BY <1>2, <1>3

(* Type correctness: buffers and queues stay within their capacities, and one  *)
(* call at most is waited for.                                                 *)
THEOREM ClientTypes == Spec => []ClientTypeOK
<1>1. ClientInv => ClientTypeOK
  <2> SUFFICES ASSUME ClientInv PROVE ClientTypeOK
    OBVIOUS
  <2>1. ASSUME NEW s \in streams
        PROVE  s \in [id : 1..(nextStream - 1), token : Tokens, channel : Tokens,
                      buffer : UNION {[1..n -> 1..version] : n \in 0..BufferCap},
                      lagged : BOOLEAN, open : BOOLEAN]
    <3>1. StreamOK(s) /\ s \in Stream BY DEF ClientInv, StreamInv, StreamOK
    <3>2. s.buffer \in Seq(Nat) /\ \A i \in 1..Len(s.buffer) : s.buffer[i] \in 1..version
      BY <3>1 DEF StreamOK, Stream, Held
    <3>3. s.buffer \in UNION {[1..n -> 1..version] : n \in 0..BufferCap}
      <4>1. BufferCap \in Nat /\ Len(s.buffer) <= BufferCap
        BY <3>1, SessionAssumption DEF StreamOK
      <4>2. QED BY <3>2, <4>1, BoundedSequence
    <3>4. QED BY <3>1, <3>3 DEF StreamOK, Stream
  <2>2. \A j \in jobs : j.kind \in JobKind /\ j.token \in Tokens
    BY DEF ClientInv, JobInv, Job
  <2>3. \A j, k \in {i \in jobs : i.wanted} : j = k
    BY OneCall
  <2>4. inbox \in UNION {[1..n -> BOOLEAN] : n \in 0..InboxCap}
    <3>1. inbox \in Seq(BOOLEAN) /\ Len(inbox) <= InboxCap
      BY DEF ClientInv, ScalarTypes
    <3>2. \A i \in 1..Len(inbox) : inbox[i] \in BOOLEAN
      BY <3>1
    <3>3. QED BY <3>1, <3>2, BoundedSequence, ClientAssumption
  <2>5. QED BY <2>1, <2>2, <2>3, <2>4 DEF ClientInv, ScalarTypes, ClientTypeOK
<1>2. QED BY <1>1, ClientInvariant, PTL

-------------------------------------------------------------------------------
(* What the application is handed *)

(* The next event of a stream is its oldest, and newer than what was delivered. *)
LEMMA ForwardFacts ==
  ASSUME ClientInv, Forward
  PROVE  \/ UNCHANGED seen
         \/ /\ seen' \in Nat /\ seen' > seen
            /\ ~told => (seen + 1)..(seen' - 1) \subseteq gap
<1>1. PICK s \in streams : /\ pc = "forward" /\ s.id = reading /\ ~s.lagged
                           /\ s.buffer # << >> /\ Deliver("forward", Head(s.buffer), FALSE)
  BY DEF Forward, At
<1>2. PICK b \in Seq(Nat) : b = s.buffer /\ Increasing(b) /\ Held(b) \subseteq 1..version
  BY DEF ClientInv, StreamInv, StreamOK, Stream
<1>3. PICK h : h = Head(b)
  OBVIOUS
<1>4. /\ h \in Held(b) /\ h \in Nat
      /\ Held(b) = {h} \union Held(Tail(b)) /\ \A x \in Held(Tail(b)) : x > h
  BY <1>1, <1>2, <1>3, TailFacts, IncreasingTail
<1>5. h > seen /\ (~told => Covered(seen + 1, b))
  BY <1>1, <1>2, <1>4 DEF ClientInv, StreamInv, Own
<1>6. seen' = h \/ seen' = seen
  BY <1>1, <1>2, <1>3 DEF Deliver
<1>7. ASSUME ~told, NEW u \in (seen + 1)..(h - 1)
      PROVE  u \in gap
  <2>1. version \in Nat /\ seen \in Nat /\ h <= version
    BY <1>2, <1>4, ScalarFacts DEF ClientInv
  <2>2. u \in (seen + 1)..version /\ u < h
    BY <1>4, <2>1
  <2>3. u \in gap \union Held(b) BY <1>5, <1>7, <2>2 DEF Covered
  <2>4. u \notin Held(b) BY <1>4, <2>2
  <2>5. QED BY <2>3, <2>4
<1>8. QED BY <1>4, <1>5, <1>6, <1>7

(* A snapshot is no older than what was delivered; an error changes nothing.   *)
LEMMA ReplyFacts ==
  ASSUME ClientInv, Fetched \/ ReconnectFailed
  PROVE  pc # "forward" /\ seen' >= seen
<1>1. seen \in Nat /\ seen >= seen
  BY ScalarFacts DEF ClientInv
<1>2. CASE Fetched
  <2>1. PICK v : v = reply[1].value
    OBVIOUS
  <2>2. pc = "fetching" /\ v \in seen..version
    BY <1>2, <2>1, Answered DEF ClientInv, Fetched
  <2>3. seen' = v \/ seen' = seen
    BY <1>2, <2>1 DEF Fetched, Deliver
  <2>4. QED BY <1>1, <2>2, <2>3
<1>3. CASE ReconnectFailed
  <2>1. pc \in {"opening", "fetching"}
    BY <1>3, Refused DEF ClientInv, ReconnectFailed
  <2>2. seen' = seen
    BY <1>3 DEF ReconnectFailed, Deliver
  <2>3. QED BY <1>1, <2>1, <2>2
<1>4. QED BY <1>2, <1>3

(* Nothing else is handed to the application. *)
LEMMA OnlyTheseDeliver ==
  ASSUME [Next]_vars
  PROVE  Forward \/ Fetched \/ ReconnectFailed \/ UNCHANGED seen
<1>1. CASE TaskStep
  BY <1>1 DEF TaskStep, Watch, Watched, WatchRefused, StreamEnds, Reopen, Reopened, Fetch, Request
<1>2. CASE Pump \/ Poll \/ AskState \/ CallFails \/ StreamBreaks \/ LoseDisconnect
  BY <1>2, Zenon DEF Pump, Poll, AskState, CallFails, StreamBreaks, LoseDisconnect
<1>3. CASE ServerChange \/ Elsewhere \/ Serve \/ Notice
  BY <1>3 DEF ServerChange, Elsewhere, Serve, Notice, clientVars
<1>4. CASE UNCHANGED vars
  BY <1>4 DEF vars, clientVars
<1>5. QED BY <1>1, <1>2, <1>3, <1>4 DEF Next

NeverBack == seen' >= seen
ToldOfLosses == At("forward") /\ seen' # seen /\ ~told => (seen + 1)..(seen' - 1) \subseteq gap

LEMMA DeliverySteps == ClientInv /\ [Next]_vars => [NeverBack]_vars /\ [ToldOfLosses]_vars
<1> SUFFICES ASSUME ClientInv, [Next]_vars PROVE NeverBack /\ ToldOfLosses
  OBVIOUS
<1>1. seen \in Nat
  BY ScalarFacts DEF ClientInv
<1>2. CASE Forward
  BY <1>1, <1>2, ForwardFacts DEF NeverBack, ToldOfLosses
<1>3. CASE Fetched \/ ReconnectFailed
  BY <1>3, ReplyFacts DEF NeverBack, ToldOfLosses, At
<1>4. CASE UNCHANGED seen
  BY <1>1, <1>4 DEF NeverBack, ToldOfLosses
<1>5. QED BY <1>2, <1>3, <1>4, OnlyTheseDeliver

(* Through broken streams, lost answers, replaced channels and snapshots, what *)
(* the application is handed never goes back in time.                          *)
THEOREM DeliveryInOrder == Spec => DeliveredInOrder
<1>1. ClientInv /\ [Next]_vars => [NeverBack]_vars
  BY DeliverySteps
<1>2. QED BY <1>1, ClientInvariant, PTL DEF Spec, DeliveredInOrder, NeverBack

(* An event that is neither handed over nor in a later snapshot was announced  *)
(* by an error, or was sent while the task had no stream on the latest channel. *)
THEOREM LossesAreTold == Spec => NothingElseLostSilently
<1>1. ClientInv /\ [Next]_vars => [ToldOfLosses]_vars
  BY DeliverySteps
<1>2. QED BY <1>1, ClientInvariant, PTL DEF Spec, NothingElseLostSilently, ToldOfLosses
===============================================================================
