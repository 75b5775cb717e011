----------------------------- MODULE EventsProofs ----------------------------
(***************************************************************************)
(* Proofs about Events, for any clients, any capacity of their channels,   *)
(* any number of steps, restarts and lost lines: the stream and the        *)
(* history agree, the history and the record agree, nothing is sent to a   *)
(* closed channel, and the history and the polling client are an           *)
(* EventFeed.  What the stream needs of the log is that no event is        *)
(* published twice, which takes the place of every publisher to say, and   *)
(* that the last line, which the next write may destroy while it has no    *)
(* newline, is of an event that nobody was sent.                           *)
(***************************************************************************)
EXTENDS Events, SequenceTheorems, TLAPS

-----------------------------------------------------------------------------
(* The inductive invariant, a part for each promise. *)

\* TypeOK, with the channels as one function.
Ranges ==
  /\ phase \in {"up", "down", "recovering"} /\ life \in 0..MaxRestarts
  /\ record \in {"queued", "active"} \cup Ends
  /\ log \in Seq(Events) /\ tail \in {"clean", "half", "whole"}
  /\ refused \subseteq Events /\ glued \subseteq Events
  /\ handler \in {"submitting", "answered", "rejected", "broken"}
  /\ run \in {"off", "waiting", "running", "ending", "over"}
  /\ n \in 0..Steps /\ end \in {None, "failed", "cancelled"}
  /\ msg \in [Publishers -> Events \cup {None}] /\ at \in [Publishers -> 1..2]
  /\ lock \in Publishers \cup {None} /\ todo \subseteq Clients
  /\ conn \in [Clients -> {"off", "accepted", "open", "closed"}]
  /\ buf \in [Clients -> Seq(Events)] /\ \A c \in Clients : Len(buf[c]) <= Buffer
  /\ got \in [Clients -> Seq(Events)]
  /\ missed \in [Clients -> SUBSET Events]
  /\ caughtUp \in [Clients -> Seq(Events) \cup {None}]
  /\ watch \in {"off", "creating", "events", "status", "done", "error"} /\ printed \in Seq(Events)

\* Who holds the bus's mutex is fanning out an event it has appended, to
\* subscribers that cannot leave; and nobody holds it in a dead process.
BusIsHeld ==
  /\ lock = None => todo = {}
  /\ lock # None => msg[lock] # None /\ at[lock] = 2
  /\ todo \subseteq Subscribed
  /\ phase = "down" => lock = None /\ run = "off" /\ \A p \in Publishers : msg[p] = None

\* The last line without its newline is a whole event that no publisher is at and
\* that was sent to nobody: the one who wrote it died or was told of an error.
LastLine == log[Len(log)]

WholeIsUnsaid ==
  tail = "whole" =>
    /\ log # <<>>
    /\ \A p \in Publishers : msg[p] # LastLine
    /\ \A c \in Clients : ~In(LastLine, got[c]) /\ ~In(LastLine, buf[c])

\* An event that was published, or is being: by an earlier process, or by this one
\* at an earlier place of its publisher.
Past(e) ==
  /\ e[1] <= life
  /\ e[1] = life /\ phase # "down" =>
       /\ Type(e) = "created" => handler # "submitting"
       /\ Type(e) = "step" => run \in {"running", "ending", "over"} /\ e[3] <= n
       /\ Type(e) \in Ends => run \in {"ending", "over"}

\* Who has nothing to say yet, or any more, publishes nothing.
SilentWhenIdle ==
  /\ handler = "submitting" =>
       phase = "up" /\ run = "off" /\ record = "queued" /\ msg["handler"] = None
  /\ handler = "rejected" => msg["handler"] = None
  /\ run \in {"off", "waiting"} => msg["run"] = None

\* Each event is published once.
PublishedOnce ==
  /\ msg["handler"] # None => Type(msg["handler"]) = "created"
  /\ msg["run"] # None => Type(msg["run"]) # "created"
  /\ \A p \in Publishers : msg[p] # None => msg[p][1] = life /\ Past(msg[p])
  /\ \A p \in Publishers : msg[p] # None /\ at[p] = 1 => ~In(msg[p], log) /\ msg[p] \notin glued
  /\ \A e \in Events : In(e, log) \/ e \in glued => Past(e)

\* What is in a channel, or was, is in the log; and what is in the log and not
\* with a client that caught up is on its way there.
NothingElseStreamed ==
  /\ \A p \in Publishers : msg[p] # None /\ at[p] = 2 => In(msg[p], log) \/ msg[p] \in glued
  /\ \A c \in Clients : \A e \in Events :
       In(e, got[c]) \/ In(e, buf[c]) => In(e, log) \/ e \in glued

Reaches(c, e) ==
  \/ In(e, caughtUp[c]) \/ In(e, got[c]) \/ In(e, buf[c]) \/ e \in missed[c] \/ e \in refused
  \/ \E p \in Publishers : msg[p] = e /\ (lock = p => c \in todo)

NoGap ==
  \A c \in Clients :
    /\ c \notin Connected => caughtUp[c] = None
    /\ caughtUp[c] # None => \A e \in Events : In(e, log) => Reaches(c, e)

\* The end the log has last, and the end of the record.
NotedLost(s) == \E e \in refused \cup glued : Type(e) = s

\* Each beginning of the log that has an end has a last one.
LastIsThere ==
  \A k \in 0..Len(log) :
    (\E i \in 1..k : Type(log[i]) \in Ends) =>
      \E i \in 1..k : Type(log[i]) \in Ends /\ \A j \in 1..k : Type(log[j]) \in Ends => j <= i

\* The last end is `s`, and it is not in a line that may still be destroyed.
Firm(s) == LastEnd = s /\ (tail = "whole" => Type(LastLine) \notin Ends)

EndIsNoted ==
  /\ handler \in {"submitting", "rejected"} => EndsOf(log) = {} /\ msg["run"] = None /\ run = "off"
  /\ handler = "rejected" => record = "failed"
  /\ run = "ending" =>
       /\ end \in {"failed", "cancelled"}
       /\ record \notin Ends
       /\ msg["run"] # None => Type(msg["run"]) = end
       /\ msg["run"] = None \/ at["run"] = 2 => Firm(end) \/ NotedLost(end)
  /\ run \in {"waiting", "running"} => record \notin Ends
  /\ run = "running" /\ msg["run"] # None => Type(msg["run"]) = "step"
  /\ run = "over" => record \in Ends
  /\ record \in Ends =>
       /\ msg["run"] # None => Type(msg["run"]) = record
       /\ msg["run"] = None \/ at["run"] = 2 =>
            \/ Firm(record)
            \/ handler = "rejected" /\ LastEnd = None
            \/ record = "completed" /\ run = "off"
            \/ NotedLost(record)
       /\ msg["run"] # None => record = "completed"

IInv ==
  /\ Ranges /\ BusIsHeld /\ SilentWhenIdle /\ PublishedOnce /\ WholeIsUnsaid
  /\ NothingElseStreamed /\ NoGap /\ LastIsThere /\ EndIsNoted

-----------------------------------------------------------------------------
(* Sequences of events. *)

\* What is in a log that has one more event.
LEMMA InAppend ==
  ASSUME NEW s \in Seq(Events), NEW x \in Events, NEW e
  PROVE  In(e, Append(s, x)) <=> In(e, s) \/ e = x
<1>1. /\ Len(Append(s, x)) = Len(s) + 1 /\ Len(s) \in Nat
      /\ \A i \in 1..Len(s) : Append(s, x)[i] = s[i]
      /\ Append(s, x)[Len(s) + 1] = x
  BY AppendProperties, LenProperties
<1>2. ASSUME In(e, Append(s, x)) PROVE In(e, s) \/ e = x
  <2>1. PICK i \in 1..(Len(s) + 1) : Append(s, x)[i] = e
    BY <1>1, <1>2 DEF In
  <2>2. CASE i = Len(s) + 1
    BY <1>1, <2>1, <2>2
  <2>3. CASE i # Len(s) + 1
    BY <1>1, <2>1, <2>3 DEF In
  <2> QED
    BY <2>2, <2>3
<1>3. ASSUME In(e, s) PROVE In(e, Append(s, x))
  <2>1. PICK i \in 1..Len(s) : s[i] = e
    BY <1>3 DEF In
  <2>2. i \in 1..Len(Append(s, x)) /\ Append(s, x)[i] = e
    BY <1>1, <2>1
  <2> QED
    BY <2>2 DEF In
<1>4. ASSUME e = x PROVE In(e, Append(s, x))
  <2>1. Len(s) + 1 \in 1..Len(Append(s, x)) /\ Append(s, x)[Len(s) + 1] = e
    BY <1>1, <1>4
  <2> QED
    BY <2>1 DEF In
<1> QED
  BY <1>2, <1>3, <1>4

\* What is in a channel is its first event or in the rest.
LEMMA InHeadTail ==
  ASSUME NEW s \in Seq(Events), s # <<>>, NEW e
  PROVE  /\ In(e, s) <=> e = Head(s) \/ In(e, Tail(s))
         /\ Head(s) \in Events /\ Tail(s) \in Seq(Events) /\ Len(Tail(s)) = Len(s) - 1
<1>1. /\ Head(s) \in Events /\ Tail(s) \in Seq(Events) /\ Len(Tail(s)) = Len(s) - 1
      /\ \A i \in 1..Len(Tail(s)) : Tail(s)[i] = s[i + 1]
      /\ Head(s) = s[1]
  BY HeadTailProperties
<1>2. Len(s) \in Nat /\ Len(s) > 0
  BY EmptySeq
<1>3. ASSUME In(e, s) PROVE e = Head(s) \/ In(e, Tail(s))
  <2>1. PICK i \in 1..Len(s) : s[i] = e
    BY <1>3 DEF In
  <2>2. CASE i = 1
    BY <1>1, <2>1, <2>2
  <2>3. CASE i # 1
    <3>1. i - 1 \in 1..Len(Tail(s)) /\ Tail(s)[i - 1] = e
      BY <1>1, <1>2, <2>1, <2>3
    <3> QED
      BY <3>1 DEF In
  <2> QED
    BY <2>2, <2>3
<1>4. ASSUME In(e, Tail(s)) PROVE In(e, s)
  <2>1. PICK i \in 1..Len(Tail(s)) : Tail(s)[i] = e
    BY <1>4 DEF In
  <2>2. i + 1 \in 1..Len(s) /\ s[i + 1] = e
    BY <1>1, <1>2, <2>1
  <2> QED
    BY <2>2 DEF In
<1>5. ASSUME e = Head(s) PROVE In(e, s)
  <2>1. 1 \in 1..Len(s) /\ s[1] = e
    BY <1>1, <1>2, <1>5
  <2> QED
    BY <2>1 DEF In
<1> QED
  BY <1>1, <1>3, <1>4, <1>5

\* Nothing is in an empty log.
LEMMA InEmpty == ASSUME NEW e PROVE ~In(e, <<>>)
BY DEF In

\* Each place of a log has an event that is in it.
LEMMA InSome ==
  ASSUME NEW s \in Seq(Events), NEW i \in 1..Len(s)
  PROVE  In(s[i], s) /\ s[i] \in Events
BY ElementOfSeq DEF In

\* What is streamed is what is in one or the other of two sequences.
LEMMA InConcat ==
  ASSUME NEW s \in Seq(Events), NEW t \in Seq(Events), NEW e
  PROVE  In(e, s \o t) <=> In(e, s) \/ In(e, t)
<1>1. /\ s \o t \in Seq(Events)
      /\ Len(s \o t) = Len(s) + Len(t) /\ Len(s) \in Nat /\ Len(t) \in Nat
      /\ \A i \in 1..(Len(s) + Len(t)) : (s \o t)[i] = IF i <= Len(s) THEN s[i] ELSE t[i - Len(s)]
  BY ConcatProperties, LenProperties
<1>2. ASSUME In(e, s \o t) PROVE In(e, s) \/ In(e, t)
  <2>1. PICK i \in 1..(Len(s) + Len(t)) : (s \o t)[i] = e
    BY <1>1, <1>2 DEF In
  <2>2. CASE i <= Len(s)
    BY <1>1, <2>1, <2>2 DEF In
  <2>3. CASE i > Len(s)
    <3>1. i - Len(s) \in 1..Len(t) /\ t[i - Len(s)] = e
      BY <1>1, <2>1, <2>3
    <3> QED
      BY <3>1 DEF In
  <2> QED
    BY <1>1, <2>2, <2>3
<1>3. ASSUME In(e, s) PROVE In(e, s \o t)
  <2>1. PICK i \in 1..Len(s) : s[i] = e
    BY <1>3 DEF In
  <2>2. i \in 1..Len(s \o t) /\ (s \o t)[i] = e
    BY <1>1, <2>1
  <2> QED
    BY <2>2 DEF In
<1>4. ASSUME In(e, t) PROVE In(e, s \o t)
  <2>1. PICK i \in 1..Len(t) : t[i] = e
    BY <1>4 DEF In
  <2>2. i + Len(s) \in 1..Len(s \o t) /\ (s \o t)[i + Len(s)] = e
    BY <1>1, <2>1
  <2> QED
    BY <2>2 DEF In
<1> QED
  BY <1>2, <1>3, <1>4

\* Whatever ends a log has, one of them is the last.
LEMMA MaxEnd ==
  ASSUME log \in Seq(Events), LastIsThere, EndsOf(log) # {}
  PROVE  \E i \in EndsOf(log) : \A j \in EndsOf(log) : j <= i
<1>1. Len(log) \in 0..Len(log)
  BY LenProperties
<1>2. \E i \in 1..Len(log) : Type(log[i]) \in Ends
  BY DEF EndsOf
<1> QED
  BY <1>1, <1>2 DEF LastIsThere, EndsOf

\* A log with the same ends, which say the same, has the same last end.
LEMMA LastEndStays ==
  ASSUME log \in Seq(Events), LastIsThere, EndsOf(log') = EndsOf(log),
         \A i \in EndsOf(log) : log'[i] = log[i]
  PROVE  LastEnd' = LastEnd
<1>1. CASE EndsOf(log) = {}
  BY <1>1 DEF LastEnd
<1>2. CASE EndsOf(log) # {}
  <2> DEFINE i == CHOOSE j \in EndsOf(log) : \A k \in EndsOf(log) : k <= j
  <2>1. i \in EndsOf(log)
    BY <1>2, MaxEnd
  <2>2. log'[i] = log[i]
    BY <2>1
  <2> QED
    BY <1>2, <2>2 DEF LastEnd
<1> QED
  BY <1>1, <1>2

\* The last end of a log that takes one more event (LastEnd).
LEMMA LastEndGrows ==
  ASSUME Ranges, LastIsThere, NEW x \in Events, log' = Append(log, x)
  PROVE  /\ LastIsThere'
         /\ Type(x) \in Ends => LastEnd' = Type(x)
         /\ Type(x) \notin Ends => LastEnd' = LastEnd /\ EndsOf(log') = EndsOf(log)
<1> DEFINE L == Len(log)
<1>0. log \in Seq(Events)
  BY DEF Ranges
<1>1. /\ Len(log') = L + 1 /\ L \in Nat
      /\ \A i \in 1..L : log'[i] = log[i]
      /\ log'[L + 1] = x
  BY <1>0, AppendProperties, LenProperties
<1>2. EndsOf(log) \subseteq 1..L
  BY DEF EndsOf
<1> HIDE DEF L
<1>5. LastIsThere'
  <2> SUFFICES ASSUME NEW k \in 0..(L + 1), NEW i \in 1..k, Type(log'[i]) \in Ends
               PROVE  \E m \in 1..k : Type(log'[m]) \in Ends
                                     /\ \A j \in 1..k : Type(log'[j]) \in Ends => j <= m
    BY <1>1 DEF LastIsThere
  <2>1. CASE k = L + 1 /\ Type(x) \in Ends
    <3>1. k \in 1..k /\ Type(log'[k]) \in Ends
      BY <1>1, <2>1
    <3>2. \A j \in 1..k : j <= k
      BY <1>1, <2>1
    <3> QED
      BY <3>1, <3>2
  <2>2. CASE k \in 0..L
    <3>1. \A j \in 1..k : log'[j] = log[j]
      BY <1>1, <2>2
    <3>2. \E m \in 1..k : Type(log[m]) \in Ends /\ \A j \in 1..k : Type(log[j]) \in Ends => j <= m
      BY <2>2, <3>1 DEF LastIsThere, L
    <3> QED
      BY <3>1, <3>2
  <2>3. CASE k = L + 1 /\ Type(x) \notin Ends
    <3>1. i \in 1..L /\ log'[i] = log[i]
      BY <1>1, <2>3
    <3>2. PICK m \in 1..L : Type(log[m]) \in Ends /\ \A j \in 1..L : Type(log[j]) \in Ends => j <= m
      <4>1. L \in 0..L
        BY <1>1
      <4> QED
        BY <3>1, <4>1 DEF LastIsThere, L
    <3>3. m \in 1..k /\ log'[m] = log[m]
      BY <1>1, <2>3, <3>2
    <3>4. ASSUME NEW j \in 1..k, Type(log'[j]) \in Ends PROVE j <= m
      <4>1. j \in 1..L /\ log'[j] = log[j]
        BY <1>1, <2>3, <3>4
      <4> QED
        BY <3>2, <3>4, <4>1
    <3> QED
      BY <3>2, <3>3, <3>4
  <2> QED
    BY <1>1, <2>1, <2>2, <2>3
<1>3. CASE Type(x) \in Ends
  <2>1. L + 1 \in EndsOf(log') /\ \A i \in EndsOf(log') : i <= L + 1
    BY <1>1, <1>3 DEF EndsOf
  <2>2. EndsOf(log') \subseteq 1..(L + 1)
    BY <1>1 DEF EndsOf
  <2>3. \A i \in EndsOf(log') : (\A k \in EndsOf(log') : k <= i) => i = L + 1
    BY <1>1, <2>1, <2>2
  <2>4. (CHOOSE i \in EndsOf(log') : \A k \in EndsOf(log') : k <= i) = L + 1
    BY <2>1, <2>3
  <2>5. LastEnd' = Type(x)
    BY <1>1, <2>1, <2>4 DEF LastEnd
  <2> QED
    BY <1>3, <1>5, <2>5
<1>4. CASE Type(x) \notin Ends
  <2>1. EndsOf(log') = EndsOf(log)
    BY <1>1, <1>4 DEF EndsOf, L
  <2>2. \A i \in EndsOf(log) : log'[i] = log[i]
    BY <1>1, <1>2
  <2>3. LastEnd' = LastEnd
    BY <1>0, <2>1, <2>2, LastEndStays
  <2> QED
    BY <1>4, <1>5, <2>1, <2>3
<1> QED
  BY <1>3, <1>4

\* The ends of a log that loses its last line (Grow).
LEMMA LastEndShrinks ==
  ASSUME Ranges, LastIsThere, log # <<>>, log' = SubSeq(log, 1, Len(log) - 1)
  PROVE  /\ log' \in Seq(Events) /\ LastIsThere' /\ EndsOf(log') \subseteq EndsOf(log)
         /\ Type(LastLine) \notin Ends => LastEnd' = LastEnd
         /\ \A e : In(e, log') => In(e, log)
         /\ \A e : In(e, log) /\ e # LastLine => In(e, log')
<1> DEFINE L == Len(log)
<1>0. log \in Seq(Events) /\ L \in Nat /\ L > 0
  BY EmptySeq, LenProperties DEF Ranges
<1>1. /\ log' \in Seq(Events) /\ Len(log') = L - 1
      /\ \A i \in 1..(L - 1) : log'[i] = log[i]
  <2>1. L - 1 \in 0..L /\ \A i \in 1..(L - 1) : log[i] \in Events
    BY <1>0, ElementOfSeq
  <2>2. /\ SubSeq(log, 1, L - 1) \in Seq(Events)
        /\ Len(SubSeq(log, 1, L - 1)) = IF 1 <= L - 1 THEN (L - 1) - 1 + 1 ELSE 0
        /\ \A i \in 1..((L - 1) - 1 + 1) : SubSeq(log, 1, L - 1)[i] = log[1 + i - 1]
    <3>1. 1 \in Int /\ L - 1 \in Int
      BY <1>0
    <3> HIDE DEF L
    <3> QED
      BY <2>1, <3>1, SubSeqProperties
  <2>3. log' = SubSeq(log, 1, L - 1)
    OBVIOUS
  <2> HIDE DEF L
  <2> QED
    BY <1>0, <2>2, <2>3
<1> HIDE DEF L
<1>2. LastIsThere'
  <2> SUFFICES ASSUME NEW k \in 0..(L - 1), NEW i \in 1..k, Type(log'[i]) \in Ends
               PROVE  \E m \in 1..k : Type(log'[m]) \in Ends
                                     /\ \A j \in 1..k : Type(log'[j]) \in Ends => j <= m
    BY <1>1 DEF LastIsThere
  <2>1. k \in 0..L /\ \A j \in 1..k : log'[j] = log[j]
    BY <1>0, <1>1
  <2>2. \E m \in 1..k : Type(log[m]) \in Ends /\ \A j \in 1..k : Type(log[j]) \in Ends => j <= m
    BY <2>1 DEF LastIsThere, L
  <2> QED
    BY <2>1, <2>2
<1>3. EndsOf(log') \subseteq EndsOf(log)
  BY <1>0, <1>1 DEF EndsOf, L
<1>4. ASSUME Type(LastLine) \notin Ends PROVE LastEnd' = LastEnd
  <2>1. EndsOf(log') = EndsOf(log)
    BY <1>0, <1>1, <1>4 DEF EndsOf, L, LastLine
  <2>2. \A i \in EndsOf(log) : log'[i] = log[i]
    BY <1>1, <2>1 DEF EndsOf
  <2> QED
    BY <1>0, <2>1, <2>2, LastEndStays
<1>5. ASSUME NEW e, In(e, log') PROVE In(e, log)
  <2>1. PICK i \in 1..(L - 1) : log'[i] = e
    BY <1>1, <1>5 DEF In
  <2>2. i \in 1..L /\ log[i] = e
    BY <1>0, <1>1, <2>1
  <2> QED
    BY <2>2 DEF In, L
<1>6. ASSUME NEW e, In(e, log), e # LastLine PROVE In(e, log')
  <2>1. PICK i \in 1..L : log[i] = e
    BY <1>6 DEF In, L
  <2>2. i # L
    BY <1>6, <2>1 DEF LastLine, L
  <2>3. i \in 1..Len(log') /\ log'[i] = e
    BY <1>0, <1>1, <2>1, <2>2
  <2> QED
    BY <2>3 DEF In
<1> QED
  BY <1>1, <1>2, <1>3, <1>4, <1>5, <1>6

-----------------------------------------------------------------------------
(* Every variable stays in its range. *)

\* A life, a type and a step make an event, with these parts.
LEMMA EventIs ==
  ASSUME NEW l \in 0..MaxRestarts, NEW t \in {"created", "completed", "failed", "cancelled", "step"},
         NEW i \in 0..Steps
  PROVE  /\ <<l, t, i>> \in Events
         /\ <<l, t, i>> # None /\ <<l, t, i>>[1] = l /\ Type(<<l, t, i>>) = t
<1>1. <<l, t, i>> \in Events
  BY DEF Events, Ends
<1> QED
  BY <1>1, EventsAssumption DEF Type

\* The parts of an event.
LEMMA EventHas ==
  ASSUME NEW e \in Events
  PROVE  /\ e[1] \in 0..MaxRestarts /\ e[3] \in 0..Steps
         /\ Type(e) \in {"created", "completed", "failed", "cancelled", "step"}
         /\ e # None
BY EventsAssumption DEF Events, Type, Ends

\* A publisher that begins has its event, at the first step (Publish).
LEMMA BeginIs ==
  ASSUME Ranges, NEW p \in Publishers, NEW e \in Events, Begin(p, e)
  PROVE  /\ msg' \in [Publishers -> Events \cup {None}] /\ at' \in [Publishers -> 1..2]
         /\ msg'[p] = e /\ at'[p] = 1
         /\ \A q \in Publishers : q # p => msg'[q] = msg[q] /\ at'[q] = at[q]
BY DEF Ranges, Begin

\* A publisher that goes on is with its event, at the next step, or done with it.
LEMMA GoesOnIs ==
  ASSUME Ranges, NEW p \in Publishers, PublishGoesOn(p)
  PROVE  /\ msg' \in [Publishers -> Events \cup {None}] /\ at' \in [Publishers -> 1..2]
         /\ at[p] = 1 => msg'[p] = msg[p] /\ at'[p] = 2
         /\ at[p] = 2 => msg'[p] = None
         /\ \A q \in Publishers : q # p => msg'[q] = msg[q] /\ at'[q] = at[q]
<1>1. msg \in [Publishers -> Events \cup {None}] /\ at \in [Publishers -> 1..2]
  BY DEF Ranges
<1>2. CASE at[p] = 1
  BY <1>1, <1>2 DEF PublishGoesOn
<1>3. CASE at[p] # 1
  <2>1. at[p] = 2
    BY <1>1, <1>3
  <2> QED
    BY <1>1, <1>3, <2>1 DEF PublishGoesOn
<1> QED
  BY <1>2, <1>3

\* A publisher with an event has one of Events.
LEMMA MsgIs ==
  ASSUME Ranges, NEW p \in Publishers
  PROVE  /\ msg[p] # None => msg[p] \in Events
         /\ at[p] \in 1..2
         /\ Order[at[p]] = "append"  => at[p] = 1
         /\ Order[at[p]] = "fan out" => at[p] = 2
<1>1. (msg[p] # None => msg[p] \in Events) /\ at[p] \in 1..2
  BY DEF Ranges
<1>2. Order[1] = "append" /\ Order[2] = "fan out"
  BY DEF Order
<1>3. at[p] = 1 \/ at[p] = 2
  BY <1>1
<1>4. CASE at[p] = 1
  BY <1>1, <1>2, <1>4
<1>5. CASE at[p] = 2
  BY <1>1, <1>2, <1>5
<1> QED
  BY <1>3, <1>4, <1>5

\* There are two publishers.
LEMMA PublisherIs ==
  /\ "handler" \in Publishers /\ "run" \in Publishers
  /\ \A p \in Publishers : p = "handler" \/ p = "run"
  /\ None \notin Publishers
BY EventsAssumption DEF Publishers

\* What is left of a process that died (Die).
LEMMA DieIs ==
  ASSUME Ranges, Die
  PROVE  /\ phase' = "down" /\ life' = life
         /\ handler' \in {"submitting", "answered", "rejected", "broken"}
         /\ run' = "off" /\ n' = 0 /\ end' = None
         /\ msg' = [p \in Publishers |-> None] /\ at' = [p \in Publishers |-> 1]
         /\ lock' = None /\ todo' = {}
         /\ conn' \in [Clients -> {"off", "accepted", "open", "closed"}]
         /\ buf' \in [Clients -> Seq(Events)] /\ \A c \in Clients : Len(buf'[c]) <= Buffer
         /\ got' \in [Clients -> Seq(Events)] /\ missed' \in [Clients -> SUBSET Events]
         /\ caughtUp' \in [Clients -> Seq(Events) \cup {None}]
<1>1. handler' \in {"submitting", "answered", "rejected", "broken"}
  BY DEF Ranges, Die
<1>2. /\ conn' \in [Clients -> {"off", "accepted", "open", "closed"}]
      /\ got' \in [Clients -> Seq(Events)] /\ missed' \in [Clients -> SUBSET Events]
      /\ caughtUp' \in [Clients -> Seq(Events) \cup {None}]
      /\ buf' \in [Clients -> Seq(Events)]
  BY DEF Ranges, Die, Gone
<1>3. ASSUME NEW c \in Clients PROVE Len(buf'[c]) <= Buffer
  BY <1>3, EventsAssumption DEF Ranges, Die, Gone
<1> QED
  BY <1>1, <1>2, <1>3 DEF Die

\* What a write leaves of the log and of its last line (Grow): one more event, one
\* event less, or what there was.
LEMMA GrowIs ==
  ASSUME Ranges, tail = "whole" => log # <<>>, NEW e \in Events,
         NEW part \in {"none", "half", "whole", "line"}, Grow(e, part)
  PROVE  /\ log' \in Seq(Events) /\ tail' \in {"clean", "half", "whole"} /\ glued' \subseteq Events
         /\ \/ tail = "clean" /\ log' = Append(log, e)
            \/ tail = "whole" /\ tail' # "whole" /\ log' = SubSeq(log, 1, Len(log) - 1)
            \/ log' = log /\ (tail' = "whole" <=> tail = "whole")
         /\ part = "line" => tail' = "clean" /\ (log' = Append(log, e) \/ e \in glued')
         /\ glued \subseteq glued' /\ glued' \subseteq glued \cup {e}
<1>1. log \in Seq(Events) /\ glued \subseteq Events /\ tail \in {"clean", "half", "whole"}
  BY DEF Ranges
<1>2. Append(log, e) \in Seq(Events)
  BY <1>1, AppendProperties
<1>3. tail = "whole" => SubSeq(log, 1, Len(log) - 1) \in Seq(Events)
  <2>1. tail = "whole" => Len(log) \in Nat /\ Len(log) > 0
    BY <1>1, EmptySeq, LenProperties
  <2>2. tail = "whole" => \A i \in 1..(Len(log) - 1) : log[i] \in Events
    BY <1>1, <2>1, ElementOfSeq
  <2> QED
    BY <1>1, <2>1, <2>2, SubSeqProperties
<1>4. CASE tail = "clean"
  BY <1>1, <1>2, <1>4 DEF Grow
<1>5. CASE tail # "clean"
  <2>1. /\ log' = IF tail = "whole" /\ part # "none" THEN SubSeq(log, 1, Len(log) - 1) ELSE log
        /\ glued' = IF part = "line" THEN glued \cup {e} ELSE glued
        /\ part = "none" => tail' = tail
        /\ part = "line" => tail' = "clean"
        /\ part \in {"half", "whole"} => tail' = "half"
    BY <1>5 DEF Grow
  <2> QED
    BY <1>1, <1>3, <1>5, <2>1
<1> QED
  BY <1>4, <1>5

\* Every step keeps every variable in its range.
LEMMA RangesStep ==
  ASSUME IInv, [Next]_vars
  PROVE  Ranges'
<1>0. Ranges
  BY DEF IInv
<1> USE <1>0
<1>w0. tail = "whole" => log # <<>>
  BY DEF IInv, WholeIsUnsaid
<1>e. life \in 0..MaxRestarts /\ n \in 0..Steps /\ Steps \in Nat \ {0} /\ MaxRestarts \in Nat
      /\ 0 \in 0..Steps
  BY EventsAssumption DEF Ranges
<1>s. CASE Submit
  <2>1. <<life, "created", 0>> \in Events
    BY <1>e, EventIs
  <2>2. msg' \in [Publishers -> Events \cup {None}] /\ at' \in [Publishers -> 1..2]
    BY <1>s, <2>1, BeginIs, PublisherIs DEF Submit
  <2> QED
    BY <1>s, <2>2 DEF Submit, Ranges, procVars, logVars, busVars, clientVars, watchVars
<1>r. CASE Reject
  BY <1>r DEF Reject, Ranges, Ends, procVars, logVars, busVars, clientVars, watchVars, pubVars
<1>b. CASE Start
  <2>1. Step(life, 0) \in Events
    BY <1>e, EventIs DEF Step
  <2>2. msg' \in [Publishers -> Events \cup {None}] /\ at' \in [Publishers -> 1..2]
    BY <1>b, <2>1, BeginIs, PublisherIs DEF Start
  <2> QED
    BY <1>b, <1>e, <2>2 DEF Start, Ranges, procVars, logVars, busVars, clientVars, watchVars
<1>p. CASE Progress
  <2>0. n + 1 \in 0..Steps
    BY <1>p, <1>e DEF Progress
  <2>1. Step(life, n + 1) \in Events
    BY <1>e, <2>0, EventIs DEF Step
  <2>2. msg' \in [Publishers -> Events \cup {None}] /\ at' \in [Publishers -> 1..2]
    BY <1>p, <2>1, BeginIs, PublisherIs DEF Progress
  <2> QED
    BY <1>p, <2>0, <2>2 DEF Progress, Ranges, procVars, logVars, busVars, clientVars, watchVars
<1>a. CASE Activate
  BY <1>a DEF Activate, Ranges, procVars, logVars, busVars, clientVars, watchVars, pubVars
<1>t. ASSUME NEW s \in {"failed", "cancelled"}, EndBadly(s) PROVE Ranges'
  <2>1. <<life, s, 0>> \in Events
    BY <1>e, EventIs
  <2>2. msg' \in [Publishers -> Events \cup {None}] /\ at' \in [Publishers -> 1..2]
    BY <1>t, <2>1, BeginIs, PublisherIs DEF EndBadly
  <2> QED
    BY <1>t, <2>2 DEF EndBadly, Ranges, procVars, logVars, busVars, clientVars, watchVars
<1>w. CASE PersistEnd
  <2>1. end \in Ends
    BY <1>w DEF PersistEnd, IInv, EndIsNoted, Ends
  <2> QED
    BY <1>w, <2>1 DEF PersistEnd, Ranges, procVars, logVars, busVars, clientVars, watchVars, pubVars
<1>c. CASE Complete
  <2>1. <<life, "completed", 0>> \in Events
    BY <1>e, EventIs
  <2>2. msg' \in [Publishers -> Events \cup {None}] /\ at' \in [Publishers -> 1..2]
    BY <1>c, <2>1, BeginIs, PublisherIs DEF Complete
  <2> QED
    BY <1>c, <2>2 DEF Complete, Ranges, Ends, procVars, logVars, busVars, clientVars, watchVars
<1>l. ASSUME NEW p \in Publishers, AppendToLog(p) PROVE Ranges'
  <2>0. msg[p] \in Events
    BY <1>l, MsgIs DEF AppendToLog
  <2>1. PICK part \in {"none", "half", "whole", "line"} : Grow(msg[p], part)
    BY <1>l DEF AppendToLog
  <2>2. log' \in Seq(Events) /\ glued' \subseteq Events /\ tail' \in {"clean", "half", "whole"}
    BY <1>w0, <2>0, <2>1, GrowIs
  <2>4. refused' \subseteq Events
    BY <1>l, <2>0 DEF AppendToLog, Ranges
  <2>3. msg' \in [Publishers -> Events \cup {None}] /\ at' \in [Publishers -> 1..2]
    <3>1. CASE PublishGoesOn(p)
      BY <3>1, GoesOnIs
    <3>2. CASE msg' = [msg EXCEPT ![p] = None] /\ UNCHANGED at
      BY <3>2 DEF Ranges
    <3> QED
      BY <1>l, <3>1, <3>2 DEF AppendToLog
  <2> QED
    BY <1>l, <2>2, <2>3, <2>4 DEF AppendToLog, Ranges, procVars, jobVars, busVars, clientVars, watchVars
<1>f. ASSUME NEW p \in Publishers, FanOut(p) PROVE Ranges'
  <2>0. msg[p] \in Events
    BY <1>f, MsgIs DEF FanOut
  <2>1. lock' = p /\ todo' \subseteq Clients
    BY <1>f DEF FanOut, Subscribed
  <2>2. UNCHANGED <<procVars, jobVars, logVars, pubVars, conn, buf, got, caughtUp, watchVars>>
    BY <1>f DEF FanOut
  <2>3. missed' \in [Clients -> SUBSET Events]
    BY <1>f, <2>0 DEF FanOut, Ranges
  <2> QED
    BY <1>f, <2>1, <2>2, <2>3 DEF Ranges, procVars, jobVars, logVars, pubVars, watchVars
<1>d. ASSUME NEW p \in Publishers, NEW c \in Clients, Send(p, c) PROVE Ranges'
  <2>0. msg[p] \in Events
    BY <1>d, MsgIs DEF Send, IInv, BusIsHeld
  <2>1. CASE Room(c) /\ buf' = [buf EXCEPT ![c] = Append(@, msg[p])] /\ UNCHANGED missed
    <3>1. /\ Append(buf[c], msg[p]) \in Seq(Events)
          /\ Len(Append(buf[c], msg[p])) = Len(buf[c]) + 1
          /\ Len(buf[c]) \in Nat
      BY <2>0, AppendProperties, LenProperties DEF Ranges
    <3>2. buf' \in [Clients -> Seq(Events)]
      BY <2>1, <3>1 DEF Ranges
    <3>3. \A k \in Clients : Len(buf'[k]) <= Buffer
      BY <2>1, <3>1, EventsAssumption DEF Ranges, Room
    <3> QED
      BY <1>d, <2>1, <3>2, <3>3
      DEF Send, Ranges, procVars, jobVars, logVars, pubVars, watchVars
  <2>2. CASE missed' = [missed EXCEPT ![c] = @ \cup {msg[p]}] /\ UNCHANGED buf
    <3>1. missed' \in [Clients -> SUBSET Events]
      BY <2>0, <2>2 DEF Ranges
    <3> QED
      BY <1>d, <2>2, <3>1 DEF Send, Ranges, procVars, jobVars, logVars, pubVars, watchVars
  <2> QED
    BY <1>d, <2>1, <2>2 DEF Send
<1>o. ASSUME NEW p \in Publishers, FannedOut(p) PROVE Ranges'
  <2>1. msg' \in [Publishers -> Events \cup {None}] /\ at' \in [Publishers -> 1..2]
    BY <1>o, GoesOnIs DEF FannedOut
  <2> QED
    BY <1>o, <2>1 DEF FannedOut, Ranges, procVars, jobVars, logVars, clientVars, watchVars
<1>n. ASSUME NEW c \in Clients, Accept(c) \/ Subscribe(c) PROVE Ranges'
  <2>1. conn' \in [Clients -> {"off", "accepted", "open", "closed"}]
    BY <1>n DEF Accept, Subscribe, Ranges
  <2>2. UNCHANGED <<procVars, jobVars, logVars, pubVars, busVars, buf, got, missed, caughtUp, watchVars>>
    BY <1>n DEF Accept, Subscribe
  <2> QED
    BY <2>1, <2>2 DEF Ranges, procVars, jobVars, logVars, pubVars, busVars, watchVars
<1>h. ASSUME NEW c \in Clients, CatchUp(c) PROVE Ranges'
  <2>1. Since(0) = log
    BY SubSeqFull DEF Since, Ranges
  <2>2. caughtUp' \in [Clients -> Seq(Events) \cup {None}]
    BY <1>h, <2>1 DEF CatchUp, Ranges
  <2> QED
    BY <1>h, <2>2 DEF CatchUp, Ranges, procVars, jobVars, logVars, pubVars, busVars, watchVars
<1>v. ASSUME NEW c \in Clients, Deliver(c) PROVE Ranges'
  <2>1. /\ Head(buf[c]) \in Events /\ Tail(buf[c]) \in Seq(Events)
        /\ Len(Tail(buf[c])) = Len(buf[c]) - 1 /\ Len(buf[c]) \in Nat
    BY <1>v, InHeadTail, LenProperties DEF Deliver, Ranges
  <2>2. Append(got[c], Head(buf[c])) \in Seq(Events)
    BY <2>1, AppendProperties DEF Ranges
  <2>3. buf' \in [Clients -> Seq(Events)] /\ got' \in [Clients -> Seq(Events)]
    BY <1>v, <2>1, <2>2 DEF Deliver, Ranges
  <2>4. \A k \in Clients : Len(buf'[k]) <= Buffer
    BY <1>v, <2>1, EventsAssumption DEF Deliver, Ranges
  <2> QED
    BY <1>v, <2>3, <2>4 DEF Deliver, Ranges, procVars, jobVars, logVars, pubVars, busVars, watchVars
<1>u. ASSUME NEW c \in Clients, Unsubscribe(c) PROVE Ranges'
  <2>1. /\ conn' \in [Clients -> {"off", "accepted", "open", "closed"}]
        /\ got' \in [Clients -> Seq(Events)] /\ missed' \in [Clients -> SUBSET Events]
        /\ caughtUp' \in [Clients -> Seq(Events) \cup {None}]
        /\ buf' \in [Clients -> Seq(Events)]
    BY <1>u DEF Unsubscribe, Ranges, Gone
  <2>2. ASSUME NEW k \in Clients PROVE Len(buf'[k]) <= Buffer
    BY <1>u, EventsAssumption DEF Unsubscribe, Ranges, Gone
  <2> QED
    BY <1>u, <2>1, <2>2 DEF Unsubscribe, Ranges, procVars, jobVars, logVars, pubVars, busVars, watchVars
<1>x. CASE WatchCreated
  BY <1>x DEF WatchCreated, Ranges, procVars, jobVars, logVars, pubVars, busVars, clientVars
<1>y. CASE WatchEvents
  <2>1. Since(Len(printed)) \in Seq(Events)
    <3>1. Len(printed) \in Nat /\ Len(log) \in Nat /\ \A i \in 1..Len(log) : log[i] \in Events
      BY LenProperties, ElementOfSeq DEF Ranges
    <3>2. \A i \in (Len(printed) + 1)..Len(log) : log[i] \in Events
      BY <3>1
    <3> QED
      BY <3>1, <3>2, SubSeqProperties DEF Since
  <2>2. printed \o Since(Len(printed)) \in Seq(Events)
    BY <2>1, ConcatProperties DEF Ranges
  <2>3. printed' \in Seq(Events) /\ watch' \in {"off", "creating", "events", "status", "done", "error"}
    BY <1>y, <2>2 DEF WatchEvents, Ask, Ranges
  <2>4. UNCHANGED <<procVars, jobVars, logVars, pubVars, busVars, clientVars>>
    BY <1>y DEF WatchEvents
  <2> QED
    BY <2>3, <2>4 DEF Ranges, procVars, jobVars, logVars, pubVars, busVars, clientVars
<1>z. CASE WatchStatus
  BY <1>z DEF WatchStatus, Ask, Ranges, procVars, jobVars, logVars, pubVars, busVars, clientVars
<1>k. CASE Die /\ UNCHANGED <<log, tail, glued>>
  BY <1>k, <1>e, DieIs DEF Ranges, Die, watchVars
<1>j. ASSUME NEW p \in Publishers, TearLine(p) PROVE Ranges'
  <2>0. msg[p] \in Events /\ Die
    BY <1>j, MsgIs DEF TearLine
  <2>1. PICK part \in {"none", "half", "whole", "line"} : Grow(msg[p], part)
    BY <1>j DEF TearLine
  <2>2. log' \in Seq(Events) /\ glued' \subseteq Events /\ tail' \in {"clean", "half", "whole"}
    BY <1>w0, <2>0, <2>1, GrowIs
  <2> QED
    BY <1>e, <2>0, <2>2, DieIs DEF Ranges, Die, watchVars
<1>m. CASE Restart
  <2>0. life + 1 \in 0..MaxRestarts
    BY <1>m, <1>e DEF Restart
  <2>1. <<life + 1, "failed", 0>> \in Events
    BY <1>e, <2>0, EventIs
  <2>2. msg' \in [Publishers -> Events \cup {None}] /\ at' \in [Publishers -> 1..2]
    <3>1. CASE Begin("run", <<life + 1, "failed", 0>>)
      BY <2>1, <3>1, BeginIs, PublisherIs
    <3>2. CASE UNCHANGED pubVars
      BY <3>2 DEF pubVars, Ranges
    <3> QED
      BY <1>m, <3>1, <3>2 DEF Restart
  <2>3. run' \in {"off", "waiting", "running", "ending", "over"} /\ end' \in {None, "failed", "cancelled"}
    BY <1>m DEF Restart, Ranges
  <2> QED
    BY <1>m, <2>0, <2>2, <2>3 DEF Restart, Ranges, logVars, busVars, clientVars, watchVars
<1>i. CASE Listen
  BY <1>i DEF Listen, Ranges, jobVars, logVars, pubVars, busVars, clientVars, watchVars
<1>q. CASE UNCHANGED vars
  BY <1>q DEF vars, Ranges, procVars, jobVars, logVars, pubVars, busVars, clientVars, watchVars
<1> QED
  BY <1>s, <1>r, <1>b, <1>p, <1>a, <1>t, <1>w, <1>c, <1>l, <1>f, <1>d, <1>o, <1>n, <1>h, <1>v, <1>u,
     <1>x, <1>y, <1>z, <1>k, <1>j, <1>m, <1>i, <1>q
  DEF Next, RunStep, PublishStep, ClientStep, WatchStep, Crash, Rest

-----------------------------------------------------------------------------
(* Who changes what. *)

\* Only Append, and a process killed in it, writes to the log.
LEMMA LogMoves ==
  ASSUME [Next]_vars
  PROVE  (\E p \in Publishers : AppendToLog(p) \/ TearLine(p)) \/ UNCHANGED <<log, tail, glued, refused>>
<1>1. CASE Submit \/ Reject \/ RunStep
  BY <1>1 DEF Submit, Reject, RunStep, Start, Progress, Activate, PersistEnd, Complete, EndBadly, logVars
<1>2. ASSUME NEW p \in Publishers, PublishStep(p), ~AppendToLog(p)
      PROVE  UNCHANGED <<log, tail, glued, refused>>
  BY <1>2 DEF PublishStep, FanOut, Send, FannedOut, logVars
<1>3. ASSUME NEW c \in Clients, ClientStep(c) PROVE UNCHANGED <<log, tail, glued, refused>>
  BY <1>3 DEF ClientStep, Accept, Subscribe, CatchUp, Deliver, Unsubscribe, logVars
<1>4. CASE WatchStep
  BY <1>4 DEF WatchStep, WatchCreated, WatchEvents, WatchStatus, logVars
<1>5. CASE Crash
  BY <1>5 DEF Crash, Die
<1>6. CASE Restart \/ Listen \/ Rest \/ UNCHANGED vars
  BY <1>6 DEF Restart, Listen, Rest, vars, logVars
<1> QED
  BY <1>1, <1>2, <1>3, <1>4, <1>5, <1>6 DEF Next, PublishStep

\* Only the polling loop's request for events prints (watch).
LEMMA PrintedMoves ==
  ASSUME [Next]_vars
  PROVE  WatchEvents \/ UNCHANGED printed
<1>1. CASE Submit \/ Reject \/ RunStep
  BY <1>1 DEF Submit, Reject, RunStep, Start, Progress, Activate, PersistEnd, Complete, EndBadly, watchVars
<1>2. ASSUME NEW p \in Publishers, PublishStep(p) PROVE UNCHANGED printed
  BY <1>2 DEF PublishStep, AppendToLog, FanOut, Send, FannedOut, watchVars
<1>3. ASSUME NEW c \in Clients, ClientStep(c) PROVE UNCHANGED printed
  BY <1>3 DEF ClientStep, Accept, Subscribe, CatchUp, Deliver, Unsubscribe, watchVars
<1>4. CASE WatchCreated \/ WatchStatus
  BY <1>4 DEF WatchCreated, WatchStatus, Ask
<1>5. CASE Crash \/ (\E p \in Publishers : TearLine(p))
  BY <1>5 DEF Crash, TearLine, Die, watchVars
<1>6. CASE Restart \/ Listen \/ Rest \/ UNCHANGED vars
  BY <1>6 DEF Restart, Listen, Rest, vars, watchVars
<1> QED
  BY <1>1, <1>2, <1>3, <1>4, <1>5, <1>6 DEF Next, WatchStep

\* What a publisher that appends its event, or is killed while it does, leaves of
\* the log (AppendToLog, TearLine).
LEMMA LogGrows ==
  ASSUME Ranges, WholeIsUnsaid, LastIsThere, NEW p \in Publishers, AppendToLog(p) \/ TearLine(p)
  PROVE  /\ msg[p] \in Events /\ at[p] = 1 /\ msg[p] # None
         /\ \/ tail = "clean" /\ log' = Append(log, msg[p])
            \/ tail = "whole" /\ tail' # "whole" /\ log # <<>> /\ log' = SubSeq(log, 1, Len(log) - 1)
            \/ log' = log /\ (tail' = "whole" <=> tail = "whole")
         /\ \A e : In(e, log') => In(e, log) \/ e = msg[p]
         /\ \A e : In(e, log) /\ (tail = "whole" => e # LastLine) => In(e, log')
         /\ glued \subseteq glued' /\ glued' \subseteq glued \cup {msg[p]}
         /\ refused \subseteq refused' /\ refused' \subseteq refused \cup {msg[p]}
<1>1. msg[p] \in Events /\ at[p] = 1 /\ msg[p] # None
  BY MsgIs DEF AppendToLog, TearLine
<1>2. PICK part \in {"none", "half", "whole", "line"} : Grow(msg[p], part)
  BY DEF AppendToLog, TearLine
<1>3. log \in Seq(Events) /\ (tail = "whole" => log # <<>>)
  BY DEF Ranges, WholeIsUnsaid
<1>4. /\ \/ tail = "clean" /\ log' = Append(log, msg[p])
         \/ tail = "whole" /\ tail' # "whole" /\ log' = SubSeq(log, 1, Len(log) - 1)
         \/ log' = log /\ (tail' = "whole" <=> tail = "whole")
      /\ glued \subseteq glued' /\ glued' \subseteq glued \cup {msg[p]}
  BY <1>1, <1>2, <1>3, GrowIs
<1>5. refused \subseteq refused' /\ refused' \subseteq refused \cup {msg[p]}
  BY DEF AppendToLog, TearLine, Die
<1>6. CASE tail = "clean" /\ log' = Append(log, msg[p])
  <2>1. \A e : In(e, Append(log, msg[p])) <=> In(e, log) \/ e = msg[p]
    BY <1>1, <1>3, InAppend
  <2> QED
    BY <1>1, <1>4, <1>5, <1>6, <2>1
<1>7. CASE tail = "whole" /\ tail' # "whole" /\ log' = SubSeq(log, 1, Len(log) - 1)
  <2>1. /\ \A e : In(e, log') => In(e, log)
        /\ \A e : In(e, log) /\ e # LastLine => In(e, log')
    BY <1>3, <1>7, LastEndShrinks
  <2> QED
    BY <1>1, <1>3, <1>4, <1>5, <1>7, <2>1
<1>8. CASE log' = log /\ (tail' = "whole" <=> tail = "whole")
  BY <1>1, <1>4, <1>5, <1>8
<1> QED
  BY <1>4, <1>6, <1>7, <1>8

-----------------------------------------------------------------------------
(* The bus's mutex. *)

\* A publisher that had no event is not the one that holds the mutex.
LEMMA BeginsUnlocked ==
  ASSUME Ranges, BusIsHeld, NEW p \in Publishers, NEW e \in Events, msg[p] = None, Begin(p, e),
         phase' # "down", UNCHANGED <<busVars, conn>>
  PROVE  BusIsHeld'
<1>1. lock # None => lock \in Publishers /\ lock # p
  BY DEF Ranges, BusIsHeld
<1>2. lock # None => msg'[lock] = msg[lock] /\ at'[lock] = at[lock]
  BY <1>1, BeginIs
<1> QED
  BY <1>2 DEF BusIsHeld, Subscribed, busVars

\* A step that publishes nothing and leaves the bus alone.
LEMMA BusKept ==
  ASSUME BusIsHeld, UNCHANGED <<pubVars, busVars, conn>>, phase' # "down"
  PROVE  BusIsHeld'
BY DEF BusIsHeld, Subscribed, pubVars, busVars

\* The mutex is held by one publisher at a time, and whom it serves does not leave.
LEMMA BusIsHeldStep ==
  ASSUME IInv, [Next]_vars
  PROVE  BusIsHeld'
<1>0. Ranges /\ BusIsHeld /\ SilentWhenIdle
  BY DEF IInv
<1>e. life \in 0..MaxRestarts /\ n \in 0..Steps /\ Steps \in Nat \ {0} /\ MaxRestarts \in Nat
      /\ 0 \in 0..Steps
  BY <1>0, EventsAssumption DEF Ranges
<1>s. CASE Submit
  <2>1. <<life, "created", 0>> \in Events
    BY <1>e, EventIs
  <2>2. msg["handler"] = None /\ phase' # "down"
    BY <1>0, <1>s DEF SilentWhenIdle, Submit, Listening, procVars
  <2> QED
    BY <1>0, <1>s, <2>1, <2>2, BeginsUnlocked, PublisherIs DEF Submit, clientVars
<1>b. CASE Start
  <2>1. Step(life, 0) \in Events
    BY <1>e, EventIs DEF Step
  <2>2. msg["run"] = None /\ phase' # "down"
    BY <1>0, <1>b DEF SilentWhenIdle, Start, Running, procVars
  <2> QED
    BY <1>0, <1>b, <2>1, <2>2, BeginsUnlocked, PublisherIs DEF Start, clientVars
<1>p. CASE Progress
  <2>1. Step(life, n + 1) \in Events
    BY <1>p, <1>e, EventIs DEF Step, Progress
  <2>2. msg["run"] = None /\ phase' # "down"
    BY <1>p DEF Progress, Quiet, Running, procVars
  <2> QED
    BY <1>0, <1>p, <2>1, <2>2, BeginsUnlocked, PublisherIs DEF Progress, clientVars
<1>t. ASSUME NEW s \in {"failed", "cancelled"}, EndBadly(s) PROVE BusIsHeld'
  <2>1. <<life, s, 0>> \in Events
    BY <1>e, EventIs
  <2>2. msg["run"] = None /\ phase' # "down"
    BY <1>t DEF EndBadly, Quiet, Running, procVars
  <2> QED
    BY <1>0, <1>t, <2>1, <2>2, BeginsUnlocked, PublisherIs DEF EndBadly, clientVars
<1>c. CASE Complete
  <2>1. <<life, "completed", 0>> \in Events
    BY <1>e, EventIs
  <2>2. msg["run"] = None /\ phase' # "down"
    BY <1>c DEF Complete, Quiet, Running, procVars
  <2> QED
    BY <1>0, <1>c, <2>1, <2>2, BeginsUnlocked, PublisherIs DEF Complete, clientVars
<1>l. ASSUME NEW p \in Publishers, AppendToLog(p) PROVE BusIsHeld'
  <2>1. at[p] = 1
    BY <1>0, <1>l, MsgIs DEF AppendToLog
  <2>2. lock # None => lock \in Publishers /\ lock # p
    BY <1>0, <2>1 DEF BusIsHeld, Ranges
  <2>3. lock # None => msg'[lock] = msg[lock] /\ at'[lock] = at[lock]
    <3>1. CASE PublishGoesOn(p)
      BY <1>0, <2>2, <3>1, GoesOnIs
    <3>2. CASE msg' = [msg EXCEPT ![p] = None] /\ UNCHANGED at
      BY <1>0, <2>2, <3>2 DEF Ranges
    <3> QED
      BY <1>l, <3>1, <3>2 DEF AppendToLog
  <2> QED
    BY <1>0, <1>l, <2>3 DEF AppendToLog, Running, BusIsHeld, Subscribed, busVars, clientVars, procVars
<1>f. ASSUME NEW p \in Publishers, FanOut(p) PROVE BusIsHeld'
  <2>1. msg[p] # None /\ at[p] = 2 /\ p # None
    BY <1>0, <1>f, MsgIs, PublisherIs DEF FanOut
  <2> QED
    BY <1>0, <1>f, <2>1 DEF FanOut, Running, BusIsHeld, Subscribed, procVars, pubVars
<1>d. ASSUME NEW p \in Publishers, NEW c \in Clients, Send(p, c) PROVE BusIsHeld'
  <2>1. p # None
    BY PublisherIs
  <2> QED
    BY <1>0, <1>d, <2>1 DEF Send, BusIsHeld, Subscribed, procVars, pubVars
<1>o. ASSUME NEW p \in Publishers, FannedOut(p) PROVE BusIsHeld'
  <2>1. p # None
    BY PublisherIs
  <2>2. phase # "down"
    BY <1>0, <1>o, <2>1 DEF FannedOut, BusIsHeld
  <2> QED
    BY <1>0, <1>o, <2>2 DEF FannedOut, BusIsHeld, Subscribed, procVars, clientVars
<1>n. ASSUME NEW c \in Clients, Subscribe(c) PROVE BusIsHeld'
  <2>1. todo = {} /\ todo' = {} /\ lock' = None /\ phase' # "down"
    BY <1>0, <1>n DEF Subscribe, Running, BusIsHeld, busVars, procVars
  <2> QED
    BY <2>1 DEF BusIsHeld
<1>j. ASSUME NEW c \in Clients, Accept(c) PROVE BusIsHeld'
  <2>1. UNCHANGED <<pubVars, busVars>> /\ phase' # "down" /\ Subscribed \subseteq Subscribed'
    BY <1>0, <1>j DEF Accept, Listening, Subscribed, procVars, Ranges
  <2> QED
    BY <1>0, <2>1 DEF BusIsHeld, pubVars, busVars
<1>u. ASSUME NEW c \in Clients, Unsubscribe(c) PROVE BusIsHeld'
  <2>1. todo = {} /\ todo' = {} /\ lock' = None /\ phase' # "down"
    BY <1>0, <1>u DEF Unsubscribe, Running, BusIsHeld, busVars, procVars
  <2> QED
    BY <2>1 DEF BusIsHeld
<1>h. ASSUME NEW c \in Clients, CatchUp(c) \/ Deliver(c) PROVE BusIsHeld'
  BY <1>0, <1>h, BusKept DEF CatchUp, Deliver, Listening, Running, procVars
<1>k. CASE Die
  <2>1. \A p \in Publishers : msg'[p] = None
    BY <1>0, <1>k, DieIs
  <2> QED
    BY <1>0, <1>k, <2>1, DieIs DEF BusIsHeld
<1>m. CASE Restart
  <2>1. lock' = None /\ todo' = {} /\ phase' # "down"
    BY <1>0, <1>m DEF Restart, BusIsHeld, busVars
  <2> QED
    BY <2>1 DEF BusIsHeld
<1>r. CASE Reject \/ Activate \/ PersistEnd \/ Listen
  <2>1. phase' # "down" /\ UNCHANGED <<pubVars, busVars, conn>>
    BY <1>r DEF Reject, Activate, PersistEnd, Listen, Quiet, Listening, Running, procVars, clientVars
  <2> QED
    BY <1>0, <2>1, BusKept
<1>x. CASE WatchStep \/ UNCHANGED vars
  <2>1. UNCHANGED <<phase, run, pubVars, busVars, conn>>
    BY <1>x DEF WatchStep, WatchCreated, WatchEvents, WatchStatus, vars, procVars, jobVars, clientVars
  <2> QED
    BY <1>0, <2>1 DEF BusIsHeld, Subscribed, pubVars, busVars
<1> QED
  BY <1>s, <1>b, <1>p, <1>t, <1>c, <1>l, <1>f, <1>d, <1>o, <1>n, <1>j, <1>u, <1>h, <1>k, <1>m, <1>r, <1>x
  DEF Next, RunStep, PublishStep, ClientStep, Crash, TearLine, Rest

-----------------------------------------------------------------------------
(* Nothing is published twice. *)

\* Who is done publishing stays silent until it has the next event.
LEMMA SilentWhenIdleStep ==
  ASSUME IInv, [Next]_vars
  PROVE  SilentWhenIdle'
<1>0. Ranges /\ BusIsHeld /\ SilentWhenIdle
  BY DEF IInv
<1>e. life \in 0..MaxRestarts /\ n \in 0..Steps /\ Steps \in Nat \ {0} /\ MaxRestarts \in Nat
      /\ 0 \in 0..Steps
  BY <1>0, EventsAssumption DEF Ranges
<1>h. msg \in [Publishers -> Events \cup {None}] /\ "handler" \in Publishers
  BY <1>0, PublisherIs DEF Ranges
<1>s. CASE Submit
  <2>1. <<life, "created", 0>> \in Events
    BY <1>e, EventIs
  <2>2. msg'["run"] = msg["run"]
    BY <1>0, <1>s, <2>1, BeginIs, PublisherIs DEF Submit
  <2> QED
    BY <1>0, <1>s, <2>2 DEF Submit, SilentWhenIdle
<1>r. CASE Reject
  BY <1>0, <1>r DEF Reject, SilentWhenIdle, pubVars
<1>b. CASE Start \/ Progress \/ Activate \/ PersistEnd \/ Complete
           \/ \E s \in {"failed", "cancelled"} : EndBadly(s)
  <2>1. msg'["handler"] = msg["handler"]
    BY <1>b, <1>h DEF Start, Progress, Activate, PersistEnd, Complete, EndBadly, Begin, pubVars
  <2> QED
    BY <1>0, <1>b, <2>1 DEF Start, Progress, Activate, PersistEnd, Complete, EndBadly, Quiet, SilentWhenIdle
<1>l. ASSUME NEW p \in Publishers, AppendToLog(p) \/ FannedOut(p) PROVE SilentWhenIdle'
  <2>1. \A q \in Publishers : msg[q] = None => msg'[q] = None
    <3>1. msg[p] # None
      <4>1. p # None
        BY PublisherIs
      <4> QED
        BY <1>0, <1>l, <4>1 DEF AppendToLog, FannedOut, BusIsHeld
    <3>2. CASE PublishGoesOn(p)
      BY <1>0, <3>1, <3>2, GoesOnIs
    <3>3. CASE msg' = [msg EXCEPT ![p] = None] /\ UNCHANGED at
      BY <1>0, <3>3 DEF Ranges
    <3> QED
      BY <1>l, <3>2, <3>3 DEF AppendToLog, FannedOut
  <2>2. UNCHANGED <<phase, handler, run, record>>
    BY <1>l DEF AppendToLog, FannedOut, procVars, jobVars
  <2> QED
    BY <1>0, <2>1, <2>2, PublisherIs DEF SilentWhenIdle
<1>k. CASE Die
  BY <1>0, <1>k, DieIs, PublisherIs DEF SilentWhenIdle, Die
<1>m. CASE Restart
  <2>1. msg'["handler"] = msg["handler"]
    BY <1>m, <1>h DEF Restart, Begin, pubVars
  <2> QED
    BY <1>0, <1>m, <2>1 DEF Restart, SilentWhenIdle, BusIsHeld, Begin, pubVars
<1>i. CASE Listen
  BY <1>0, <1>i DEF Listen, SilentWhenIdle, jobVars, pubVars
<1>u. ASSUME UNCHANGED <<phase, handler, run, record, msg>> PROVE SilentWhenIdle'
  BY <1>0, <1>u DEF SilentWhenIdle
<1>f. ASSUME NEW p \in Publishers, FanOut(p) \/ \E c \in Clients : Send(p, c) PROVE SilentWhenIdle'
  BY <1>f, <1>u DEF FanOut, Send, procVars, jobVars, pubVars
<1>n. ASSUME NEW c \in Clients, ClientStep(c) PROVE SilentWhenIdle'
  BY <1>n, <1>u DEF ClientStep, Accept, Subscribe, CatchUp, Deliver, Unsubscribe, procVars, jobVars, pubVars
<1>x. CASE WatchStep \/ UNCHANGED vars
  BY <1>x, <1>u DEF WatchStep, WatchCreated, WatchEvents, WatchStatus, vars, procVars, jobVars, pubVars
<1> QED
  BY <1>s, <1>r, <1>b, <1>l, <1>k, <1>m, <1>i, <1>f, <1>n, <1>x
  DEF Next, RunStep, PublishStep, Crash, TearLine, Rest

\* What was published stays so, as long as nobody goes back.
LEMMA PastStays ==
  ASSUME NEW e \in Events, Past(e), life' = life, n \in Nat, n' \in Nat,
         phase = "down" => phase' = "down",
         phase' # "down" =>
           /\ handler # "submitting" => handler' # "submitting"
           /\ run \in {"running", "ending", "over"} => run' \in {"running", "ending", "over"} /\ n <= n'
           /\ run \in {"ending", "over"} => run' \in {"ending", "over"}
  PROVE  Past(e)'
BY EventHas, EventsAssumption DEF Past, Type

\* A publisher begins an event that was not published before.
LEMMA BeginsFresh ==
  ASSUME Ranges, PublishedOnce, NEW p \in Publishers, NEW e \in Events, Begin(p, e),
         UNCHANGED <<log, glued>>, e[1] = life', Type(e) = "created" <=> p = "handler",
         ~Past(e), Past(e)', \A f \in Events : Past(f) => Past(f)',
         \A q \in Publishers : q # p /\ msg[q] # None => life' = life
  PROVE  PublishedOnce'
<1>1. /\ msg'[p] = e /\ at'[p] = 1
      /\ \A q \in Publishers : q # p => msg'[q] = msg[q] /\ at'[q] = at[q]
  BY BeginIs
<1>2. \A q \in Publishers : msg[q] # None => msg[q] \in Events
  BY MsgIs
<1>3. ~In(e, log) /\ e \notin glued
  BY DEF PublishedOnce
<1>4. /\ msg'["handler"] # None => Type(msg'["handler"]) = "created"
      /\ msg'["run"] # None => Type(msg'["run"]) # "created"
  BY <1>1, PublisherIs DEF PublishedOnce
<1>5. ASSUME NEW q \in Publishers, msg'[q] # None PROVE (msg[q][1] = life /\ Past(msg[q]))'
  <2>1. CASE q = p
    BY <1>1, <2>1 DEF Past
  <2>2. CASE q # p
    <3>1. msg'[q] = msg[q] /\ msg[q][1] = life /\ Past(msg[q]) /\ msg[q] \in Events
      BY <1>1, <1>2, <1>5, <2>2 DEF PublishedOnce
    <3> QED
      BY <1>5, <2>2, <3>1 DEF Past
  <2> QED
    BY <2>1, <2>2
<1>6. ASSUME NEW q \in Publishers, msg'[q] # None, at'[q] = 1
      PROVE  ~In(msg'[q], log') /\ msg'[q] \notin glued'
  BY <1>1, <1>3, <1>6 DEF PublishedOnce
<1>7. \A f \in Events : In(f, log') \/ f \in glued' => Past(f)'
  BY DEF PublishedOnce
<1> QED
  BY <1>4, <1>5, <1>6, <1>7 DEF PublishedOnce, Past

\* A step that publishes nothing, and no publisher goes back.
LEMMA NothingPublished ==
  ASSUME PublishedOnce, Ranges, UNCHANGED <<log, glued, pubVars, life>>, \A f \in Events : Past(f) => Past(f)'
  PROVE  PublishedOnce'
<1>1. \A q \in Publishers : msg[q] # None => msg[q] \in Events
  BY MsgIs
<1>2. ASSUME NEW q \in Publishers, msg[q] # None PROVE Past(msg[q])'
  BY <1>1, <1>2 DEF PublishedOnce, Past, pubVars
<1> QED
  BY <1>2 DEF PublishedOnce, pubVars, Past

\* A publisher goes on, or gives up, with the event it is at (AppendToLog, FannedOut).
LEMMA PublishGoesOnOnce ==
  ASSUME IInv, NEW p \in Publishers, AppendToLog(p) \/ FannedOut(p)
  PROVE  PublishedOnce'
<1>0. Ranges /\ BusIsHeld /\ PublishedOnce /\ WholeIsUnsaid /\ LastIsThere
  BY DEF IInv
<1>1. msg[p] \in Events /\ msg[p] # None
  <2>1. p # None
    BY PublisherIs
  <2> QED
    BY <1>0, <2>1, MsgIs DEF AppendToLog, FannedOut, BusIsHeld
<1>2. UNCHANGED <<phase, life, handler, run, n>>
  BY DEF AppendToLog, FannedOut, procVars, jobVars
<1>3. /\ \A q \in Publishers : q # p => msg'[q] = msg[q] /\ at'[q] = at[q]
      /\ msg'[p] = None \/ (msg'[p] = msg[p] /\ at'[p] = 2)
  <2>0. msg \in [Publishers -> Events \cup {None}] /\ at \in [Publishers -> 1..2]
    BY <1>0 DEF Ranges
  <2>1. CASE PublishGoesOn(p)
    <3>1. at[p] = 1 \/ at[p] = 2
      BY <2>0
    <3> QED
      BY <2>0, <2>1, <3>1 DEF PublishGoesOn
  <2>2. CASE msg' = [msg EXCEPT ![p] = None] /\ UNCHANGED at
    <3>1. msg'[p] = None
      BY <2>0, <2>2
    <3>2. \A q \in Publishers : q # p => msg'[q] = msg[q] /\ at'[q] = at[q]
      BY <2>0, <2>2
    <3> QED
      BY <3>1, <3>2
  <2> QED
    BY <2>1, <2>2 DEF AppendToLog, FannedOut
<1>4. \A e : In(e, log') \/ e \in glued' => In(e, log) \/ e \in glued \/ e = msg[p]
  <2>1. CASE AppendToLog(p)
    BY <1>0, <2>1, LogGrows
  <2>2. CASE FannedOut(p)
    BY <2>2 DEF FannedOut, logVars
  <2> QED
    BY <2>1, <2>2
<1>5. \A e \in Events : Past(e)' <=> Past(e)
  BY <1>2 DEF Past
<1>6. \A q \in Publishers : msg'[q] # None => msg'[q] = msg[q]
  BY <1>3
<1>7. \A q \in Publishers : q # p /\ msg[q] # None => msg[q] # msg[p]
  BY <1>0, <1>1, PublisherIs DEF PublishedOnce
<1>8. /\ msg'["handler"] # None => Type(msg'["handler"]) = "created"
      /\ msg'["run"] # None => Type(msg'["run"]) # "created"
  BY <1>0, <1>6, PublisherIs DEF PublishedOnce
<1>9. ASSUME NEW q \in Publishers, msg'[q] # None PROVE (msg[q][1] = life /\ Past(msg[q]))'
  BY <1>0, <1>2, <1>6, <1>9 DEF PublishedOnce, Past
<1>10. ASSUME NEW q \in Publishers, msg'[q] # None, at'[q] = 1
       PROVE  ~In(msg'[q], log') /\ msg'[q] \notin glued'
  BY <1>0, <1>3, <1>4, <1>7, <1>10 DEF PublishedOnce
<1>11. ASSUME NEW e \in Events, In(e, log') \/ e \in glued' PROVE Past(e)'
  BY <1>0, <1>1, <1>4, <1>5, <1>11 DEF PublishedOnce
<1> QED
  BY <1>8, <1>9, <1>10, <1>11 DEF PublishedOnce

\* No step publishes an event that was published before.
LEMMA PublishedOnceStep ==
  ASSUME IInv, [Next]_vars
  PROVE  PublishedOnce'
<1>0. Ranges /\ BusIsHeld /\ SilentWhenIdle /\ PublishedOnce /\ WholeIsUnsaid /\ LastIsThere
  BY DEF IInv
<1>e. life \in 0..MaxRestarts /\ n \in 0..Steps /\ Steps \in Nat \ {0} /\ MaxRestarts \in Nat
      /\ 0 \in 0..Steps /\ n \in Nat
  BY <1>0, EventsAssumption DEF Ranges
<1>s. CASE Submit
  <2> DEFINE e == <<life, "created", 0>>
  <2>1. e \in Events /\ Type(e) = "created" /\ e[1] = life
    BY <1>e, EventIs
  <2>2. ~Past(e) /\ Past(e)'
    BY <1>s, <1>e, <2>1 DEF Submit, Listening, Past, procVars, Ends
  <2>3. \A f \in Events : Past(f) => Past(f)'
    BY <1>0, <1>e, <1>s, PastStays DEF Submit, SilentWhenIdle, procVars
  <2> HIDE DEF e
  <2> QED
    BY <1>0, <1>s, <2>1, <2>2, <2>3, BeginsFresh, PublisherIs DEF Submit, e, procVars, logVars
<1>b. CASE Start
  <2> DEFINE e == Step(life, 0)
  <2>1. e \in Events /\ Type(e) = "step" /\ e[1] = life /\ e[3] = 0
    BY <1>e, EventIs DEF Step
  <2>2. ~Past(e) /\ Past(e)'
    BY <1>b, <1>e, <2>1 DEF Start, Running, Past, procVars, Ends
  <2>3. \A f \in Events : Past(f) => Past(f)'
    BY <1>e, <1>b, PastStays DEF Start, procVars
  <2> HIDE DEF e
  <2> QED
    BY <1>0, <1>b, <2>1, <2>2, <2>3, BeginsFresh, PublisherIs DEF Start, e, procVars, logVars
<1>p. CASE Progress
  <2>1. PICK e \in Events : e = Step(life, n + 1) /\ Type(e) = "step" /\ e[1] = life /\ e[3] = n + 1
    <3>1. Step(life, n + 1) \in Events /\ Type(Step(life, n + 1)) = "step" /\ Step(life, n + 1)[1] = life
      BY <1>p, <1>e, EventIs DEF Step, Progress
    <3> QED
      BY <3>1 DEF Step
  <2>2. ~Past(e) /\ Past(e)'
    <3>1. phase \in {"up", "recovering"} /\ UNCHANGED <<phase, life>> /\ n' = n + 1 /\ run' = "running"
      BY <1>p DEF Progress, Quiet, Running, procVars
    <3>2. e[3] > n /\ e[3] <= n'
      BY <1>e, <2>1, <3>1
    <3> QED
      BY <1>e, <2>1, <3>1, <3>2 DEF Past, Ends
  <2>3. \A f \in Events : Past(f) => Past(f)'
    BY <1>e, <1>p, PastStays DEF Progress, procVars
  <2> QED
    BY <1>0, <1>p, <2>1, <2>2, <2>3, BeginsFresh, PublisherIs DEF Progress, procVars, logVars
<1>t. ASSUME NEW s \in {"failed", "cancelled"}, EndBadly(s) PROVE PublishedOnce'
  <2> DEFINE e == <<life, s, 0>>
  <2>1. e \in Events /\ Type(e) = s /\ e[1] = life
    BY <1>e, EventIs
  <2>2. ~Past(e) /\ Past(e)'
    BY <1>t, <1>e, <2>1 DEF EndBadly, Quiet, Running, Past, procVars, Ends
  <2>3. \A f \in Events : Past(f) => Past(f)'
    BY <1>e, <1>t, PastStays DEF EndBadly, procVars
  <2> HIDE DEF e
  <2> QED
    BY <1>0, <1>t, <2>1, <2>2, <2>3, BeginsFresh, PublisherIs DEF EndBadly, e, procVars, logVars
<1>c. CASE Complete
  <2> DEFINE e == <<life, "completed", 0>>
  <2>1. e \in Events /\ Type(e) = "completed" /\ e[1] = life
    BY <1>e, EventIs
  <2>2. ~Past(e) /\ Past(e)'
    BY <1>c, <1>e, <2>1 DEF Complete, Quiet, Running, Past, procVars, Ends
  <2>3. \A f \in Events : Past(f) => Past(f)'
    BY <1>e, <1>c, PastStays DEF Complete, procVars
  <2> HIDE DEF e
  <2> QED
    BY <1>0, <1>c, <2>1, <2>2, <2>3, BeginsFresh, PublisherIs DEF Complete, e, procVars, logVars
<1>m. CASE Restart
  <2>1. \A f \in Events : Past(f) => Past(f)'
    BY <1>m, <1>e, EventHas DEF Restart, Past
  <2>2. \A q \in Publishers : msg[q] = None
    BY <1>0, <1>m DEF Restart, BusIsHeld
  <2>3. CASE Begin("run", <<life + 1, "failed", 0>>) /\ run' = "ending"
    <3>1. PICK e \in Events : e = <<life + 1, "failed", 0>> /\ Type(e) = "failed" /\ e[1] = life + 1
      BY <1>m, <1>e, EventIs DEF Restart
    <3>2. ~Past(e) /\ Past(e)'
      <4>1. life' = life + 1 /\ life' # life /\ ~(life + 1 <= life)
        BY <1>m, <1>e DEF Restart
      <4> QED
        BY <1>e, <2>3, <3>1, <4>1 DEF Past, Ends
    <3> QED
      BY <1>0, <1>m, <2>1, <2>2, <2>3, <3>1, <3>2, BeginsFresh, PublisherIs DEF Restart, logVars
  <2>4. CASE UNCHANGED pubVars
    <3>1. \A q \in Publishers : msg'[q] = None
      BY <2>2, <2>4 DEF pubVars
    <3>2. \A e \in Events : In(e, log') \/ e \in glued' => Past(e)'
      BY <1>0, <1>m, <2>1 DEF Restart, PublishedOnce, logVars
    <3> QED
      BY <3>1, <3>2, PublisherIs DEF PublishedOnce
  <2> QED
    BY <1>m, <2>3, <2>4 DEF Restart
<1>k. CASE Crash \/ \E p \in Publishers : TearLine(p)
  <2>0. Die
    BY <1>k DEF Crash, TearLine
  <2>1. \A f \in Events : Past(f) => Past(f)'
    BY <1>0, <2>0, DieIs DEF Past
  <2>2. \A q \in Publishers : msg'[q] = None
    BY <1>0, <2>0, DieIs
  <2>3. CASE UNCHANGED <<log, glued>>
    <3>1. \A e \in Events : In(e, log') \/ e \in glued' => Past(e)'
      BY <1>0, <2>1, <2>3 DEF PublishedOnce
    <3> QED
      BY <2>2, <3>1, PublisherIs DEF PublishedOnce
  <2>4. ASSUME NEW p \in Publishers, TearLine(p) PROVE PublishedOnce'
    <3>1. /\ msg[p] \in Events /\ msg[p] # None
          /\ \A e : In(e, log') \/ e \in glued' => In(e, log) \/ e \in glued \/ e = msg[p]
      BY <1>0, <2>4, LogGrows
    <3>2. \A e \in Events : In(e, log') \/ e \in glued' => Past(e)'
      BY <1>0, <2>1, <3>1 DEF PublishedOnce
    <3> QED
      BY <2>2, <3>2, PublisherIs DEF PublishedOnce
  <2> QED
    BY <1>k, <2>3, <2>4 DEF Crash
<1>l. ASSUME NEW p \in Publishers, AppendToLog(p) \/ FannedOut(p) PROVE PublishedOnce'
  BY <1>l, PublishGoesOnOnce
<1>r. CASE Reject \/ Activate \/ PersistEnd \/ Listen
  <2>1. UNCHANGED <<log, glued, pubVars, life, n>>
    BY <1>r DEF Reject, Activate, PersistEnd, Listen, procVars, logVars, jobVars
  <2>2. \A f \in Events : Past(f) => Past(f)'
    BY <1>e, <1>r, <2>1, PastStays
    DEF Reject, Activate, PersistEnd, Listen, Quiet, Running, Listening, procVars, jobVars
  <2> QED
    BY <1>0, <2>1, <2>2, NothingPublished
<1>u. ASSUME UNCHANGED <<phase, life, handler, run, n, log, glued, pubVars>> PROVE PublishedOnce'
  <2>1. \A f \in Events : Past(f) => Past(f)'
    BY <1>u DEF Past
  <2> QED
    BY <1>0, <1>u, <2>1, NothingPublished
<1>f. ASSUME NEW p \in Publishers, FanOut(p) \/ \E c \in Clients : Send(p, c) PROVE PublishedOnce'
  BY <1>f, <1>u DEF FanOut, Send, procVars, jobVars, logVars
<1>n. ASSUME NEW c \in Clients, ClientStep(c) PROVE PublishedOnce'
  BY <1>n, <1>u DEF ClientStep, Accept, Subscribe, CatchUp, Deliver, Unsubscribe, procVars, jobVars, logVars
<1>x. CASE WatchStep \/ UNCHANGED vars
  BY <1>x, <1>u DEF WatchStep, WatchCreated, WatchEvents, WatchStatus, vars, procVars, jobVars, logVars
<1> QED
  BY <1>s, <1>b, <1>p, <1>t, <1>c, <1>m, <1>k, <1>l, <1>r, <1>f, <1>n, <1>x
  DEF Next, RunStep, PublishStep, Rest

-----------------------------------------------------------------------------
(* What is streamed. *)

\* Where a publisher can be after a step.
LEMMA MsgMoves ==
  ASSUME IInv, [Next]_vars, NEW p \in Publishers
  PROVE  \/ msg'[p] = msg[p] /\ at'[p] = at[p]
         \/ msg'[p] = None
         \/ msg[p] = None /\ at'[p] = 1
         \/ AppendToLog(p) /\ at[p] = 1 /\ at'[p] = 2 /\ msg'[p] = msg[p] /\ UNCHANGED refused
<1>0. Ranges /\ BusIsHeld /\ SilentWhenIdle
  BY DEF IInv
<1>1. msg \in [Publishers -> Events \cup {None}] /\ at \in [Publishers -> 1..2]
  BY <1>0 DEF Ranges
<1> DEFINE Goal == \/ msg'[p] = msg[p] /\ at'[p] = at[p]
                   \/ msg'[p] = None
                   \/ msg[p] = None /\ at'[p] = 1
                   \/ AppendToLog(p) /\ at[p] = 1 /\ at'[p] = 2 /\ msg'[p] = msg[p] /\ UNCHANGED refused
<1>2. ASSUME NEW q \in Publishers, NEW e, Begin(q, e), msg[q] = None PROVE Goal
  BY <1>1, <1>2 DEF Begin
<1> SUFFICES Goal
  OBVIOUS
<1>3. CASE UNCHANGED <<msg, at>>
  BY <1>3
<1> HIDE DEF Goal
<1>s. CASE Submit
  BY <1>0, <1>s, <1>2, PublisherIs DEF Submit, SilentWhenIdle
<1>b. CASE Start
  BY <1>0, <1>b, <1>2, PublisherIs DEF Start, SilentWhenIdle
<1>p. CASE Progress \/ Complete \/ \E s \in {"failed", "cancelled"} : EndBadly(s)
  BY <1>p, <1>2, PublisherIs DEF Progress, Complete, EndBadly, Quiet
<1>r. CASE Reject \/ Activate \/ PersistEnd \/ Listen
  <2>1. UNCHANGED <<msg, at>>
    BY <1>r DEF Reject, Activate, PersistEnd, Listen, pubVars
  <2> QED
    BY <1>3, <2>1
<1>l. ASSUME NEW q \in Publishers, AppendToLog(q) PROVE Goal
  <2>1. at[q] = 1
    BY <1>0, <1>l, MsgIs DEF AppendToLog
  <2>2. CASE UNCHANGED refused /\ PublishGoesOn(q)
    <3>1. msg' = msg /\ at' = [at EXCEPT ![q] = 2]
      BY <2>1, <2>2 DEF PublishGoesOn
    <3> QED
      BY <1>1, <1>l, <2>1, <2>2, <3>1 DEF Goal
  <2>3. CASE msg' = [msg EXCEPT ![q] = None] /\ UNCHANGED at
    BY <1>1, <2>3 DEF Goal
  <2> QED
    BY <1>l, <2>2, <2>3 DEF AppendToLog
<1>o. ASSUME NEW q \in Publishers, FannedOut(q) PROVE Goal
  <2>1. at[q] = 2
    BY <1>0, <1>o, PublisherIs DEF FannedOut, BusIsHeld
  <2>2. msg' = [msg EXCEPT ![q] = None] /\ UNCHANGED at
    BY <1>o, <2>1 DEF FannedOut, PublishGoesOn
  <2> QED
    BY <1>1, <2>2 DEF Goal
<1>f. ASSUME NEW q \in Publishers, FanOut(q) \/ \E c \in Clients : Send(q, c) PROVE Goal
  <2>1. UNCHANGED <<msg, at>>
    BY <1>f DEF FanOut, Send, pubVars
  <2> QED
    BY <1>3, <2>1
<1>n. ASSUME NEW c \in Clients, ClientStep(c) PROVE Goal
  <2>1. UNCHANGED <<msg, at>>
    BY <1>n DEF ClientStep, Accept, Subscribe, CatchUp, Deliver, Unsubscribe, pubVars
  <2> QED
    BY <1>3, <2>1
<1>k. CASE Die
  BY <1>0, <1>k, DieIs DEF Goal
<1>m. CASE Restart
  <2>1. msg["run"] = None
    BY <1>0, <1>m, PublisherIs DEF Restart, BusIsHeld
  <2>2. CASE UNCHANGED <<msg, at>>
    BY <1>3, <2>2
  <2>3. CASE Begin("run", <<life + 1, "failed", 0>>)
    BY <1>2, <2>1, <2>3, PublisherIs
  <2> QED
    BY <1>m, <2>2, <2>3 DEF Restart, pubVars
<1>x. CASE WatchStep \/ UNCHANGED vars
  <2>1. UNCHANGED <<msg, at>>
    BY <1>x DEF WatchStep, WatchCreated, WatchEvents, WatchStatus, vars, pubVars
  <2> QED
    BY <1>3, <2>1
<1> QED
  BY <1>s, <1>b, <1>p, <1>r, <1>l, <1>o, <1>f, <1>n, <1>k, <1>m, <1>x
  DEF Next, RunStep, PublishStep, Crash, TearLine, Rest

\* What can be read, or was glued, stays so, but for a line without its newline.
LEMMA HistoryStays ==
  ASSUME IInv, [Next]_vars, NEW e, In(e, log) \/ e \in glued, tail = "whole" => e # LastLine
  PROVE  In(e, log') \/ e \in glued'
<1>0. Ranges /\ WholeIsUnsaid /\ LastIsThere
  BY DEF IInv
<1>1. ASSUME NEW p \in Publishers, AppendToLog(p) \/ TearLine(p)
      PROVE  In(e, log') \/ e \in glued'
  BY <1>0, <1>1, LogGrows
<1>2. CASE UNCHANGED <<log, tail, glued, refused>>
  BY <1>2
<1> QED
  BY <1>1, <1>2, LogMoves

\* Who touches the channels and what was got from them.
LEMMA StreamMoves ==
  ASSUME [Next]_vars
  PROVE  \/ UNCHANGED <<got, buf>>
         \/ \E p \in Publishers, c \in Clients : Send(p, c)
         \/ \E c \in Clients : Deliver(c)
         \/ \E cs \in SUBSET Clients : Gone(cs)
<1>1. CASE Submit \/ Reject \/ RunStep
  BY <1>1 DEF Submit, Reject, RunStep, Start, Progress, Activate, PersistEnd, Complete, EndBadly, clientVars
<1>2. ASSUME NEW p \in Publishers, AppendToLog(p) \/ FanOut(p) \/ FannedOut(p) PROVE UNCHANGED <<got, buf>>
  BY <1>2 DEF AppendToLog, FanOut, FannedOut, clientVars
<1>3. ASSUME NEW c \in Clients, Accept(c) \/ Subscribe(c) \/ CatchUp(c) PROVE UNCHANGED <<got, buf>>
  BY <1>3 DEF Accept, Subscribe, CatchUp
<1>4. ASSUME NEW c \in Clients, Unsubscribe(c) PROVE \E cs \in SUBSET Clients : Gone(cs)
  BY <1>4 DEF Unsubscribe
<1>5. CASE WatchStep
  BY <1>5 DEF WatchStep, WatchCreated, WatchEvents, WatchStatus, clientVars
<1>6. CASE Crash \/ (\E p \in Publishers : TearLine(p))
  <2>1. Connected \subseteq Clients
    BY DEF Connected
  <2> QED
    BY <1>6, <2>1 DEF Crash, TearLine, Die
<1>7. CASE Restart \/ Listen \/ Rest \/ UNCHANGED vars
  BY <1>7 DEF Restart, Listen, Rest, vars, clientVars
<1> QED
  BY <1>1, <1>2, <1>3, <1>4, <1>5, <1>6, <1>7 DEF Next, PublishStep, ClientStep

\* What a client gets, or is about to, it was about to get already, or a publisher
\* that is fanning out sends it.
LEMMA StreamOnly ==
  ASSUME IInv, [Next]_vars, NEW c \in Clients, NEW e \in Events, In(e, got'[c]) \/ In(e, buf'[c])
  PROVE  In(e, got[c]) \/ In(e, buf[c]) \/ \E p \in Publishers : msg[p] = e /\ at[p] = 2
<1> DEFINE Sent == \E p \in Publishers : msg[p] = e /\ at[p] = 2
<1> DEFINE Goal == In(e, got[c]) \/ In(e, buf[c]) \/ Sent
<1> SUFFICES Goal
  OBVIOUS
<1>0. Ranges /\ BusIsHeld
  BY DEF IInv
<1>h. In(e, got'[c]) \/ In(e, buf'[c])
  OBVIOUS
<1>1. CASE UNCHANGED <<got, buf>>
  BY <1>h, <1>1
<1>2. ASSUME NEW p \in Publishers, NEW k \in Clients, Send(p, k) PROVE Goal
  <2>1. msg[p] \in Events /\ at[p] = 2
    BY <1>0, <1>2, MsgIs, PublisherIs DEF Send, BusIsHeld
  <2>2. buf[c] \in Seq(Events) /\ (buf'[c] = buf[c] \/ buf'[c] = Append(buf[c], msg[p])) /\ got' = got
    BY <1>0, <1>2 DEF Ranges, Send
  <2>3. In(e, Append(buf[c], msg[p])) <=> In(e, buf[c]) \/ e = msg[p]
    BY <2>1, <2>2, InAppend
  <2>4. In(e, got[c]) \/ In(e, buf[c]) \/ e = msg[p]
    BY <1>h, <2>2, <2>3
  <2> QED
    BY <2>1, <2>4
<1>3. ASSUME NEW k \in Clients, Deliver(k) PROVE Goal
  <2>1. CASE k = c
    <3>1. buf[c] \in Seq(Events) /\ buf[c] # <<>> /\ got[c] \in Seq(Events)
          /\ buf'[c] = Tail(buf[c]) /\ got'[c] = Append(got[c], Head(buf[c]))
      BY <1>0, <1>3, <2>1 DEF Ranges, Deliver
    <3>2. /\ In(e, buf[c]) <=> e = Head(buf[c]) \/ In(e, Tail(buf[c]))
          /\ Head(buf[c]) \in Events
      BY <3>1, InHeadTail
    <3>3. In(e, got'[c]) <=> In(e, got[c]) \/ e = Head(buf[c])
      BY <3>1, <3>2, InAppend
    <3> QED
      BY <1>h, <3>1, <3>2, <3>3
  <2>2. CASE k # c
    BY <1>0, <1>h, <1>3, <2>2 DEF Deliver, Ranges
  <2> QED
    BY <2>1, <2>2
<1>4. ASSUME NEW cs \in SUBSET Clients, Gone(cs) PROVE Goal
  <2>1. CASE c \in cs
    <3>1. got'[c] = <<>> /\ buf'[c] = <<>>
      BY <1>4, <2>1 DEF Gone
    <3> QED
      BY <1>h, <3>1, InEmpty
  <2>2. CASE c \notin cs
    BY <1>h, <1>4, <2>2 DEF Gone
  <2> QED
    BY <2>1, <2>2
<1> QED
  BY <1>1, <1>2, <1>3, <1>4, StreamMoves

\* Only what was appended is sent, and only what was sent is got.
LEMMA NothingElseStreamedStep ==
  ASSUME IInv, [Next]_vars
  PROVE  NothingElseStreamed'
<1>0. Ranges /\ BusIsHeld /\ WholeIsUnsaid /\ NothingElseStreamed
  BY DEF IInv
<1>1. ASSUME NEW p \in Publishers, msg[p] # None, at[p] = 2
      PROVE  In(msg[p], log') \/ msg[p] \in glued'
  BY <1>0, <1>1, HistoryStays DEF NothingElseStreamed, WholeIsUnsaid
<1>2. ASSUME NEW p \in Publishers, msg'[p] # None, at'[p] = 2
      PROVE  In(msg'[p], log') \/ msg'[p] \in glued'
  <2>1. CASE msg'[p] = msg[p] /\ at'[p] = at[p]
    BY <1>1, <1>2, <2>1
  <2>2. CASE AppendToLog(p) /\ msg'[p] = msg[p] /\ UNCHANGED refused
    <3>1. msg[p] \in Events /\ log \in Seq(Events) /\ (tail = "whole" => log # <<>>)
      BY <1>0, <2>2, MsgIs DEF Ranges, AppendToLog, WholeIsUnsaid
    <3>2. CASE Grow(msg[p], "line")
      <4>1. log' = Append(log, msg[p]) \/ msg[p] \in glued'
        BY <1>0, <3>1, <3>2, GrowIs
      <4>2. In(msg[p], Append(log, msg[p]))
        BY <3>1, InAppend
      <4> QED
        BY <2>2, <4>1, <4>2
    <3>4. CASE msg' = [msg EXCEPT ![p] = None]
      BY <1>0, <1>2, <3>4 DEF Ranges
    <3> QED
      BY <2>2, <3>2, <3>4 DEF AppendToLog
  <2> QED
    BY <1>2, <2>1, <2>2, MsgMoves
<1>3. ASSUME NEW c \in Clients, NEW e \in Events, In(e, got'[c]) \/ In(e, buf'[c])
      PROVE  In(e, log') \/ e \in glued'
  <2>1. CASE In(e, got[c]) \/ In(e, buf[c])
    <3>1. In(e, log) \/ e \in glued
      BY <1>0, <2>1 DEF NothingElseStreamed
    <3>2. tail = "whole" => e # LastLine
      BY <1>0, <2>1 DEF WholeIsUnsaid
    <3> QED
      BY <3>1, <3>2, HistoryStays
  <2>2. ASSUME NEW p \in Publishers, msg[p] = e, at[p] = 2 PROVE In(e, log') \/ e \in glued'
    <3>1. e # None
      BY EventHas
    <3> QED
      BY <1>1, <2>2, <3>1
  <2> QED
    BY <1>3, <2>1, <2>2, StreamOnly
<1> QED
  BY <1>2, <1>3 DEF NothingElseStreamed

\* A line is left without its newline by a publisher that then gives its event up,
\* and no other event is the same.
LEMMA WholeIsUnsaidStep ==
  ASSUME IInv, [Next]_vars, PublishedOnce'
  PROVE  WholeIsUnsaid'
<1>0. Ranges /\ WholeIsUnsaid /\ PublishedOnce /\ NothingElseStreamed /\ LastIsThere
  BY DEF IInv
<1>1. log \in Seq(Events)
  BY <1>0 DEF Ranges
<1>2. CASE tail = "whole" /\ log' = log
  <2>1. log # <<>> /\ Len(log) \in 1..Len(log)
    BY <1>0, <1>1, <1>2, EmptySeq, LenProperties DEF WholeIsUnsaid
  <2>2. /\ LastLine \in Events /\ In(LastLine, log) /\ LastLine # None
        /\ LastLine' = LastLine
    BY <1>1, <1>2, <2>1, InSome, EventHas DEF LastLine
  <2> HIDE DEF LastLine
  <2>3. ASSUME NEW p \in Publishers PROVE msg'[p] # LastLine
    <3>1. msg[p] # LastLine
      BY <1>0, <1>2 DEF WholeIsUnsaid
    <3>2. CASE msg'[p] # None /\ at'[p] = 1
      BY <1>2, <2>2, <3>2 DEF PublishedOnce
    <3> QED
      BY <2>2, <3>1, <3>2, MsgMoves
  <2>4. ASSUME NEW c \in Clients PROVE ~In(LastLine, got'[c]) /\ ~In(LastLine, buf'[c])
    <3>1. /\ ~In(LastLine, got[c]) /\ ~In(LastLine, buf[c])
          /\ \A p \in Publishers : msg[p] # LastLine
      BY <1>0, <1>2 DEF WholeIsUnsaid
    <3> QED
      BY <2>2, <3>1, StreamOnly
  <2> QED
    BY <1>2, <2>1, <2>2, <2>3, <2>4 DEF WholeIsUnsaid
<1>3. ASSUME NEW p \in Publishers, AppendToLog(p) \/ TearLine(p), log' = Append(log, msg[p]),
             tail' = "whole"
      PROVE  WholeIsUnsaid'
  <2>1. msg[p] \in Events /\ msg[p] # None /\ at[p] = 1
    BY <1>0, <1>3, LogGrows
  <2>2. ~In(msg[p], log) /\ msg[p] \notin glued
    BY <1>0, <2>1 DEF PublishedOnce
  <2>3. log' # <<>> /\ LastLine' = msg[p]
    BY <1>1, <1>3, <2>1, AppendProperties, LenProperties DEF LastLine
  <2>4. msg'[p] = None /\ \A q \in Publishers : q # p => msg'[q] = msg[q] \/ msg'[q] = None
    <3>1. CASE TearLine(p)
      BY <1>0, <3>1, DieIs DEF TearLine
    <3>2. CASE AppendToLog(p) /\ msg' = [msg EXCEPT ![p] = None]
      BY <1>0, <3>2 DEF Ranges
    <3>3. CASE Grow(msg[p], "line")
      <4>1. tail' = "clean"
        BY <1>0, <2>1, <3>3, GrowIs DEF WholeIsUnsaid
      <4> QED
        BY <1>3, <4>1
    <3> QED
      BY <1>3, <3>1, <3>2, <3>3 DEF AppendToLog
  <2>5. \A q \in Publishers : q # p => msg[q] # msg[p]
    BY <1>0, <2>1, PublisherIs DEF PublishedOnce
  <2>6. \A q \in Publishers : msg'[q] # msg[p]
    BY <2>1, <2>4, <2>5
  <2>7. ASSUME NEW c \in Clients PROVE ~In(msg[p], got'[c]) /\ ~In(msg[p], buf'[c])
    <3>1. ~In(msg[p], got[c]) /\ ~In(msg[p], buf[c])
      BY <1>0, <2>1, <2>2 DEF NothingElseStreamed
    <3>2. \A q \in Publishers : msg[q] = msg[p] => at[q] = 1
      BY <2>1, <2>5
    <3> QED
      BY <2>1, <3>1, <3>2, StreamOnly
  <2> HIDE DEF LastLine
  <2> QED
    BY <2>3, <2>6, <2>7 DEF WholeIsUnsaid
<1>4. CASE tail' # "whole"
  BY <1>4 DEF WholeIsUnsaid
<1>5. ASSUME NEW p \in Publishers, AppendToLog(p) \/ TearLine(p) PROVE WholeIsUnsaid'
  BY <1>0, <1>2, <1>3, <1>4, <1>5, LogGrows
<1> QED
  BY <1>2, <1>4, <1>5, LogMoves

-----------------------------------------------------------------------------
(* A client that catches up misses nothing. *)

\* An event that is on its way to a client stays so if nothing that is the
\* client's is lost and whoever is publishing the event still is.
LEMMA ReachesStays ==
  ASSUME NEW c \in Clients, NEW e \in Events, Reaches(c, e),
         caughtUp'[c] = caughtUp[c], got'[c] = got[c], buf'[c] = buf[c],
         missed[c] \subseteq missed'[c], refused \subseteq refused',
         \A p \in Publishers : msg[p] = e /\ (lock = p => c \in todo) =>
           msg'[p] = e /\ (lock' = p => c \in todo')
  PROVE  Reaches(c, e)'
BY DEF Reaches

\* The handler takes an event off a channel: its client then has it (Deliver).
LEMMA ReachesDelivered ==
  ASSUME Ranges, NEW c \in Clients, NEW e \in Events, Reaches(c, e), NEW k \in Clients, Deliver(k)
  PROVE  Reaches(c, e)'
<1>1. UNCHANGED <<caughtUp, missed, refused, msg, lock, todo>>
  BY DEF Deliver, pubVars, busVars, logVars
<1>2. CASE k = c
  <2>1. buf[c] \in Seq(Events) /\ buf[c] # <<>> /\ got[c] \in Seq(Events)
        /\ buf'[c] = Tail(buf[c]) /\ got'[c] = Append(got[c], Head(buf[c]))
    BY <1>2 DEF Ranges, Deliver
  <2>2. /\ In(e, buf[c]) <=> e = Head(buf[c]) \/ In(e, Tail(buf[c]))
        /\ Head(buf[c]) \in Events
    BY <2>1, InHeadTail
  <2>3. In(e, Append(got[c], Head(buf[c]))) <=> In(e, got[c]) \/ e = Head(buf[c])
    BY <2>1, <2>2, InAppend
  <2>4. In(e, got[c]) \/ In(e, buf[c]) => In(e, got'[c]) \/ In(e, buf'[c])
    BY <2>1, <2>2, <2>3
  <2> QED
    BY <1>1, <2>4 DEF Reaches
<1>3. CASE k # c
  <2>1. got'[c] = got[c] /\ buf'[c] = buf[c]
    BY <1>3 DEF Deliver, Ranges
  <2> QED
    BY <1>1, <2>1, ReachesStays
<1> QED
  BY <1>2, <1>3

\* A send puts the event in the channel, or drops it because that is full (Send).
LEMMA ReachesSent ==
  ASSUME Ranges, BusIsHeld, NEW c \in Clients, NEW e \in Events, Reaches(c, e),
         NEW p \in Publishers, NEW k \in Clients, Send(p, k)
  PROVE  Reaches(c, e)'
<1>1. /\ UNCHANGED <<caughtUp, got, refused, msg, lock>> /\ lock = p
      /\ k \in todo /\ todo' = todo \ {k}
  BY DEF Send, pubVars, logVars
<1>2. msg[p] \in Events
  BY <1>1, MsgIs, PublisherIs DEF BusIsHeld
<1>3. CASE k # c
  <2>1. buf'[c] = buf[c] /\ missed'[c] = missed[c]
    BY <1>3 DEF Send, Ranges
  <2> QED
    BY <1>1, <1>3, <2>1, ReachesStays
<1>4. CASE k = c /\ buf'[c] = Append(buf[c], msg[p]) /\ missed' = missed
  <2>1. In(e, Append(buf[c], msg[p])) <=> In(e, buf[c]) \/ e = msg[p]
    BY <1>2, InAppend DEF Ranges
  <2> QED
    BY <1>1, <1>4, <2>1 DEF Reaches
<1>5. CASE k = c /\ missed'[c] = missed[c] \cup {msg[p]} /\ buf' = buf
  BY <1>1, <1>5 DEF Reaches
<1>6. CASE k = c
  <2>1. c \in DOMAIN buf /\ c \in DOMAIN missed
    BY DEF Ranges
  <2> QED
    BY <1>4, <1>5, <1>6, <2>1 DEF Send
<1> QED
  BY <1>3, <1>6

\* What the log took is about to be sent to whoever is subscribed, or its Append
\* returned an error (AppendToLog).
LEMMA ReachesAppended ==
  ASSUME IInv, NEW c \in Clients, NEW e \in Events, In(e, log) => Reaches(c, e),
         NEW p \in Publishers, AppendToLog(p), In(e, log')
  PROVE  Reaches(c, e)'
<1>0. Ranges /\ BusIsHeld /\ PublishedOnce /\ WholeIsUnsaid /\ LastIsThere
  BY DEF IInv
<1>1. /\ UNCHANGED <<caughtUp, got, buf, missed, lock, todo>>
      /\ at[p] = 1 /\ msg[p] \in Events /\ msg[p] # None
      /\ refused \subseteq refused'
      /\ In(e, log) \/ e = msg[p]
  BY <1>0, LogGrows DEF AppendToLog, busVars, clientVars
<1>2. lock # p
  BY <1>0, <1>1, PublisherIs DEF BusIsHeld
<1>3. CASE PublishGoesOn(p)
  <2>1. msg' = msg
    BY <1>1, <1>3 DEF PublishGoesOn
  <2>2. CASE In(e, log)
    BY <1>1, <2>1, <2>2, ReachesStays
  <2>3. CASE e = msg[p]
    BY <1>1, <1>2, <2>1, <2>3 DEF Reaches
  <2> QED
    BY <1>1, <2>2, <2>3
<1>4. CASE refused' = refused \cup {msg[p]} /\ msg' = [msg EXCEPT ![p] = None]
  <2>1. CASE e = msg[p]
    BY <1>4, <2>1 DEF Reaches
  <2>2. CASE e # msg[p]
    <3>1. In(e, log) /\ Reaches(c, e)
      BY <1>1, <2>2
    <3>2. \A q \in Publishers : msg[q] = e => msg'[q] = e
      BY <1>0, <1>4, <2>2 DEF Ranges
    <3> QED
      BY <1>1, <3>1, <3>2, ReachesStays
  <2> QED
    BY <2>1, <2>2
<1> QED
  BY <1>3, <1>4 DEF AppendToLog

\* A step of somebody else: the client keeps what it has, and whoever was
\* publishing the event has not given it up.
LEMMA ReachesElsewhere ==
  ASSUME IInv, [Next]_vars, NEW c \in Clients, NEW e \in Events, Reaches(c, e),
         UNCHANGED <<caughtUp, got, buf, missed, refused, lock, todo>>,
         \A p \in Publishers : msg[p] = e => msg'[p] # None
  PROVE  Reaches(c, e)'
<1>1. ASSUME NEW p \in Publishers, msg[p] = e PROVE msg'[p] = e
  BY <1>1, MsgMoves, EventHas
<1> QED
  BY <1>1, ReachesStays

\* No order of append, fan-out, subscription and catching up leaves a gap.
LEMMA NoGapStep ==
  ASSUME IInv, [Next]_vars
  PROVE  NoGap'
<1>0. Ranges /\ BusIsHeld /\ SilentWhenIdle /\ NoGap
  BY DEF IInv
<1>e. life \in 0..MaxRestarts /\ n \in 0..Steps /\ Steps \in Nat \ {0} /\ MaxRestarts \in Nat
      /\ 0 \in 0..Steps
  BY <1>0, EventsAssumption DEF Ranges
<1>1. \A c \in Clients, e \in Events :
        caughtUp[c] # None /\ In(e, log) => Reaches(c, e)
  BY <1>0 DEF NoGap
<1>2. \A c \in Clients : c \notin Connected => caughtUp[c] = None
  BY <1>0 DEF NoGap
\* Who subscribes and who read the history change only with a client's own step.
<1>g. ASSUME UNCHANGED <<conn, caughtUp>>,
             \A c \in Clients, e \in Events :
               caughtUp[c] # None /\ In(e, log') => Reaches(c, e)'
      PROVE  NoGap'
  BY <1>2, <1>g DEF NoGap, Connected
<1>q. ASSUME UNCHANGED <<caughtUp, got, buf, missed, conn, lock, todo, log, refused>>,
             \A p \in Publishers : msg'[p] = None => msg[p] = None
      PROVE  NoGap'
  <2>1. ASSUME NEW c \in Clients, NEW e \in Events,
               caughtUp[c] # None, In(e, log')
        PROVE  Reaches(c, e)'
    <3>1. Reaches(c, e)
      BY <1>1, <1>q, <2>1
    <3> QED
      BY <1>q, <3>1, ReachesElsewhere, EventHas
  <2> QED
    BY <1>g, <1>q, <2>1
<1>b. ASSUME NEW p \in Publishers, NEW ev \in Events, Begin(p, ev),
             UNCHANGED <<busVars, clientVars, logVars>>
      PROVE  NoGap'
  <2>1. \A q \in Publishers : msg'[q] = None => msg[q] = None
    BY <1>0, <1>b, BeginIs, EventHas
  <2> QED
    BY <1>b, <1>q, <2>1 DEF busVars, clientVars, logVars
<1>s. CASE Submit
  BY <1>s, <1>b, <1>e, EventIs, PublisherIs DEF Submit
<1>t. CASE Start
  BY <1>t, <1>b, <1>e, EventIs, PublisherIs DEF Start, Step
<1>p. CASE Progress
  BY <1>p, <1>b, <1>e, EventIs, PublisherIs DEF Progress, Step
<1>c. CASE Complete
  BY <1>c, <1>b, <1>e, EventIs, PublisherIs DEF Complete
<1>d. ASSUME NEW s \in {"failed", "cancelled"}, EndBadly(s) PROVE NoGap'
  BY <1>d, <1>b, <1>e, EventIs, PublisherIs DEF EndBadly
<1>r. CASE Reject \/ Activate \/ PersistEnd \/ Listen
  <2>1. UNCHANGED <<caughtUp, got, buf, missed, conn, lock, todo, log, refused, msg>>
    BY <1>r DEF Reject, Activate, PersistEnd, Listen, pubVars, busVars, clientVars, logVars
  <2> QED
    BY <1>q, <2>1
<1>m. CASE Restart
  <2>1. CASE UNCHANGED pubVars
    BY <1>m, <1>q, <2>1 DEF Restart, pubVars, busVars, clientVars, logVars
  <2>2. CASE Begin("run", <<life + 1, "failed", 0>>)
    <3>1. <<life + 1, "failed", 0>> \in Events
      BY <1>m, <1>e, EventIs DEF Restart
    <3> QED
      BY <1>m, <1>b, <2>2, <3>1, PublisherIs DEF Restart
  <2> QED
    BY <1>m, <2>1, <2>2 DEF Restart
<1>x. CASE WatchStep \/ UNCHANGED vars
  <2>1. UNCHANGED <<caughtUp, got, buf, missed, conn, lock, todo, log, refused, msg>>
    BY <1>x DEF WatchStep, WatchCreated, WatchEvents, WatchStatus, vars, pubVars, busVars, clientVars, logVars
  <2> QED
    BY <1>q, <2>1
<1>l. ASSUME NEW p \in Publishers, AppendToLog(p) PROVE NoGap'
  <2>1. UNCHANGED <<conn, caughtUp>>
    BY <1>l DEF AppendToLog, clientVars
  <2>2. \A c \in Clients, e \in Events :
          caughtUp[c] # None /\ In(e, log') => Reaches(c, e)'
    BY <1>1, <1>l, ReachesAppended
  <2> QED
    BY <1>g, <2>1, <2>2
<1>f. ASSUME NEW p \in Publishers, FanOut(p) PROVE NoGap'
  <2>1. UNCHANGED <<conn, caughtUp, got, buf, log, refused, msg>> /\ lock = None /\ lock' = p
        /\ \A c \in Clients : conn[c] = "open" => c \in todo'
    BY <1>f DEF FanOut, Subscribed, pubVars, logVars
  <2>4. \A c \in Clients :
          /\ missed[c] \subseteq missed'[c]
          /\ conn[c] = "accepted" /\ caughtUp[c] # None => msg[p] \in missed'[c]
    BY <1>f DEF FanOut
  <2>2. ASSUME NEW c \in Clients, NEW e \in Events,
               caughtUp[c] # None, In(e, log')
        PROVE  Reaches(c, e)'
    <3>1. Reaches(c, e)
      BY <1>1, <2>1, <2>2
    <3>2. CASE conn[c] = "open"
      BY <2>1, <2>4, <3>1, <3>2, ReachesStays
    <3>3. CASE conn[c] = "accepted" /\ e = msg[p]
      BY <2>2, <2>4, <3>3 DEF Reaches
    <3>4. CASE e # msg[p]
      BY <2>1, <2>4, <3>1, <3>4, ReachesStays
    <3> QED
      BY <1>2, <2>2, <3>2, <3>3, <3>4 DEF Connected
  <2> QED
    BY <1>g, <2>1, <2>2
<1>h. ASSUME NEW p \in Publishers, NEW k \in Clients, Send(p, k) PROVE NoGap'
  <2>1. UNCHANGED <<conn, caughtUp, log>>
    BY <1>h DEF Send, logVars
  <2>2. \A c \in Clients, e \in Events :
          caughtUp[c] # None /\ In(e, log') => Reaches(c, e)'
    BY <1>0, <1>1, <1>h, <2>1, ReachesSent
  <2> QED
    BY <1>g, <2>1, <2>2
<1>o. ASSUME NEW p \in Publishers, FannedOut(p) PROVE NoGap'
  <2>1. UNCHANGED <<conn, caughtUp, got, buf, missed, log, refused, todo>> /\ lock = p /\ todo = {} /\ lock' = None
    BY <1>o DEF FannedOut, clientVars, logVars
  <2>2. \A q \in Publishers : q # p => msg'[q] = msg[q]
    <3>1. PublishGoesOn(p)
      BY <1>o DEF FannedOut
    <3> QED
      BY <1>0, <3>1, GoesOnIs
  <2>3. ASSUME NEW c \in Clients, NEW e \in Events,
               caughtUp[c] # None, In(e, log')
        PROVE  Reaches(c, e)'
    BY <1>1, <2>1, <2>2, <2>3, ReachesStays, PublisherIs
  <2> QED
    BY <1>g, <2>1, <2>3
<1>n. ASSUME NEW k \in Clients, Accept(k) \/ Subscribe(k) PROVE NoGap'
  <2>1. UNCHANGED <<caughtUp, got, buf, missed, log, refused, msg, lock, todo>>
        /\ Connected \subseteq Connected'
    BY <1>0, <1>n DEF Accept, Subscribe, Connected, Ranges, busVars, pubVars, logVars
  <2>2. ASSUME NEW c \in Clients, NEW e \in Events,
               caughtUp'[c] # None, In(e, log')
        PROVE  Reaches(c, e)'
    BY <1>1, <2>1, <2>2, ReachesStays
  <2>3. \A c \in Clients : c \notin Connected' => caughtUp'[c] = None
    BY <1>2, <2>1
  <2> QED
    BY <2>2, <2>3 DEF NoGap
<1>u. ASSUME NEW k \in Clients, CatchUp(k) PROVE NoGap'
  <2>1. /\ UNCHANGED <<conn, got, buf, missed, log, refused, msg, lock, todo>> /\ k \in Connected
        /\ caughtUp'[k] = log
        /\ \A c \in Clients : c # k => caughtUp'[c] = caughtUp[c]
    <3>1. Since(0) = log
      BY <1>0, SubSeqFull DEF Since, Ranges
    <3> QED
      BY <1>0, <1>u, <3>1 DEF CatchUp, Ranges, busVars, pubVars, logVars
  <2>2. ASSUME NEW c \in Clients, NEW e \in Events,
               caughtUp'[c] # None, In(e, log')
        PROVE  Reaches(c, e)'
    <3>1. CASE c = k
      BY <2>1, <2>2, <3>1 DEF Reaches
    <3>2. CASE c # k
      BY <1>1, <2>1, <2>2, <3>2, ReachesStays
    <3> QED
      BY <3>1, <3>2
  <2>3. \A c \in Clients : c \notin Connected' => caughtUp'[c] = None
    BY <1>2, <2>1 DEF Connected
  <2> QED
    BY <2>2, <2>3 DEF NoGap
<1>v. ASSUME NEW k \in Clients, Deliver(k) PROVE NoGap'
  <2>1. UNCHANGED <<conn, caughtUp, log>>
    BY <1>v DEF Deliver, logVars
  <2>2. \A c \in Clients, e \in Events :
          caughtUp[c] # None /\ In(e, log') => Reaches(c, e)'
    BY <1>0, <1>1, <1>v, <2>1, ReachesDelivered
  <2> QED
    BY <1>g, <2>1, <2>2
<1>w. ASSUME NEW k \in Clients, Unsubscribe(k) PROVE NoGap'
  <2>1. UNCHANGED <<log, refused, msg, lock, todo>> /\ Gone({k})
    BY <1>w DEF Unsubscribe, busVars, pubVars, logVars
  <2>2. /\ conn'[k] = "closed" /\ caughtUp'[k] = None
        /\ \A c \in Clients : c # k =>
             /\ conn'[c] = conn[c] /\ caughtUp'[c] = caughtUp[c] /\ got'[c] = got[c]
             /\ buf'[c] = buf[c] /\ missed'[c] = missed[c]
    BY <2>1 DEF Gone
  <2>3. ASSUME NEW c \in Clients, NEW e \in Events,
               caughtUp'[c] # None, In(e, log')
        PROVE  Reaches(c, e)'
    BY <1>1, <2>1, <2>2, <2>3, ReachesStays
  <2>4. \A c \in Clients : c \notin Connected' => caughtUp'[c] = None
    BY <1>2, <2>2 DEF Connected
  <2> QED
    BY <2>3, <2>4 DEF NoGap
<1>k. CASE Die
  <2>1. \A c \in Clients : caughtUp'[c] = None
    BY <1>2, <1>k DEF Die, Gone
  <2> QED
    BY <2>1 DEF NoGap
<1> QED
  BY <1>s, <1>t, <1>p, <1>c, <1>d, <1>r, <1>m, <1>x, <1>l, <1>f, <1>h, <1>o, <1>n, <1>u, <1>v, <1>w, <1>k
  DEF Next, RunStep, PublishStep, ClientStep, Crash, TearLine, Rest

-----------------------------------------------------------------------------
(* The last end of the history and the end of the record. *)

\* What a log that is left alone keeps.
LEMMA EndsKept ==
  ASSUME UNCHANGED <<log, tail, refused, glued>>
  PROVE  /\ EndsOf(log)' = EndsOf(log) /\ LastEnd' = LastEnd
         /\ LastIsThere => LastIsThere'
         /\ \A s : Firm(s)' <=> Firm(s)
         /\ \A s : NotedLost(s)' <=> NotedLost(s)
<1>1. EndsOf(log)' = EndsOf(log) /\ LastEnd' = LastEnd /\ LastLine' = LastLine
  BY DEF EndsOf, LastEnd, LastLine
<1>2. LastIsThere => LastIsThere'
  BY DEF LastIsThere
<1> QED
  BY <1>1, <1>2 DEF Firm, NotedLost

\* A line that is no longer there, or not yet, leaves the last end as it is if it
\* is none.
LEMMA FirmStays ==
  ASSUME Ranges, LastEnd' = LastEnd, tail' = "whole" => Type(LastLine') \notin Ends, NEW s
  PROVE  Firm(s) => Firm(s)'
BY DEF Firm

\* An event that a publisher appends, or is killed at: it is the last end now if it
\* is one, or it is lost and noted; and if it is none, the last end stays.
LEMMA EndsGrow ==
  ASSUME Ranges, WholeIsUnsaid, LastIsThere, NEW p \in Publishers, AppendToLog(p) \/ TearLine(p)
  PROVE  /\ LastIsThere'
         /\ Type(msg[p]) \in Ends /\ AppendToLog(p) =>
              (LastEnd' = Type(msg[p]) /\ tail' = "clean") \/ msg[p] \in refused' \cup glued'
         /\ Type(msg[p]) \notin Ends => \A s : Firm(s) => Firm(s)'
         /\ Type(msg[p]) \notin Ends /\ EndsOf(log) = {} => EndsOf(log') = {}
         /\ \A s : NotedLost(s) => NotedLost(s)'
<1>0. msg[p] \in Events /\ log \in Seq(Events) /\ (tail = "whole" => log # <<>>)
  BY LogGrows DEF Ranges, WholeIsUnsaid
<1>1. \A s : NotedLost(s) => NotedLost(s)'
  <2>1. refused \subseteq refused' /\ glued \subseteq glued'
    BY LogGrows
  <2> QED
    BY <2>1 DEF NotedLost
<1>2. CASE tail = "clean" /\ log' = Append(log, msg[p])
  <2>1. /\ LastIsThere'
        /\ Type(msg[p]) \in Ends => LastEnd' = Type(msg[p])
        /\ Type(msg[p]) \notin Ends => LastEnd' = LastEnd /\ EndsOf(log') = EndsOf(log)
    BY <1>0, <1>2, LastEndGrows
  <2>2. LastLine' = msg[p]
    BY <1>0, <1>2, AppendProperties, LenProperties DEF LastLine
  <2> HIDE DEF LastLine
  <2>3. CASE Type(msg[p]) \notin Ends
    <3>1. \A s : Firm(s) => Firm(s)'
      BY <2>1, <2>2, <2>3, FirmStays
    <3> QED
      BY <1>1, <2>1, <2>3, <3>1
  <2>4. ASSUME Type(msg[p]) \in Ends, AppendToLog(p)
        PROVE  (LastEnd' = Type(msg[p]) /\ tail' = "clean") \/ msg[p] \in refused' \cup glued'
    <3>1. CASE refused' = refused \cup {msg[p]}
      BY <3>1
    <3>2. CASE Grow(msg[p], "line") /\ PublishGoesOn(p)
      <4>1. tail' = "clean"
        BY <1>0, <3>2, GrowIs
      <4> QED
        BY <2>1, <2>4, <4>1
    <3> QED
      BY <2>4, <3>1, <3>2 DEF AppendToLog
  <2> QED
    BY <1>1, <2>1, <2>3, <2>4
<1>3. CASE log' # Append(log, msg[p]) \/ tail # "clean"
  <2>3. LastIsThere' /\ (\A s : Firm(s) => Firm(s)') /\ (EndsOf(log) = {} => EndsOf(log') = {})
    <3>1. CASE tail = "clean" /\ log' = Append(log, msg[p])
      BY <1>3, <3>1
    <3>2. CASE tail = "whole" /\ tail' # "whole" /\ log' = SubSeq(log, 1, Len(log) - 1)
      <4>1. LastIsThere' /\ EndsOf(log') \subseteq EndsOf(log) /\ (\A s : Firm(s) => Firm(s)')
        BY <1>0, <3>2, LastEndShrinks DEF Firm
      <4> QED
        BY <4>1
    <3>3. CASE log' = log /\ (tail' = "whole" <=> tail = "whole")
      <4>1. EndsOf(log)' = EndsOf(log) /\ LastEnd' = LastEnd /\ LastIsThere' /\ LastLine' = LastLine
        BY <3>3 DEF EndsOf, LastEnd, LastIsThere, LastLine
      <4>2. \A s : Firm(s) => Firm(s)'
        BY <3>3, <4>1 DEF Firm
      <4> QED
        BY <4>1, <4>2 DEF EndsOf
    <3> QED
      BY <3>1, <3>2, <3>3, LogGrows
  <2>4. ASSUME AppendToLog(p) PROVE msg[p] \in refused' \cup glued'
    <3>1. CASE refused' = refused \cup {msg[p]}
      BY <3>1
    <3>2. CASE Grow(msg[p], "line")
      <4>1. log' = Append(log, msg[p]) \/ msg[p] \in glued'
        BY <1>0, <3>2, GrowIs
      <4>2. CASE tail # "clean"
        BY <3>2, <4>2 DEF Grow
      <4> QED
        BY <1>3, <4>1, <4>2
    <3> QED
      BY <2>4, <3>1, <3>2 DEF AppendToLog
  <2> QED
    BY <1>1, <2>3, <2>4
<1> QED
  BY <1>2, <1>3

\* An Append of the run's event notes the end it says (EndIsNoted), and one of the
\* handler's is no end.
LEMMA EndIsNotedAppend ==
  ASSUME IInv, NEW p \in Publishers, AppendToLog(p)
  PROVE  EndIsNoted'
<1>0. Ranges /\ SilentWhenIdle /\ PublishedOnce /\ WholeIsUnsaid /\ LastIsThere /\ EndIsNoted
  BY DEF IInv
<1>1. UNCHANGED <<handler, record, run, end>>
  BY DEF AppendToLog, jobVars
<1>2. /\ msg[p] # None /\ at[p] = 1
      /\ Type(msg[p]) \in Ends =>
           (LastEnd' = Type(msg[p]) /\ tail' = "clean") \/ msg[p] \in refused' \cup glued'
      /\ Type(msg[p]) \notin Ends => \A s : Firm(s) => Firm(s)'
      /\ Type(msg[p]) \notin Ends /\ EndsOf(log) = {} => EndsOf(log)' = {}
      /\ \A s : NotedLost(s) => NotedLost(s)'
  BY <1>0, LogGrows, EndsGrow DEF EndsOf
<1>3. /\ \A q \in Publishers : q # p => msg'[q] = msg[q] /\ at'[q] = at[q]
      /\ msg'[p] = None \/ msg'[p] = msg[p]
  <2>0. msg \in [Publishers -> Events \cup {None}] /\ at \in [Publishers -> 1..2]
    BY <1>0 DEF Ranges
  <2>1. CASE PublishGoesOn(p)
    BY <1>2, <2>0, <2>1 DEF PublishGoesOn
  <2>2. CASE msg' = [msg EXCEPT ![p] = None] /\ UNCHANGED at
    <3>1. msg'[p] = None
      BY <2>0, <2>2
    <3>2. \A q \in Publishers : q # p => msg'[q] = msg[q] /\ at'[q] = at[q]
      BY <2>0, <2>2
    <3> QED
      BY <3>1, <3>2
  <2> QED
    BY <2>1, <2>2 DEF AppendToLog
<1>4. CASE p = "handler"
  <2>1. Type(msg[p]) \notin Ends
    BY <1>0, <1>2, <1>4 DEF PublishedOnce, Ends
  <2>2. (\A s : Firm(s) => Firm(s)') /\ (EndsOf(log) = {} => EndsOf(log)' = {})
    BY <1>2, <2>1
  <2>3. msg'["run"] = msg["run"] /\ at'["run"] = at["run"]
    BY <1>3, <1>4, PublisherIs
  <2>4. handler # "rejected"
    BY <1>0, <1>2, <1>4 DEF SilentWhenIdle
  <2>5. (Firm(end) => Firm(end)') /\ (NotedLost(end) => NotedLost(end)')
    BY <1>1, <1>2, <2>2 DEF Firm, NotedLost
  <2>6. (Firm(record) => Firm(record)') /\ (NotedLost(record) => NotedLost(record)')
    BY <1>1, <1>2, <2>2 DEF Firm, NotedLost
  <2> QED
    BY <1>0, <1>1, <2>2, <2>3, <2>4, <2>5, <2>6 DEF EndIsNoted
<1>5. CASE p = "run"
  <2>1. handler \notin {"submitting", "rejected"}
    BY <1>0, <1>2, <1>5 DEF EndIsNoted
  <2>2. run = "running" \/ run = "ending" \/ run = "over"
    BY <1>0, <1>2, <1>5 DEF SilentWhenIdle, Ranges
  <2>3. ASSUME NEW s \in Ends, Type(msg[p]) = s PROVE Firm(s)' \/ NotedLost(s)'
    BY <1>2, <2>3 DEF NotedLost, Firm
  <2>4. CASE run = "running"
    BY <1>0, <1>1, <1>3, <1>5, <2>1, <2>4 DEF EndIsNoted
  <2>5. CASE run = "ending"
    <3>1. end \in Ends /\ Type(msg[p]) = end /\ record \notin Ends
      BY <1>0, <1>2, <1>5, <2>5 DEF EndIsNoted, Ends
    <3>2. Firm(end)' \/ NotedLost(end)'
      <4>1. PICK s \in Ends : s = end
        BY <3>1
      <4>2. Firm(s)' \/ NotedLost(s)'
        BY <2>3, <3>1, <4>1
      <4> QED
        BY <1>1, <4>1, <4>2 DEF NotedLost, Firm
    <3> QED
      BY <1>0, <1>1, <1>3, <1>5, <2>1, <2>5, <3>1, <3>2 DEF EndIsNoted
  <2>6. CASE run = "over"
    <3>1. record \in Ends /\ Type(msg[p]) = record /\ record = "completed"
      BY <1>0, <1>2, <1>5, <2>6 DEF EndIsNoted
    <3>2. Firm(record)' \/ NotedLost(record)'
      <4>1. PICK s \in Ends : s = record
        BY <3>1
      <4>2. Firm(s)' \/ NotedLost(s)'
        BY <2>3, <3>1, <4>1
      <4> QED
        BY <1>1, <4>1, <4>2 DEF NotedLost, Firm
    <3> QED
      BY <1>0, <1>1, <1>3, <1>5, <2>1, <2>6, <3>1, <3>2 DEF EndIsNoted
  <2> QED
    BY <2>2, <2>4, <2>5, <2>6
<1> QED
  BY <1>4, <1>5, PublisherIs

\* A process killed while it appends: it takes with it at most an end that nobody
\* has recorded, or the event of a completion that is.
LEMMA EndIsNotedTorn ==
  ASSUME IInv, NEW p \in Publishers, TearLine(p)
  PROVE  EndIsNoted'
<1>0. Ranges /\ SilentWhenIdle /\ PublishedOnce /\ WholeIsUnsaid /\ LastIsThere /\ EndIsNoted
  BY DEF IInv
<1>1. /\ run' = "off" /\ msg'["run"] = None /\ record' = record
      /\ handler' \in {handler, "broken"} /\ handler' # "submitting"
  BY <1>0, DieIs, PublisherIs DEF TearLine, Die, SilentWhenIdle
<1>2. msg[p] # None
  BY <1>0, LogGrows
<1>3. CASE msg["run"] # None
  <2>1. handler \notin {"submitting", "rejected"} /\ (record \in Ends => record = "completed")
    BY <1>0, <1>3 DEF EndIsNoted
  <2> QED
    BY <1>1, <2>1 DEF EndIsNoted
<1>4. CASE msg["run"] = None
  <2>1. p = "handler" /\ Type(msg[p]) \notin Ends
    BY <1>0, <1>2, <1>4, PublisherIs DEF PublishedOnce, Ends
  <2>2. handler # "rejected"
    BY <1>0, <1>2, <2>1 DEF SilentWhenIdle
  <2>3. (Firm(record) => Firm(record)') /\ (NotedLost(record) => NotedLost(record)')
    <3>1. (\A s : Firm(s) => Firm(s)') /\ (\A s : NotedLost(s) => NotedLost(s)')
      BY <1>0, <2>1, EndsGrow
    <3> QED
      BY <1>1, <3>1 DEF Firm, NotedLost
  <2>4. record \in Ends => Firm(record) \/ (record = "completed" /\ run = "off") \/ NotedLost(record)
    BY <1>0, <1>4, <2>2 DEF EndIsNoted
  <2> QED
    BY <1>1, <2>2, <2>3, <2>4 DEF EndIsNoted
<1> QED
  BY <1>3, <1>4

\* The run's two orders, the handler's and recovery's all note the end they record.
LEMMA EndIsNotedStep ==
  ASSUME IInv, [Next]_vars
  PROVE  EndIsNoted' /\ LastIsThere'
<1>0. Ranges /\ BusIsHeld /\ SilentWhenIdle /\ WholeIsUnsaid /\ LastIsThere /\ EndIsNoted
  BY DEF IInv
<1>e. life \in 0..MaxRestarts /\ n \in 0..Steps /\ Steps \in Nat \ {0} /\ MaxRestarts \in Nat
      /\ 0 \in 0..Steps
  BY <1>0, EventsAssumption DEF Ranges
<1>1. CASE \E p \in Publishers : AppendToLog(p) \/ TearLine(p)
  BY <1>0, <1>1, EndsGrow, EndIsNotedAppend, EndIsNotedTorn
<1>2. CASE UNCHANGED <<log, tail, refused, glued>>
  <2> SUFFICES EndIsNoted'
    BY <1>0, <1>2, EndsKept
  <2>k. /\ EndsOf(log)' = EndsOf(log) /\ LastEnd' = LastEnd
        /\ \A s : NotedLost(s)' <=> NotedLost(s)
        /\ \A s : Firm(s)' <=> Firm(s)
    BY <1>2, EndsKept
  <2>l. LastLine' = LastLine
    BY <1>2 DEF LastLine
  <2>n. EndsOf(log) = {} => LastEnd = None
    BY DEF LastEnd
  <2>s. CASE Submit
    <3>1. msg'["run"] = msg["run"]
      BY <1>0, <1>e, <2>s, EventIs, BeginIs, PublisherIs DEF Submit
    <3> QED
      BY <1>0, <2>s, <3>1 DEF Submit, SilentWhenIdle, EndIsNoted, Ends
  <2>r. CASE Reject
    BY <1>0, <2>r, <2>k, <2>n DEF Reject, SilentWhenIdle, EndIsNoted, Ends, pubVars
  <2>b. CASE Start
    <3>1. msg'["run"] = Step(life, 0)
      BY <1>0, <1>e, <2>b, EventIs, BeginIs, PublisherIs DEF Start, Step
    <3>2. Type(msg'["run"]) = "step"
      BY <1>e, <3>1, EventIs DEF Step
    <3> QED
      BY <1>0, <2>b, <3>2 DEF Start, EndIsNoted, Ends
  <2>p. CASE Progress
    <3>0. n + 1 \in 0..Steps
      BY <1>e, <2>p DEF Progress
    <3>1. msg'["run"] = Step(life, n + 1)
      BY <1>0, <1>e, <2>p, <3>0, EventIs, BeginIs, PublisherIs DEF Progress, Step
    <3>2. Type(msg'["run"]) = "step"
      BY <1>e, <3>0, <3>1, EventIs DEF Step
    <3> QED
      BY <1>0, <2>p, <3>2 DEF Progress, EndIsNoted, Ends
  <2>a. CASE Activate
    BY <1>0, <2>a DEF Activate, Quiet, EndIsNoted, Ends, pubVars
  <2>t. ASSUME NEW s \in {"failed", "cancelled"}, EndBadly(s) PROVE EndIsNoted'
    <3>1. msg'["run"] = <<life, s, 0>> /\ at'["run"] = 1 /\ msg'["run"] # None
      BY <1>0, <1>e, <2>t, EventIs, BeginIs, PublisherIs DEF EndBadly
    <3>2. Type(msg'["run"]) = s
      BY <1>e, <3>1, EventIs
    <3> QED
      BY <1>0, <2>t, <3>1, <3>2 DEF EndBadly, EndIsNoted, Ends
  <2>w. CASE PersistEnd
    <3>1. /\ end \in {"failed", "cancelled"} /\ msg["run"] = None
          /\ handler \notin {"submitting", "rejected"}
          /\ Firm(end) \/ NotedLost(end)
      BY <1>0, <2>w DEF PersistEnd, Quiet, EndIsNoted
    <3>2. /\ UNCHANGED <<handler, msg, end>> /\ record' = end /\ run' = "over"
      BY <2>w DEF PersistEnd, pubVars
    <3>3. Firm(record)' \/ NotedLost(record)'
      BY <1>2, <2>k, <2>l, <3>1, <3>2 DEF NotedLost, Firm
    <3> QED
      BY <3>1, <3>2, <3>3 DEF EndIsNoted, Ends
  <2>c. CASE Complete
    <3>1. msg'["run"] = <<life, "completed", 0>> /\ at'["run"] = 1 /\ msg'["run"] # None
      BY <1>0, <1>e, <2>c, EventIs, BeginIs, PublisherIs DEF Complete
    <3>2. Type(msg'["run"]) = "completed"
      BY <1>e, <3>1, EventIs
    <3> QED
      BY <1>0, <2>c, <3>1, <3>2 DEF Complete, EndIsNoted, Ends
  <2>o. ASSUME NEW p \in Publishers, FannedOut(p) PROVE EndIsNoted'
    <3>1. at[p] = 2 /\ UNCHANGED <<handler, record, run, end, at>>
          /\ msg' = [msg EXCEPT ![p] = None]
      BY <1>0, <2>o, PublisherIs DEF FannedOut, BusIsHeld, PublishGoesOn, jobVars
    <3>2. msg'["run"] = msg["run"] \/ (p = "run" /\ msg'["run"] = None)
      BY <1>0, <3>1, PublisherIs DEF Ranges
    <3>3. (NotedLost(record)' <=> NotedLost(record)) /\ (Firm(record)' <=> Firm(record))
      BY <1>2, <2>k, <2>l, <3>1 DEF NotedLost, Firm
    <3>4. (NotedLost(end)' <=> NotedLost(end)) /\ (Firm(end)' <=> Firm(end))
      BY <1>2, <2>k, <2>l, <3>1 DEF NotedLost, Firm
    <3> QED
      BY <1>0, <2>k, <3>1, <3>2, <3>3, <3>4 DEF EndIsNoted
  <2>d. CASE Crash
    <3>1. /\ run' = "off" /\ msg'["run"] = None /\ record' = record
          /\ handler' \in {handler, "broken"} /\ handler' # "submitting"
          /\ handler = "rejected" => handler' = "rejected"
      BY <1>0, <2>d, DieIs, PublisherIs DEF Crash, Die, SilentWhenIdle
    <3>3. (NotedLost(record)' <=> NotedLost(record)) /\ (Firm(record)' <=> Firm(record))
      BY <1>2, <2>k, <2>l, <3>1 DEF NotedLost, Firm
    <3> QED
      BY <1>0, <2>k, <3>1, <3>3 DEF EndIsNoted, Ends
  <2>m. CASE Restart
    <3>0. msg["run"] = None /\ run = "off" /\ phase = "down" /\ handler # "submitting"
      BY <1>0, <2>m, PublisherIs DEF Restart, BusIsHeld, SilentWhenIdle
    <3>1. UNCHANGED <<record, handler>>
      BY <2>m DEF Restart
    <3>2. CASE record = "queued" /\ run' = "waiting" /\ UNCHANGED <<end, pubVars>>
      BY <1>0, <3>0, <3>1, <3>2 DEF EndIsNoted, Ends, pubVars
    <3>3. CASE record = "active" /\ run' = "ending" /\ end' = "failed" /\ Begin("run", <<life + 1, "failed", 0>>)
      <4>0. life + 1 \in 0..MaxRestarts
        BY <1>e, <2>m DEF Restart
      <4>1. msg'["run"] = <<life + 1, "failed", 0>> /\ at'["run"] = 1 /\ msg'["run"] # None
        BY <1>0, <1>e, <3>3, <4>0, EventIs, BeginIs, PublisherIs
      <4>2. Type(msg'["run"]) = "failed"
        BY <1>e, <4>0, <4>1, EventIs
      <4> QED
        BY <1>0, <3>0, <3>1, <3>3, <4>1, <4>2 DEF EndIsNoted, Ends
    <3>4. CASE record \in Ends /\ UNCHANGED <<run, end, pubVars>>
      <4>1. (NotedLost(record)' <=> NotedLost(record)) /\ (Firm(record)' <=> Firm(record))
        BY <1>2, <2>k, <2>l, <3>1 DEF NotedLost, Firm
      <4> QED
        BY <1>0, <2>k, <3>0, <3>1, <3>4, <4>1 DEF EndIsNoted, pubVars
    <3> QED
      BY <2>m, <3>2, <3>3, <3>4 DEF Restart
  <2>u. ASSUME UNCHANGED <<handler, record, run, end, msg, at>> PROVE EndIsNoted'
    <3>3. (NotedLost(record)' <=> NotedLost(record)) /\ (Firm(record)' <=> Firm(record))
      BY <1>2, <2>k, <2>l, <2>u DEF NotedLost, Firm
    <3>4. (NotedLost(end)' <=> NotedLost(end)) /\ (Firm(end)' <=> Firm(end))
      BY <1>2, <2>k, <2>l, <2>u DEF NotedLost, Firm
    <3> QED
      BY <1>0, <2>k, <2>u, <3>3, <3>4 DEF EndIsNoted
  <2>f. ASSUME NEW p \in Publishers, FanOut(p) \/ \E c \in Clients : Send(p, c) PROVE EndIsNoted'
    BY <2>f, <2>u DEF FanOut, Send, jobVars, pubVars
  <2>q. ASSUME NEW c \in Clients, ClientStep(c) PROVE EndIsNoted'
    BY <2>q, <2>u DEF ClientStep, Accept, Subscribe, CatchUp, Deliver, Unsubscribe, jobVars, pubVars
  <2>x. CASE WatchStep \/ Listen \/ UNCHANGED vars
    BY <2>x, <2>u DEF WatchStep, WatchCreated, WatchEvents, WatchStatus, Listen, vars, jobVars, pubVars
  <2> QED
    BY <1>1, <2>s, <2>r, <2>b, <2>p, <2>a, <2>t, <2>w, <2>c, <2>o, <2>d, <2>m, <2>f, <2>q, <2>x
    DEF Next, RunStep, PublishStep, Rest
<1> QED
  BY <1>1, <1>2, LogMoves

-----------------------------------------------------------------------------
(* The theorems. *)

\* The feed of a job that is being submitted satisfies the invariant.
LEMMA InitHolds == Init => IInv
<1> SUFFICES ASSUME Init PROVE IInv
  OBVIOUS
<1>0. <<>> \in Seq(Events) /\ Len(<<>>) = 0 /\ 0 \in 0..Steps /\ 0 \in 0..MaxRestarts
  BY EventsAssumption
<1>1. Ranges
  <2>1. /\ msg \in [Publishers -> Events \cup {None}] /\ at \in [Publishers -> 1..2]
        /\ buf \in [Clients -> Seq(Events)] /\ \A c \in Clients : Len(buf[c]) <= Buffer
        /\ got \in [Clients -> Seq(Events)] /\ missed \in [Clients -> SUBSET Events]
        /\ caughtUp \in [Clients -> Seq(Events) \cup {None}]
        /\ conn \in [Clients -> {"off", "accepted", "open", "closed"}]
    BY <1>0, EventsAssumption DEF Init
  <2> QED
    BY <1>0, <2>1 DEF Init, Ranges
<1>2. BusIsHeld
  BY DEF Init, BusIsHeld
<1>3. WholeIsUnsaid
  BY DEF Init, WholeIsUnsaid
<1>4. SilentWhenIdle
  BY PublisherIs DEF Init, SilentWhenIdle
<1>5. \A e : ~In(e, log)
  BY InEmpty DEF Init
<1>6. PublishedOnce
  BY <1>5, PublisherIs DEF Init, PublishedOnce
<1>7. NothingElseStreamed
  BY InEmpty DEF Init, NothingElseStreamed
<1>8. NoGap
  BY <1>5 DEF Init, NoGap
<1>9. EndsOf(log) = {}
  BY <1>0 DEF Init, EndsOf
<1>10. LastIsThere
  BY <1>0 DEF Init, LastIsThere
<1>11. EndIsNoted
  BY <1>9, PublisherIs DEF Init, EndIsNoted, Ends
<1> QED
  BY <1>1, <1>2, <1>3, <1>4, <1>6, <1>7, <1>8, <1>10, <1>11 DEF IInv

\* The inductive invariant, of the publishers, the bus, the log and the record.
THEOREM Invariant == Spec => []IInv
<1>1. Init => IInv
  BY InitHolds
<1>2. IInv /\ [Next]_vars => IInv'
  <2> SUFFICES ASSUME IInv, [Next]_vars PROVE IInv'
    OBVIOUS
  <2>1. Ranges' /\ BusIsHeld' /\ SilentWhenIdle' /\ PublishedOnce' /\ WholeIsUnsaid'
    BY RangesStep, BusIsHeldStep, SilentWhenIdleStep, PublishedOnceStep, WholeIsUnsaidStep
  <2>2. NothingElseStreamed' /\ NoGap' /\ LastIsThere' /\ EndIsNoted'
    BY NothingElseStreamedStep, NoGapStep, EndIsNotedStep
  <2> QED
    BY <2>1, <2>2 DEF IInv
<1> QED
  BY <1>1, <1>2, PTL DEF Spec

\* Every variable of the feed keeps its range; a channel never holds more than
\* its capacity, which is what makes the bus's send non-blocking (Send).
THEOREM TypeCorrect == Spec => []TypeOK
<1>1. IInv => TypeOK
  <2> SUFFICES ASSUME IInv PROVE TypeOK
    OBVIOUS
  <2>1. Ranges
    BY DEF IInv
  <2>2. \A c \in Clients : buf[c] \in Seq(Events) /\ Len(buf[c]) <= Buffer
    BY <2>1 DEF Ranges
  <2> QED
    BY <2>1, <2>2, Zenon DEF Ranges, TypeOK
<1> QED
  BY <1>1, Invariant, PTL

\* The bus's Publish never sends to a channel that its subscriber has left and
\* Unsubscribe closed: who walks the subscribers holds the mutex that who leaves
\* must take.
THEOREM ChannelsAreOpen == Spec => []NoSendOnClosedChannel
<1>1. IInv => NoSendOnClosedChannel
  BY DEF IInv, BusIsHeld, NoSendOnClosedChannel
<1> QED
  BY <1>1, Invariant, PTL

\* PersistingBus and the history never disagree: what is streamed can be read, but
\* for lines glued to one without a newline; and what a client that connected and
\* then caught up goes without is only what its own full channel dropped, what was
\* sent between its catching up and its subscription, and what was never sent
\* because its Append returned an error, whatever publishes, leaves or crashes.
THEOREM StreamsAndHistoryAgree == Spec => []StreamAndHistoryAgree
<1>1. IInv => StreamIsReplayable
  <2> SUFFICES ASSUME IInv, NEW c \in Clients, NEW i \in 1..Len(Streamed(c))
               PROVE  In(Streamed(c)[i], log) \/ Streamed(c)[i] \in glued
    BY DEF StreamIsReplayable
  <2>1. got[c] \in Seq(Events) /\ buf[c] \in Seq(Events)
    BY DEF IInv, Ranges
  <2>2. Streamed(c) \in Seq(Events)
    BY <2>1, ConcatProperties DEF Streamed
  <2>3. In(Streamed(c)[i], Streamed(c)) /\ Streamed(c)[i] \in Events
    BY <2>2, InSome
  <2>4. In(Streamed(c)[i], got[c]) \/ In(Streamed(c)[i], buf[c])
    BY <2>1, <2>3, InConcat DEF Streamed
  <2> QED
    BY <2>3, <2>4 DEF IInv, NothingElseStreamed
<1>2. IInv => CatchUpIsComplete
  <2> SUFFICES ASSUME IInv, NEW c \in Clients, conn[c] = "open", caughtUp[c] # None,
                      NEW i \in 1..Len(log)
               PROVE  \/ In(log[i], caughtUp[c]) \/ In(log[i], Streamed(c))
                      \/ log[i] \in missed[c] \cup refused
                      \/ \E p \in Publishers : msg[p] = log[i] /\ (lock = p => c \in todo)
    BY DEF CatchUpIsComplete
  <2>1. got[c] \in Seq(Events) /\ buf[c] \in Seq(Events) /\ log \in Seq(Events)
    BY DEF IInv, Ranges
  <2>2. In(log[i], log) /\ log[i] \in Events
    BY <2>1, InSome
  <2>3. Reaches(c, log[i])
    BY <2>2 DEF IInv, NoGap
  <2>4. In(log[i], got[c]) \/ In(log[i], buf[c]) => In(log[i], Streamed(c))
    BY <2>1, InConcat DEF Streamed
  <2> QED
    BY <2>3, <2>4 DEF Reaches
<1> QED
  BY <1>1, <1>2, Invariant, PTL DEF StreamAndHistoryAgree

\* Whoever writes the record of a job's end and whoever publishes it, the run,
\* its failure paths or recovery, in whichever order: the last end of the history
\* is the record's, but for the exceptions that the property names.
THEOREM RecordAndHistoryAgree == Spec => []HistoryAgreesWithRecord
<1>1. IInv => HistoryAgreesWithRecord
  BY DEF IInv, EndIsNoted, HistoryAgreesWithRecord, NotedLost, Firm
<1> QED
  BY <1>1, Invariant, PTL

\* The log grows at its end, and loses at most a last line that nobody was told is
\* written; the polling client prints what is new to it by position: History and
\* the loop of cmd/rojo are an EventFeed.
THEOREM Refinement == Spec => ImplementsFeed
<1>1. Init => F!Empty
  BY Zenon DEF Init, F!Empty
<1>2. IInv /\ [Next]_vars => [F!Tell \/ F!Lose \/ F!Show]_F!feedVars
  <2> SUFFICES ASSUME IInv, [Next]_vars
               PROVE  F!Tell \/ F!Lose \/ F!Show \/ UNCHANGED F!feedVars
    OBVIOUS
  <2>0. Ranges /\ WholeIsUnsaid /\ LastIsThere
    BY DEF IInv
  <2>1. ASSUME NEW p \in Publishers, AppendToLog(p) \/ TearLine(p)
        PROVE  F!Tell \/ F!Lose \/ UNCHANGED F!feedVars
    <3>1. msg[p] \in Events /\ UNCHANGED printed
      BY <2>0, <2>1, LogGrows DEF AppendToLog, TearLine, Die, watchVars
    <3>2. CASE tail = "clean" /\ log' = Append(log, msg[p])
      <4>1. ~(tail = "whole") /\ (tail = "whole")' \in BOOLEAN
        BY <3>2, Zenon
      <4>2. \E e \in Events : log' = Append(log, e)
        BY <3>1, <3>2
      <4> QED
        BY <3>1, <4>1, <4>2, Zenon DEF F!Tell
    <3>3. CASE tail = "whole" /\ tail' # "whole" /\ log # <<>> /\ log' = SubSeq(log, 1, Len(log) - 1)
      <4>1. (tail = "whole")' = FALSE
        BY <3>3, Zenon
      <4> QED
        BY <3>1, <3>3, <4>1, Zenon DEF F!Lose
    <3>4. CASE log' = log /\ (tail' = "whole" <=> tail = "whole")
      <4>1. (tail = "whole")' = (tail = "whole")
        BY <3>4, Zenon
      <4> QED
        BY <3>1, <3>4, <4>1, Zenon DEF F!feedVars
    <3> QED
      BY <2>0, <2>1, <3>2, <3>3, <3>4, LogGrows
  <2>2. CASE UNCHANGED <<log, tail, glued, refused>>
    <3>0. (tail = "whole")' = (tail = "whole")
      BY <2>2, Zenon
    <3>1. CASE WatchEvents
      <4>1. CASE printed' = printed \o Since(Len(printed))
        <5>0. Len(log) \in Nat /\ Len(printed) \in Nat /\ printed \in Seq(Events)
          BY <2>0, LenProperties DEF Ranges
        <5>1. CASE Len(printed) <= Len(log)
          <6>1. /\ Len(log) \in Len(printed)..Len(log)
                /\ printed' = printed \o SubSeq(log, Len(printed) + 1, Len(log))
            BY <4>1, <5>0, <5>1 DEF Since
          <6> QED
            BY <2>2, <3>0, <6>1, Zenon DEF F!Show
        <5>2. CASE Len(printed) > Len(log)
          <6>1. Since(Len(printed)) = <<>>
            BY <5>0, <5>2, SubSeqEmpty DEF Since
          <6>2. printed' = printed
            BY <4>1, <5>0, <6>1, ConcatEmptySeq
          <6> QED
            BY <2>2, <3>0, <6>2, Zenon DEF F!feedVars
        <5> QED
          BY <5>0, <5>1, <5>2
      <4>2. CASE UNCHANGED printed
        BY <2>2, <3>0, <4>2, Zenon DEF F!feedVars
      <4> QED
        BY <3>1, <4>1, <4>2 DEF WatchEvents, Ask
    <3>2. CASE UNCHANGED printed
      BY <2>2, <3>0, <3>2, Zenon DEF F!feedVars
    <3> QED
      BY <3>1, <3>2, PrintedMoves
  <2> QED
    BY <2>1, <2>2, LogMoves
<1> QED
  BY <1>1, <1>2, Invariant, PTL DEF Spec, ImplementsFeed, F!Feed
=============================================================================
