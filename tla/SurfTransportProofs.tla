-------------------------- MODULE SurfTransportProofs --------------------------
(***************************************************************************)
(* What is proved of the surf --stdio transport (SurfStdio) and of a        *)
(* session over it (SurfTransport), for any commands, steps and callers.    *)
(* The invariant of the transport is stated of its fields and its pipes as   *)
(* parameters, so that a lemma about a method is a lemma about a function.   *)
(***************************************************************************)
EXTENDS SurfTransport, SequenceTheorems, TLAPS

\* The requests in the child's hands, given what it has not read and what it is at.
Hand(in, run) == ToSet(in) \cup ({run} \ {None})

\* Who waits has no answer and waits once; the command in flight waits no more.
FieldsInv(s) ==
    /\ s \in Fields
    /\ \A i \in DOMAIN s.waiting : s.answers[s.waiting[i]] = "pending"
    /\ \A i, j \in DOMAIN s.waiting : s.waiting[i] = s.waiting[j] => i = j
    /\ s.sent # None =>
        /\ s.ready /\ s.ended # "early" /\ s.sent.id < s.nextId
        /\ s.answers[s.sent.command] = "pending"
        /\ \A i \in DOMAIN s.waiting : s.waiting[i] # s.sent.command
    /\ s.ended = "early" => s.waiting = <<>>
    /\ \A c \in Commands : s.answers[c] \in Verdicts => s.ready \/ s.ended # "no"

\* The child has one request at a time: the one in flight or, once the session ended,
\* one whose command is in doubt.
HandInv(s, in, run) ==
    /\ run \in Requests \cup {None}
    /\ in = <<>> \/ (\E q \in Requests : in = <<q>> /\ run = None)
    /\ \A q \in Hand(in, run) :
          /\ q.id < s.nextId
          /\ \/ s.sent = q
             \/ s.sent = None /\ s.ended # "no" /\ s.answers[q.command] = "doubt"

Replies(line, id)   == line.kind \in Verdicts /\ line.id = id
Truthful(kind, n)   == (kind \in {"done", "noTab"} => n = 1) /\ (kind = "refused" => n = 0)

\* No reply on its way is to a request the child still has, and of those to the one in
\* flight the first is true; a child that lives has the request in flight, or replied.
LinesInv(s, in, run, out, rn, lives) ==
    /\ out \in Seq(Lines)
    /\ \A i \in DOMAIN out : out[i].kind \in Verdicts =>
          out[i].id < s.nextId /\ \A q \in Hand(in, run) : q.id # out[i].id
    /\ s.sent # None =>
        /\ \A i \in DOMAIN out :
              (Replies(out[i], s.sent.id) /\ \A j \in 1 .. i - 1 : ~Replies(out[j], s.sent.id))
                 => Truthful(out[i].kind, rn[s.sent.command])
        /\ lives => \/ s.sent \in Hand(in, run)
                    \/ \E i \in DOMAIN out : Replies(out[i], s.sent.id)

\* What was carried out is what the answers say; `own` are the commands that were given a
\* process of their own.
RanInv(s, rn, own) ==
    /\ rn \in [Commands -> Nat] /\ own \subseteq Commands
    /\ \A c \in Commands : rn[c] <= 1
    /\ \A c \in own : s.answers[c] \in {"uncalled", "refused"}
    /\ \A c \in Commands \ own :
          /\ s.answers[c] \in {"done", "noTab"} => rn[c] = 1
          /\ s.answers[c] \in {"uncalled", "refused"} => rn[c] = 0
    /\ \A i \in DOMAIN s.waiting : rn[s.waiting[i]] = 0

Sound(s, in, run, out, rn, own, lives) ==
    /\ FieldsInv(s)
    /\ HandInv(s, in, run)
    /\ LinesInv(s, in, run, out, rn, lives)
    /\ RanInv(s, rn, own)

--------------------------------------------------------------------------------

\* What the end of the transport does to its fields.
LEMMA StopFields ==
    ASSUME NEW s \in Fields
    PROVE  /\ Stop(s) \in Fields
           /\ Stop(s).sent = None /\ Stop(s).waiting = <<>> /\ Stop(s).ended # "no"
           /\ Stop(s).nextId = s.nextId /\ Stop(s).ready = s.ready
           /\ \A c \in Commands : Stop(s).answers[c] =
                  IF SentIs(s, c) THEN "doubt"
                  ELSE IF c \in ToSet(s.waiting) THEN "refused" ELSE s.answers[c]
<1> DEFINE answered == [c \in Commands |->
                IF SentIs(s, c) THEN "doubt"
                ELSE IF c \in ToSet(s.waiting) THEN "refused" ELSE s.answers[c]]
<1>1. answered \in [Commands -> {"uncalled", "pending"} \cup Verdicts]
  BY DEF Fields, Verdicts
<1>2. <<>> \in Seq(Commands)
  OBVIOUS
<1>3. Stop(s) = [s EXCEPT !.ended = IF @ = "no" THEN "early" ELSE @, !.startTimer = "cleared",
                         !.sent = None, !.waiting = <<>>, !.answers = answered]
  BY DEF Stop
<1>4. \A c \in Commands : answered[c] = IF SentIs(s, c) THEN "doubt"
                ELSE IF c \in ToSet(s.waiting) THEN "refused" ELSE s.answers[c]
  OBVIOUS
<1> HIDE DEF answered
<1>5. QED  BY <1>1, <1>2, <1>3, <1>4 DEF Fields

\* Stop() tells the truth: in doubt is what the child may have, refused what it never got.
LEMMA StopKeeps ==
    ASSUME NEW s, NEW in, NEW run, NEW out, NEW rn, NEW own, NEW lives, NEW living,
           Sound(s, in, run, out, rn, own, lives)
    PROVE  Sound(Stop(s), in, run, out, rn, own, living)
<1> USE DEF Sound
<1> DEFINE t == Stop(s)
<1>1. s \in Fields  BY DEF FieldsInv
<1>2. /\ t \in Fields
      /\ t.sent = None /\ t.waiting = <<>> /\ t.ended # "no"
      /\ t.nextId = s.nextId /\ t.ready = s.ready
      /\ \A c \in Commands : t.answers[c] =
             IF SentIs(s, c) THEN "doubt"
             ELSE IF c \in ToSet(s.waiting) THEN "refused" ELSE s.answers[c]
  BY <1>1, StopFields
<1> HIDE DEF t
<1>3. FieldsInv(t)
  BY <1>2 DEF FieldsInv
<1>4. \A q \in Hand(in, run) : q \in Requests
  BY DEF HandInv, Hand, ToSet
<1>5. HandInv(t, in, run)
  <2> SUFFICES ASSUME NEW q \in Hand(in, run)
               PROVE  q.id < t.nextId /\ t.answers[q.command] = "doubt"
    BY <1>2 DEF HandInv
  <2>1. q.command \in Commands  BY <1>4 DEF Requests
  <2>2. CASE s.sent = q
    BY <1>2, <1>4, <2>1, <2>2, NoneAssumption DEF HandInv, SentIs
  <2>3. CASE s.sent = None /\ s.ended # "no" /\ s.answers[q.command] = "doubt"
    <3>1. q.command \notin ToSet(s.waiting)
      BY <2>3, <1>1 DEF FieldsInv, ToSet
    <3>2. QED  BY <1>2, <2>1, <2>3, <3>1 DEF HandInv, SentIs
  <2>4. QED  BY <2>2, <2>3 DEF HandInv
<1>6. LinesInv(t, in, run, out, rn, living)
  BY <1>2 DEF LinesInv
<1>7. RanInv(t, rn, own)
  <2>1. \A c \in ToSet(s.waiting) : rn[c] = 0 /\ s.answers[c] = "pending"
    BY DEF ToSet, RanInv, FieldsInv
  <2>2. \A c \in Commands : SentIs(s, c) => s.answers[c] = "pending"
    BY DEF SentIs, FieldsInv
  <2>3. QED  BY <1>2, <2>1, <2>2 DEF RanInv
<1>8. QED  BY <1>3, <1>5, <1>6, <1>7 DEF t

\* What is on the child's stdin once the fields went from s to t.
Written(s, t, in) == IF t.nextId = s.nextId THEN in ELSE Append(in, t.sent)

\* A request is sent only when the child has none, under an id no reply on its way bears.
LEMMA SendKeeps ==
    ASSUME NEW s, NEW in, NEW run, NEW out, NEW rn, NEW own, NEW lives,
           Sound(s, in, run, out, rn, own, lives)
    PROVE  Sound(Send(s), Written(s, Send(s), in), run, out, rn, own, lives)
<1> USE DEF Sound
<1> DEFINE t == Send(s)
<1>1. s \in Fields  BY DEF FieldsInv
<1>2. CASE t = s
  <2>1. Written(s, t, in) = in  BY <1>2 DEF Written
  <2>2. QED  BY <1>2, <2>1
<1>3. CASE s.ready /\ s.sent = None /\ s.ended = "no" /\ s.waiting # <<>>
  <2> DEFINE q == [id |-> s.nextId, command |-> Head(s.waiting)]
  <2>1. s.waiting \in Seq(Commands) /\ s.nextId \in Nat /\ s.nextId # 0
    BY <1>1 DEF Fields, Verdicts
  <2>2. /\ Head(s.waiting) \in Commands /\ Head(s.waiting) = s.waiting[1]
        /\ Tail(s.waiting) \in Seq(Commands) /\ 1 \in DOMAIN s.waiting
        /\ \A i \in DOMAIN Tail(s.waiting) : /\ Tail(s.waiting)[i] = s.waiting[i + 1]
                                             /\ i + 1 \in DOMAIN s.waiting /\ i \in Nat /\ i > 0
    BY <1>3, <2>1, HeadTailProperties
  <2>3. q \in Requests /\ q # None
    BY <2>1, <2>2, NoneAssumption DEF Requests
  <2>4. /\ t \in Fields /\ t.sent = q /\ t.waiting = Tail(s.waiting) /\ t.nextId = s.nextId + 1
        /\ t.answers = s.answers /\ t.ready /\ t.ended = "no"
    <3>1. t = [s EXCEPT !.sent = q, !.waiting = Tail(s.waiting), !.nextId = s.nextId + 1]
      BY <1>1, <1>3 DEF Send, Fields
    <3>2. s.nextId + 1 \in Nat \ {0}  BY <2>1
    <3> HIDE DEF q, t
    <3>3. t \in Fields
      BY <1>1, <2>2, <2>3, <3>1, <3>2 DEF Fields
    <3>4. QED  BY <1>1, <1>3, <3>1, <3>3 DEF Fields
  <2>5. Written(s, t, in) = Append(in, q)
    <3> HIDE DEF q, t
    <3>1. QED  BY <2>1, <2>4 DEF Written
  <2>6. \A p \in Hand(in, run) : FALSE
    <3> HIDE DEF q, t
    <3>1. \A p \in Hand(in, run) : p \in Requests
      BY DEF HandInv, Hand, ToSet
    <3>2. \A p \in Hand(in, run) : s.sent = p \/ s.ended # "no"
      BY DEF HandInv
    <3>3. QED  BY <1>3, <3>1, <3>2, NoneAssumption
  <2>7. in = <<>> /\ run = None
    BY <2>6 DEF Hand, HandInv, ToSet
  <2>8. Append(in, q) = <<q>> /\ Hand(<<q>>, None) = {q}
    BY <2>7 DEF Hand, ToSet
  <2> HIDE DEF t, q
  <2>9. FieldsInv(t)
    <3>1. s.answers[s.waiting[1]] = "pending"
      BY <2>2 DEF FieldsInv
    <3>2. \A i \in DOMAIN t.waiting : t.answers[t.waiting[i]] = "pending"
      BY <2>2, <2>4 DEF FieldsInv
    <3>3. \A i, j \in DOMAIN t.waiting : t.waiting[i] = t.waiting[j] => i = j
      BY <2>2, <2>4 DEF FieldsInv
    <3>4. \A i \in DOMAIN t.waiting : t.waiting[i] # Head(s.waiting)
      BY <2>2, <2>4 DEF FieldsInv
    <3>5. q.id < t.nextId /\ q.command = Head(s.waiting)
      BY <2>1, <2>4 DEF q
    <3>6. QED  BY <2>2, <2>4, <3>1, <3>2, <3>3, <3>4, <3>5 DEF FieldsInv
  <2>10. HandInv(t, <<q>>, None)
    BY <2>1, <2>3, <2>4, <2>8 DEF HandInv, q
  <2>11. \A i \in DOMAIN out : out[i].kind \in Verdicts => out[i].id < s.nextId
    BY DEF LinesInv
  <2>12. \A i \in DOMAIN out : out[i].kind \in Verdicts =>
            out[i].id < t.nextId /\ q.id # out[i].id
    <3> SUFFICES ASSUME NEW i \in DOMAIN out, out[i].kind \in Verdicts
                 PROVE  out[i].id < s.nextId + 1 /\ s.nextId # out[i].id
      BY <2>4 DEF q
    <3>1. out[i] \in Lines
      BY DEF LinesInv
    <3>2. out[i].id \in Nat
      BY <3>1 DEF Lines, Verdicts
    <3>3. QED  BY <2>1, <2>11, <3>2
  <2>13. LinesInv(t, <<q>>, None, out, rn, lives)
    BY <2>4, <2>8, <2>12 DEF LinesInv, Replies
  <2>14. RanInv(t, rn, own)
    BY <2>2, <2>4 DEF RanInv
  <2>15. QED  BY <2>5, <2>7, <2>8, <2>9, <2>10, <2>13, <2>14 DEF t
<1>4. QED  BY <1>2, <1>3 DEF Send

\* The flags say nothing of a command: ready is set once, and a session is closed once.
LEMMA FlagsKeep ==
    ASSUME NEW s, NEW in, NEW run, NEW out, NEW rn, NEW own, NEW lives, NEW t \in Fields,
           Sound(s, in, run, out, rn, own, lives),
           t.waiting = s.waiting, t.sent = s.sent, t.nextId = s.nextId, t.answers = s.answers,
           s.ready => t.ready, t.ended = s.ended \/ (s.ended = "no" /\ t.ended = "closed")
    PROVE  Sound(t, in, run, out, rn, own, lives)
<1> USE DEF Sound
<1>1. FieldsInv(t)
  BY DEF FieldsInv
<1>2. HandInv(t, in, run) /\ LinesInv(t, in, run, out, rn, lives) /\ RanInv(t, rn, own)
  BY DEF HandInv, LinesInv, RanInv
<1>3. QED  BY <1>1, <1>2

\* The lines of a pipe after its first.
LEMMA TailLines ==
    ASSUME NEW out \in Seq(Lines), out # <<>>
    PROVE  /\ Head(out) = out[1] /\ 1 \in DOMAIN out /\ out[1] \in Lines
           /\ Tail(out) \in Seq(Lines)
           /\ \A i \in DOMAIN Tail(out) : Tail(out)[i] = out[i + 1] /\ i + 1 \in DOMAIN out
           /\ \A i \in DOMAIN out : i # 1 => i - 1 \in DOMAIN Tail(out) /\ Tail(out)[i - 1] = out[i]
<1>1. Tail(out) \in Seq(Lines) /\ Len(Tail(out)) = Len(out) - 1
  BY HeadTailProperties
<1>2. \A i \in DOMAIN Tail(out) : Tail(out)[i] = out[i + 1]
  BY HeadTailProperties
<1>3. QED  BY <1>1, <1>2

\* A line that is no reply to the command in flight can be forgotten.
LEMMA TailKeeps ==
    ASSUME NEW s, NEW in, NEW run, NEW out, NEW rn, NEW own, NEW lives,
           Sound(s, in, run, out, rn, own, lives), out # <<>>,
           s.sent # None => ~Replies(Head(out), s.sent.id)
    PROVE  Sound(s, in, run, Tail(out), rn, own, lives)
<1> USE DEF Sound
<1> DEFINE rest == Tail(out)
<1>1. /\ Head(out) = out[1] /\ 1 \in DOMAIN out /\ rest \in Seq(Lines)
      /\ \A i \in DOMAIN rest : rest[i] = out[i + 1] /\ i + 1 \in DOMAIN out
      /\ \A i \in DOMAIN out : i # 1 => i - 1 \in DOMAIN rest /\ rest[i - 1] = out[i]
  BY TailLines DEF LinesInv
<1> HIDE DEF rest
<1>2. \A i \in DOMAIN rest : rest[i].kind \in Verdicts =>
          rest[i].id < s.nextId /\ \A q \in Hand(in, run) : q.id # rest[i].id
  BY <1>1 DEF LinesInv
<1>3. ASSUME s.sent # None, NEW i \in DOMAIN rest, Replies(rest[i], s.sent.id),
             \A j \in 1 .. i - 1 : ~Replies(rest[j], s.sent.id)
      PROVE  Truthful(rest[i].kind, rn[s.sent.command])
  <2>1. i \in Nat /\ 1 <= i /\ i <= Len(rest) /\ DOMAIN rest = 1 .. Len(rest) /\ Len(rest) \in Nat
    <3>1. DOMAIN rest = 1 .. Len(rest) /\ Len(rest) \in Nat
      BY <1>1, LenProperties
    <3>2. QED  BY <3>1
  <2>2. ASSUME NEW j \in 1 .. (i + 1) - 1  PROVE ~Replies(out[j], s.sent.id)
    <3>1. CASE j = 1
      BY <3>1, <1>1, <1>3
    <3>2. CASE j # 1
      <4>1. j - 1 \in 1 .. i - 1 /\ j - 1 \in 1 .. Len(rest)
        BY <2>1, <3>2
      <4>2. rest[j - 1] = out[j]
        <5>1. (j - 1) + 1 = j /\ j - 1 \in DOMAIN rest
          BY <2>1, <4>1
        <5>2. rest[j - 1] = out[(j - 1) + 1]
          BY <1>1, <5>1
        <5>3. QED  BY <5>1, <5>2
      <4>3. QED  BY <1>3, <4>1, <4>2
    <3>3. QED  BY <3>1, <3>2
  <2>3. Replies(out[i + 1], s.sent.id) /\ i + 1 \in DOMAIN out
    BY <1>1, <1>3
  <2>4. Truthful(out[i + 1].kind, rn[s.sent.command])
    BY <1>3, <2>2, <2>3 DEF LinesInv
  <2>5. QED  BY <1>1, <2>4
<1>4. ASSUME s.sent # None, NEW i \in DOMAIN out, Replies(out[i], s.sent.id)
      PROVE  \E j \in DOMAIN rest : Replies(rest[j], s.sent.id)
  BY <1>1, <1>4
<1>5. LinesInv(s, in, run, rest, rn, lives)
  BY <1>1, <1>2, <1>3, <1>4 DEF LinesInv
<1>6. QED  BY <1>5 DEF rest

\* The first reply to the command in flight is its own, and the child has nothing left.
LEMMA SettleKeeps ==
    ASSUME NEW s, NEW in, NEW run, NEW out, NEW rn, NEW own, NEW lives,
           Sound(s, in, run, out, rn, own, lives), out # <<>>, s.sent # None,
           Replies(Head(out), s.sent.id)
    PROVE  LET t == Settle([s EXCEPT !.sent = None], s.sent.command, Head(out).kind)
           IN  /\ Sound(t, in, run, Tail(out), rn, own, lives)
               /\ t.ended = s.ended /\ t.nextId = s.nextId
<1> USE DEF Sound
<1> DEFINE c == s.sent.command
           kind == Head(out).kind
           t == [s EXCEPT !.sent = None, !.answers = [s.answers EXCEPT ![c] = kind]]
<1>1. s \in Fields  BY DEF FieldsInv
<1>2. c \in Commands /\ kind \in Verdicts
  BY <1>1 DEF Fields, Requests, Replies
<1>3. Settle([s EXCEPT !.sent = None], c, kind) = t
  BY <1>1 DEF Settle, Fields
<1>4. /\ t \in Fields /\ t.sent = None /\ t.waiting = s.waiting /\ t.nextId = s.nextId
      /\ t.ended = s.ended /\ t.ready = s.ready
      /\ t.answers = [s.answers EXCEPT ![c] = kind] /\ s.answers \in [Commands -> {"uncalled", "pending"} \cup Verdicts]
  <2> HIDE DEF c, kind
  <2>1. [s.answers EXCEPT ![c] = kind] \in [Commands -> {"uncalled", "pending"} \cup Verdicts]
    BY <1>1, <1>2 DEF Fields
  <2>2. QED  BY <1>1, <2>1 DEF Fields
<1>5. /\ Head(out) = out[1] /\ 1 \in DOMAIN out /\ Tail(out) \in Seq(Lines)
      /\ \A i \in DOMAIN Tail(out) : Tail(out)[i] = out[i + 1] /\ i + 1 \in DOMAIN out
  BY TailLines DEF LinesInv
<1>6. \A q \in Hand(in, run) : FALSE
  BY <1>5 DEF LinesInv, HandInv, Replies
<1>7. Truthful(kind, rn[c])
  BY <1>5 DEF LinesInv
<1>8. s.answers[c] = "pending" /\ s.ready
  BY DEF FieldsInv
<1> HIDE DEF t, c, kind
<1>9. FieldsInv(t)
  <2>1. \A i \in DOMAIN s.waiting : s.waiting[i] # c /\ s.waiting[i] \in Commands
    BY <1>1 DEF FieldsInv, Fields, c
  <2>2. QED  BY <1>2, <1>4, <1>8, <2>1 DEF FieldsInv
<1>10. HandInv(t, in, run)
  BY <1>6 DEF HandInv
<1>11. LinesInv(t, in, run, Tail(out), rn, lives)
  BY <1>4, <1>5, <1>6 DEF LinesInv
<1>12. RanInv(t, rn, own)
  BY <1>2, <1>4, <1>7, <1>8 DEF RanInv, Truthful, Verdicts
<1>13. QED  BY <1>3, <1>4, <1>9, <1>10, <1>11, <1>12 DEF c, kind, t

\* A chunk's line, read by the session while it has not ended early.
LEMMA LineKeeps ==
    ASSUME NEW s, NEW in, NEW run, NEW out, NEW rn, NEW own, NEW lives,
           Sound(s, in, run, out, rn, own, lives), out # <<>>, s.ended # "early"
    PROVE  LET t == ReadLine(s, Head(out)).fields
           IN  Sound(t, in, run, Tail(out), rn, own, lives) /\ t.nextId = s.nextId
<1> DEFINE line == Head(out)
           t == ReadLine(s, line).fields
<1>1. s \in Fields  BY DEF Sound, FieldsInv
<1>2. CASE line.kind = "malformed" \/ (line.kind = "ready" /\ s.ready)
  <2>1. t = [Stop(s) EXCEPT !.signalled = TRUE]
    BY <1>2 DEF ReadLine, Halt, GiveUp
  <2>2. Stop(s) \in Fields /\ Stop(s).nextId = s.nextId
    BY <1>1, StopFields
  <2>3. s.sent # None => ~Replies(line, s.sent.id)
    BY <1>2 DEF Replies, Verdicts
  <2>4. Sound(Stop(s), in, run, Tail(out), rn, own, lives)
    BY <2>3, StopKeeps, TailKeeps
  <2>5. /\ t \in Fields /\ t.waiting = Stop(s).waiting /\ t.sent = Stop(s).sent
        /\ t.nextId = Stop(s).nextId /\ t.answers = Stop(s).answers
        /\ t.ready = Stop(s).ready /\ t.ended = Stop(s).ended
    BY <2>1, <2>2 DEF Fields
  <2> HIDE DEF t
  <2>6. QED  BY <2>2, <2>4, <2>5, FlagsKeep DEF t
<1>3. CASE line.kind = "ready" /\ ~s.ready
  <2>1. t = [s EXCEPT !.ready = TRUE, !.startTimer = IF s.startTimer = "armed" THEN "cleared" ELSE s.startTimer]
    BY <1>1, <1>3 DEF ReadLine, Go, Fields
  <2>2. /\ t \in Fields /\ t.waiting = s.waiting /\ t.sent = s.sent
        /\ t.nextId = s.nextId /\ t.answers = s.answers /\ t.ready /\ t.ended = s.ended
    BY <1>1, <2>1 DEF Fields
  <2>3. s.sent # None => ~Replies(line, s.sent.id)
    BY <1>3 DEF Replies, Verdicts
  <2>4. Sound(s, in, run, Tail(out), rn, own, lives)
    BY <2>3, TailKeeps
  <2> HIDE DEF t
  <2>5. QED  BY <2>2, <2>4, FlagsKeep DEF t
<1>4. CASE line.kind \notin {"malformed", "ready"} /\ (s.sent = None \/ s.sent.id # line.id)
  <2>1. t = s
    BY <1>4 DEF ReadLine, Go
  <2>2. s.sent # None => ~Replies(line, s.sent.id)
    BY <1>4 DEF Replies
  <2>3. QED  BY <2>1, <2>2, TailKeeps
<1>5. CASE line.kind \notin {"malformed", "ready"} /\ s.sent # None /\ s.sent.id = line.id
  <2> DEFINE settled == Settle([s EXCEPT !.sent = None], s.sent.command, line.kind)
  <2>1. line.kind \in Verdicts
    BY <1>5, TailLines DEF Lines, Sound, LinesInv
  <2>2. Replies(line, s.sent.id)
    BY <1>5, <2>1 DEF Replies
  <2>3. /\ Sound(settled, in, run, Tail(out), rn, own, lives)
        /\ settled.ended = s.ended /\ settled.nextId = s.nextId
    BY <1>5, <2>2, SettleKeeps
  <2> HIDE DEF settled
  <2>4. t = IF line.kind = "doubt" THEN Stop(settled) ELSE settled
    BY <1>5 DEF ReadLine, Reply, Halt, Go, settled
  <2>5. Stop(settled).nextId = settled.nextId
    BY <2>3, StopFields DEF Sound, FieldsInv
  <2>6. Sound(Stop(settled), in, run, Tail(out), rn, own, lives)
    BY <2>3, StopKeeps
  <2>7. QED  BY <2>3, <2>4, <2>5, <2>6
<1>6. QED  BY <1>2, <1>3, <1>4, <1>5

\* run(): the call waits its turn, is sent, or is refused by a session that ended.
LEMMA AskKeeps ==
    ASSUME NEW s, NEW in, NEW run, NEW out, NEW rn, NEW own, NEW lives, NEW c \in Commands,
           Sound(s, in, run, out, rn, own, lives), s.answers[c] = "uncalled", c \notin own
    PROVE  /\ Sound(Ask(s, c), Written(s, Ask(s, c), in), run, out, rn, own, lives)
           /\ s.ended # "no" => /\ Ask(s, c).answers = [s.answers EXCEPT ![c] = "refused"]
                                /\ Ask(s, c).nextId = s.nextId
           /\ s.ended = "no" => Ask(s, c).answers = [s.answers EXCEPT ![c] = "pending"]
<1> USE DEF Sound
<1>1. s \in Fields  BY DEF FieldsInv
<1>2. s.answers \in [Commands -> {"uncalled", "pending"} \cup Verdicts]
  BY <1>1 DEF Fields
<1>3. /\ s.sent # None => s.sent.command # c
      /\ \A i \in DOMAIN s.waiting : s.waiting[i] # c
  BY DEF FieldsInv
<1>4. CASE s.ended # "no"
  <2> DEFINE t == [s EXCEPT !.answers = [s.answers EXCEPT ![c] = "refused"]]
  <2>1. Ask(s, c) = t
    BY <1>1, <1>4 DEF Ask, Settle, Fields
  <2>2. [s.answers EXCEPT ![c] = "refused"] \in [Commands -> {"uncalled", "pending"} \cup Verdicts]
    BY <1>2 DEF Verdicts
  <2>3. /\ t \in Fields /\ t.waiting = s.waiting /\ t.sent = s.sent /\ t.nextId = s.nextId
        /\ t.answers = [s.answers EXCEPT ![c] = "refused"] /\ t.ready = s.ready /\ t.ended = s.ended
    BY <1>1, <2>2 DEF Fields
  <2> HIDE DEF t
  <2>4. FieldsInv(t)
    <3>1. s.sent # None => s.sent.command \in Commands
      BY <1>1 DEF Fields, Requests
    <3>2. \A i \in DOMAIN s.waiting : s.waiting[i] \in Commands
      BY <1>1 DEF Fields
    <3>3. QED  BY <1>2, <1>3, <1>4, <2>3, <3>1, <3>2 DEF FieldsInv
  <2>5. HandInv(t, in, run)
    BY <1>2, <2>3 DEF HandInv
  <2>6. LinesInv(t, in, run, out, rn, lives)
    BY <2>3 DEF LinesInv
  <2>7. RanInv(t, rn, own)
    BY <1>2, <1>3, <2>3 DEF RanInv
  <2>8. Written(s, t, in) = in
    BY <2>3 DEF Written
  <2>9. QED  BY <1>4, <2>1, <2>3, <2>4, <2>5, <2>6, <2>7, <2>8
<1>5. CASE s.ended = "no"
  <2> DEFINE armed == IF ~s.ready /\ s.startTimer = "unset" THEN "armed" ELSE s.startTimer
             t == [s EXCEPT !.startTimer = armed, !.waiting = Append(s.waiting, c),
                            !.answers = [s.answers EXCEPT ![c] = "pending"]]
  <2>1. Ask(s, c) = Send(t)
    BY <1>1, <1>5 DEF Ask, Settle, Fields
  <2>2. /\ [s.answers EXCEPT ![c] = "pending"] \in [Commands -> {"uncalled", "pending"} \cup Verdicts]
        /\ armed \in {"unset", "armed", "cleared"}
    BY <1>1, <1>2 DEF Fields
  <2>3. s.waiting \in Seq(Commands)
    BY <1>1 DEF Fields
  <2>4. /\ Append(s.waiting, c) \in Seq(Commands)
        /\ Len(Append(s.waiting, c)) = Len(s.waiting) + 1
        /\ \A i \in 1 .. Len(s.waiting) : Append(s.waiting, c)[i] = s.waiting[i]
        /\ Append(s.waiting, c)[Len(s.waiting) + 1] = c
    BY <2>3, AppendProperties
  <2> HIDE DEF armed
  <2>5. /\ t \in Fields /\ t.waiting = Append(s.waiting, c) /\ t.sent = s.sent
        /\ t.nextId = s.nextId /\ t.answers = [s.answers EXCEPT ![c] = "pending"]
        /\ t.ready = s.ready /\ t.ended = s.ended
    BY <1>1, <2>2, <2>4 DEF Fields
  <2> HIDE DEF t
  <2>6. /\ \A i \in DOMAIN t.waiting : i \in DOMAIN s.waiting \/ i = Len(s.waiting) + 1
        /\ \A i \in DOMAIN s.waiting : i # Len(s.waiting) + 1
        /\ \A i \in DOMAIN s.waiting : t.waiting[i] = s.waiting[i]
        /\ t.waiting[Len(s.waiting) + 1] = c
    BY <2>3, <2>4, <2>5
  <2>7. /\ \A i \in DOMAIN s.waiting : s.waiting[i] \in Commands
        /\ s.sent # None => s.sent.command \in Commands
    BY <1>1 DEF Fields, Requests
  <2>8. FieldsInv(t)
    <3>1. \A i \in DOMAIN t.waiting : t.answers[t.waiting[i]] = "pending"
      BY <1>2, <2>5, <2>6, <2>7 DEF FieldsInv
    <3>2. \A i, j \in DOMAIN t.waiting : t.waiting[i] = t.waiting[j] => i = j
      BY <1>3, <2>6 DEF FieldsInv
    <3>3. t.sent # None => /\ t.answers[t.sent.command] = "pending"
                           /\ \A i \in DOMAIN t.waiting : t.waiting[i] # t.sent.command
      BY <1>2, <1>3, <2>5, <2>6, <2>7 DEF FieldsInv
    <3>4. QED  BY <1>2, <1>5, <2>5, <3>1, <3>2, <3>3 DEF FieldsInv, Verdicts
  <2>9. HandInv(t, in, run)
    BY <1>2, <2>5 DEF HandInv
  <2>10. LinesInv(t, in, run, out, rn, lives)
    BY <2>5 DEF LinesInv
  <2>11. RanInv(t, rn, own)
    <3>1. rn[c] = 0
      BY DEF RanInv
    <3>2. \A i \in DOMAIN t.waiting : rn[t.waiting[i]] = 0
      BY <2>6, <3>1 DEF RanInv
    <3>3. QED  BY <1>2, <2>5, <3>2 DEF RanInv
  <2>12. Sound(Send(t), Written(t, Send(t), in), run, out, rn, own, lives)
    BY <2>8, <2>9, <2>10, <2>11, SendKeeps
  <2>13. Written(t, Send(t), in) = Written(s, Send(t), in)
    BY <2>5 DEF Written
  <2>14. Send(t).answers = t.answers
    BY <2>5 DEF Send, Fields
  <2>15. QED  BY <1>5, <2>1, <2>5, <2>12, <2>13, <2>14
<1>6. QED  BY <1>4, <1>5

--------------------------------------------------------------------------------

Lives == child \notin {"gone", "closed"}

\* Between two chunks a session that is ready and open keeps nobody waiting for nothing.
Idle(s) ==
    s.ready /\ s.ended = "no" /\ ~s.reading /\ s.waiting # <<>> => s.sent # None

\* The invariant of the transport, `own` being the commands that were given a process of
\* their own, which the transport alone gives to none.
StdioInv(own) ==
    /\ Sound(io, stdin, running, stdout, ran, own, Lives)
    /\ Idle(io)
    /\ child \in {"none", "starting", "up", "gone", "closed"}
    /\ noise \in 0 .. MaxNoise

\* An event answers commands that were pending, and sends what was waiting.
Answering ==
    /\ \A c \in Commands :
          \/ io'.answers[c] = io.answers[c]
          \/ io.answers[c] = "pending" /\ io'.answers[c] \in Verdicts
    /\ io'.nextId # io.nextId => io.waiting # <<>> /\ io.ended = "no"
    /\ io'.waiting # <<>> => io.waiting # <<>> \/ io'.ended # "no"
    /\ io.ready => io'.ready
    /\ io.ended # "no" => io'.ended # "no"

LEMMA StopAnswers ==
    ASSUME NEW own, StdioInv(own), io' \in Fields, io'.answers = Stop(io).answers,
           io'.nextId = io.nextId, io'.ready = io.ready, io'.ended = Stop(io).ended,
           io'.waiting = <<>>
    PROVE  Answering
<1>1. io \in Fields  BY DEF StdioInv, Sound, FieldsInv
<1>2. /\ Stop(io).ended # "no"
      /\ \A c \in Commands : Stop(io).answers[c] =
             IF SentIs(io, c) THEN "doubt"
             ELSE IF c \in ToSet(io.waiting) THEN "refused" ELSE io.answers[c]
  BY <1>1, StopFields
<1>3. \A c \in Commands : SentIs(io, c) \/ c \in ToSet(io.waiting) => io.answers[c] = "pending"
  BY DEF StdioInv, Sound, FieldsInv, SentIs, ToSet
<1>4. QED  BY <1>2, <1>3 DEF Answering, Verdicts

\* What every event keeps.
Kept(own) ==
    /\ Sound(io', stdin', running', stdout', ran', own, Lives')
    /\ Idle(io')
    /\ child' \in {"none", "starting", "up", "gone", "closed"}
    /\ noise' \in 0 .. MaxNoise

\* Timers, exits and errors: the transport stops.
LEMMA StopEvents ==
    ASSUME NEW own, StdioInv(own), StartTimer \/ AnswerTimer \/ SeeExit \/ SeeError
    PROVE  Kept(own) /\ Answering
<1>1. io \in Fields  BY DEF StdioInv, Sound, FieldsInv
<1>2. /\ Stop(io) \in Fields /\ Stop(io).nextId = io.nextId /\ Stop(io).ready = io.ready
      /\ Stop(io).sent = None /\ Stop(io).ended # "no" /\ Stop(io).waiting = <<>>
  BY <1>1, StopFields
<1>3. /\ io' = Stop(io) \/ io' = [Stop(io) EXCEPT !.signalled = TRUE]
      /\ UNCHANGED <<running, stdin, stdout, noise, ran>>
      /\ child' \in {child, "closed"}
  BY DEF StartTimer, AnswerTimer, SeeExit, SeeError, GiveUp
<1>4. /\ io' \in Fields /\ io'.waiting = Stop(io).waiting /\ io'.sent = Stop(io).sent
      /\ io'.nextId = Stop(io).nextId /\ io'.answers = Stop(io).answers
      /\ io'.ready = Stop(io).ready /\ io'.ended = Stop(io).ended
  BY <1>2, <1>3 DEF Fields
<1>5. Sound(Stop(io), stdin, running, stdout, ran, own, Lives')
  BY StopKeeps DEF StdioInv
<1>6. Sound(io', stdin, running, stdout, ran, own, Lives')
  BY <1>4, <1>5, FlagsKeep
<1>7. Answering
  BY <1>2, <1>4, StopAnswers
<1>8. Idle(io')
  BY <1>2, <1>4 DEF Idle
<1>9. QED  BY <1>3, <1>6, <1>7, <1>8 DEF StdioInv, Kept

\* A line read answers at most the command in flight.
LEMMA LineAnswers ==
    ASSUME NEW own, StdioInv(own), stdout # <<>>, io.ended # "early"
    PROVE  LET t == ReadLine(io, Head(stdout)).fields
           IN  /\ t \in Fields
               /\ \A c \in Commands :
                     \/ t.answers[c] = io.answers[c]
                     \/ io.answers[c] = "pending" /\ t.answers[c] \in Verdicts
               /\ t.waiting # <<>> => io.waiting # <<>>
               /\ t.ended = "no" => io.ended = "no"
               /\ io.ready => t.ready
<1> DEFINE line == Head(stdout)
           t == ReadLine(io, line).fields
<1>1. io \in Fields  BY DEF StdioInv, Sound, FieldsInv
<1>2. t \in Fields
  BY LineKeeps DEF StdioInv, Sound, FieldsInv
<1>3. \A c \in Commands : SentIs(io, c) \/ c \in ToSet(io.waiting) => io.answers[c] = "pending"
  BY DEF StdioInv, Sound, FieldsInv, SentIs, ToSet
<1>4. /\ Stop(io).waiting = <<>> /\ Stop(io).ended # "no" /\ Stop(io) \in Fields /\ Stop(io).ready = io.ready
      /\ \A c \in Commands : Stop(io).answers[c] =
             IF SentIs(io, c) THEN "doubt"
             ELSE IF c \in ToSet(io.waiting) THEN "refused" ELSE io.answers[c]
  BY <1>1, StopFields
<1>5. CASE line.kind = "malformed" \/ (line.kind = "ready" /\ io.ready)
  <2>1. t = [Stop(io) EXCEPT !.signalled = TRUE]
    BY <1>5 DEF ReadLine, Halt, GiveUp
  <2>2. /\ t.waiting = <<>> /\ t.ended # "no" /\ t.answers = Stop(io).answers /\ t.ready = io.ready
    BY <1>4, <2>1 DEF Fields
  <2> HIDE DEF t
  <2>3. QED  BY <1>2, <1>3, <1>4, <2>2 DEF Verdicts, t
<1>6. CASE line.kind = "ready" /\ ~io.ready
  <2>1. t = [io EXCEPT !.ready = TRUE, !.startTimer = IF io.startTimer = "armed" THEN "cleared" ELSE io.startTimer]
    BY <1>1, <1>6 DEF ReadLine, Go, Fields
  <2>2. t.waiting = io.waiting /\ t.answers = io.answers /\ t.ended = io.ended
    BY <1>1, <2>1 DEF Fields
  <2>3. QED  BY <1>2, <1>6, <2>2
<1>7. CASE line.kind \notin {"malformed", "ready"} /\ (io.sent = None \/ io.sent.id # line.id)
  BY <1>1, <1>7 DEF ReadLine, Go
<1>8. CASE line.kind \notin {"malformed", "ready"} /\ io.sent # None /\ io.sent.id = line.id
  <2> DEFINE c == io.sent.command
             u == [io EXCEPT !.sent = None, !.answers = [io.answers EXCEPT ![c] = line.kind]]
  <2>1. line.kind \in Verdicts
    BY <1>8, TailLines DEF Lines, StdioInv, Sound, LinesInv
  <2>2. c \in Commands /\ io.answers[c] = "pending"
    BY <1>1, <1>8 DEF Fields, Requests, StdioInv, Sound, FieldsInv
  <2>3. t = IF line.kind = "doubt" THEN Stop(u) ELSE u
    BY <1>1, <1>8 DEF ReadLine, Reply, Halt, Go, Settle, Fields
  <2>4. [io.answers EXCEPT ![c] = line.kind] \in [Commands -> {"uncalled", "pending"} \cup Verdicts]
    BY <1>1, <2>1, <2>2 DEF Fields
  <2> HIDE DEF c
  <2>5. /\ u \in Fields /\ u.sent = None /\ u.waiting = io.waiting /\ u.ended = io.ended
        /\ u.ready = io.ready /\ u.answers = [io.answers EXCEPT ![c] = line.kind]
        /\ io.answers \in [Commands -> {"uncalled", "pending"} \cup Verdicts]
    BY <1>1, <2>4 DEF Fields
  <2> HIDE DEF u
  <2>6. /\ Stop(u).waiting = <<>> /\ Stop(u).ended # "no" /\ Stop(u).ready = u.ready
        /\ \A d \in Commands : Stop(u).answers[d] =
             IF d \in ToSet(u.waiting) THEN "refused" ELSE u.answers[d]
    BY <2>5, StopFields DEF SentIs
  <2>7. QED  BY <1>2, <1>3, <2>1, <2>2, <2>3, <2>5, <2>6 DEF Verdicts
<1>9. QED  BY <1>5, <1>6, <1>7, <1>8

\* Reading a line of a chunk, the last of it or not.
LEMMA ReadEvent ==
    ASSUME NEW own, StdioInv(own), Read
    PROVE  Kept(own) /\ Answering
<1>1. io \in Fields  BY DEF StdioInv, Sound, FieldsInv
<1>2. /\ stdout # <<>> /\ stdout' = Tail(stdout) /\ UNCHANGED <<child, running, noise, ran>>
      /\ stdin' = Written(io, io', stdin)
  BY DEF Read, WriteThrough, Written
<1>3. CASE io.ended = "early"
  <2>1. io' = [io EXCEPT !.reading = FALSE]
    BY <1>3 DEF Read
  <2>2. /\ io' \in Fields /\ io'.waiting = io.waiting /\ io'.sent = io.sent
        /\ io'.nextId = io.nextId /\ io'.answers = io.answers
        /\ io'.ready = io.ready /\ io'.ended = io.ended
    BY <1>1, <2>1 DEF Fields
  <2>3. io.sent = None
    BY <1>3 DEF StdioInv, Sound, FieldsInv
  <2>4. Sound(io, stdin, running, Tail(stdout), ran, own, Lives)
    BY <1>2, <2>3, TailKeeps DEF StdioInv
  <2>5. Sound(io', stdin, running, Tail(stdout), ran, own, Lives)
    BY <2>2, <2>4, FlagsKeep
  <2>6. stdin' = stdin
    BY <1>2, <2>2 DEF Written
  <2>7. QED  BY <1>2, <1>3, <2>2, <2>5, <2>6 DEF Kept, Idle, Answering, StdioInv, Lives
<1>4. CASE io.ended # "early"
  <2> DEFINE r == ReadLine(io, Head(stdout))
             t == r.fields
  <2>1. PICK more \in {FALSE, Len(stdout) > 1} : io' = Onward(r, more)
    BY <1>4 DEF Read
  <2>2. /\ Sound(t, stdin, running, Tail(stdout), ran, own, Lives) /\ t.nextId = io.nextId
    BY <1>2, <1>4, LineKeeps DEF StdioInv
  <2>3. /\ t \in Fields
        /\ \A c \in Commands :
              \/ t.answers[c] = io.answers[c]
              \/ io.answers[c] = "pending" /\ t.answers[c] \in Verdicts
        /\ t.waiting # <<>> => io.waiting # <<>>
        /\ t.ended = "no" => io.ended = "no"
        /\ io.ready => t.ready
    BY <1>2, <1>4, LineAnswers
  <2>4. r.going \in BOOLEAN /\ (~r.going => t.ended # "no")
    <3> DEFINE line == Head(stdout)
               u == Settle([io EXCEPT !.sent = None], io.sent.command, line.kind)
    <3>1. Stop(io).ended # "no" /\ Stop(io) \in Fields
      BY <1>1, StopFields
    <3>2. CASE line.kind = "malformed" \/ (line.kind = "ready" /\ io.ready)
      BY <3>1, <3>2 DEF ReadLine, Halt, GiveUp, Fields
    <3>3. CASE line.kind = "ready" /\ ~io.ready
      BY <3>3 DEF ReadLine, Go
    <3>4. CASE line.kind \notin {"malformed", "ready"} /\ (io.sent = None \/ io.sent.id # line.id)
      BY <3>4 DEF ReadLine, Go
    <3>5. CASE line.kind \notin {"malformed", "ready"} /\ io.sent # None /\ io.sent.id = line.id
      <4>1. r = Reply(io, line)
        BY <3>5 DEF ReadLine
      <4>2. u.ended = io.ended
        BY <1>1 DEF Settle, Fields
      <4>3. Stop(u).ended # "no"
        BY <1>1 DEF Stop, Settle, Fields
      <4> HIDE DEF u
      <4>4. Reply(io, line) = IF line.kind = "doubt" THEN Halt(Stop(u))
                              ELSE IF io.ended # "no" THEN Halt(u) ELSE Go(u)
        BY DEF Reply, u
      <4>5. r = [fields |-> Stop(u), going |-> FALSE] \/ r = [fields |-> u, going |-> TRUE]
            \/ (r = [fields |-> u, going |-> FALSE] /\ u.ended # "no")
        BY <4>1, <4>2, <4>4 DEF Halt, Go
      <4> HIDE DEF r
      <4>6. (r.going = FALSE \/ r.going = TRUE) /\ (r.going = FALSE => r.fields.ended # "no")
        BY <4>3, <4>5
      <4>7. QED  BY <4>6
    <3>6. QED  BY <3>2, <3>3, <3>4, <3>5
  <2> DEFINE u == [t EXCEPT !.reading = r.going /\ more]
  <2>5. io' = IF r.going /\ ~more THEN Send(u) ELSE u
    BY <2>1 DEF Onward
  <2> HIDE DEF t, r
  <2>6. /\ u \in Fields /\ u.waiting = t.waiting /\ u.sent = t.sent
        /\ u.nextId = t.nextId /\ u.answers = t.answers /\ u.reading = (r.going /\ more)
        /\ u.ready = t.ready /\ u.ended = t.ended
    BY <2>3, <2>4 DEF Fields
  <2> HIDE DEF u
  <2>7. Sound(u, stdin, running, Tail(stdout), ran, own, Lives)
    BY <2>2, <2>6, FlagsKeep
  <2>8. CASE r.going /\ ~more
    <3>1. io' = Send(u)  BY <2>5, <2>8
    <3>2. Sound(Send(u), Written(u, Send(u), stdin), running, Tail(stdout), ran, own, Lives)
      BY <2>7, SendKeeps
    <3>3. Written(u, Send(u), stdin) = stdin'
      BY <1>2, <2>2, <2>6, <3>1 DEF Written
    <3>4. /\ Send(u).answers = u.answers /\ Send(u).ended = u.ended /\ Send(u).ready = u.ready
          /\ Send(u).nextId # u.nextId => u.waiting # <<>> /\ u.ended = "no"
          /\ Send(u).waiting # <<>> => u.waiting # <<>>
          /\ Idle(Send(u))
      <4>1. CASE ~u.ready \/ u.sent # None \/ u.ended # "no" \/ u.waiting = <<>>
        BY <2>6, <4>1 DEF Send, Idle
      <4>2. CASE ~(~u.ready \/ u.sent # None \/ u.ended # "no" \/ u.waiting = <<>>)
        <5> DEFINE q == [id |-> u.nextId, command |-> Head(u.waiting)]
        <5>1. Send(u) = [u EXCEPT !.sent = q, !.waiting = Tail(u.waiting), !.nextId = u.nextId + 1]
          BY <2>6, <4>2 DEF Send, Fields
        <5>2. u.nextId \in Nat \ {0} /\ Head(u.waiting) \in Commands
          BY <2>6, <4>2, HeadTailProperties DEF Fields
        <5>3. q # None
          BY <5>2, NoneAssumption DEF Requests
        <5> HIDE DEF q
        <5>4. QED  BY <2>6, <4>2, <5>1, <5>3 DEF Idle, Fields
      <4>3. QED  BY <4>1, <4>2
    <3>5. QED  BY <1>2, <2>2, <2>3, <2>6, <3>1, <3>2, <3>3, <3>4
           DEF Kept, Answering, StdioInv, Lives
  <2>9. CASE ~(r.going /\ ~more)
    <3>1. io' = u  BY <2>5, <2>9
    <3>2. stdin' = stdin
      BY <1>2, <2>2, <2>6, <3>1 DEF Written
    <3>3. QED  BY <1>2, <2>2, <2>3, <2>4, <2>6, <2>7, <2>9, <3>1, <3>2
           DEF Kept, Idle, Answering, StdioInv, Lives
  <2>10. QED  BY <2>8, <2>9
<1>5. QED  BY <1>3, <1>4

\* What a child's line adds to its pipe.
LEMMA LineAppended ==
    ASSUME NEW out \in Seq(Lines), NEW line \in Lines
    PROVE  /\ Append(out, line) \in Seq(Lines)
           /\ \A i \in DOMAIN out : i \in DOMAIN Append(out, line) /\ Append(out, line)[i] = out[i]
           /\ \A i \in DOMAIN Append(out, line) : i \in DOMAIN out \/ Append(out, line)[i] = line
           /\ \A i \in DOMAIN Append(out, line) : i \notin DOMAIN out =>
                 \A j \in DOMAIN out : j \in 1 .. i - 1 /\ Append(out, line)[j] = out[j]
           /\ \E i \in DOMAIN Append(out, line) : i \notin DOMAIN out /\ Append(out, line)[i] = line
           /\ \A i \in DOMAIN out : 1 .. i - 1 \subseteq DOMAIN out
<1>1. /\ Append(out, line) \in Seq(Lines) /\ Len(Append(out, line)) = Len(out) + 1
      /\ \A i \in 1 .. Len(out) : Append(out, line)[i] = out[i]
      /\ Append(out, line)[Len(out) + 1] = line
  BY AppendProperties
<1>2. DOMAIN out = 1 .. Len(out) /\ Len(out) \in Nat
      /\ DOMAIN Append(out, line) = 1 .. Len(out) + 1
  BY <1>1, LenProperties
<1>3. QED  BY <1>1, <1>2

\* A line that replies to nothing in the child's hands, and where it is the first to reply
\* to the command in flight does so truly.
LEMMA WriteKeeps ==
    ASSUME NEW s, NEW in, NEW run, NEW out, NEW rn, NEW own, NEW lives, NEW line \in Lines,
           Sound(s, in, run, out, rn, own, lives),
           line.kind \in Verdicts =>
               line.id < s.nextId /\ \A q \in Hand(in, run) : q.id # line.id,
           s.sent # None /\ Replies(line, s.sent.id) =>
               \/ Truthful(line.kind, rn[s.sent.command])
               \/ \E i \in DOMAIN out : Replies(out[i], s.sent.id)
    PROVE  Sound(s, in, run, Append(out, line), rn, own, lives)
<1> USE DEF Sound
<1> DEFINE more == Append(out, line)
<1>1. /\ more \in Seq(Lines)
      /\ \A i \in DOMAIN out : i \in DOMAIN more /\ more[i] = out[i]
      /\ \A i \in DOMAIN more : i \in DOMAIN out \/ more[i] = line
      /\ \A i \in DOMAIN more : i \notin DOMAIN out =>
            \A j \in DOMAIN out : j \in 1 .. i - 1 /\ more[j] = out[j]
      /\ \A i \in DOMAIN out : 1 .. i - 1 \subseteq DOMAIN out
  BY LineAppended DEF LinesInv
<1> HIDE DEF more
<1>2. \A i \in DOMAIN more : more[i].kind \in Verdicts =>
          more[i].id < s.nextId /\ \A q \in Hand(in, run) : q.id # more[i].id
  BY <1>1 DEF LinesInv
<1>3. ASSUME s.sent # None, NEW i \in DOMAIN more, Replies(more[i], s.sent.id),
             \A j \in 1 .. i - 1 : ~Replies(more[j], s.sent.id)
      PROVE  Truthful(more[i].kind, rn[s.sent.command])
  <2>1. CASE i \in DOMAIN out
    <3>1. \A j \in 1 .. i - 1 : more[j] = out[j]
      BY <1>1, <2>1
    <3>2. QED  BY <1>1, <1>3, <2>1, <3>1 DEF LinesInv
  <2>2. CASE i \notin DOMAIN out
    <3>1. more[i] = line /\ \A j \in DOMAIN out : ~Replies(out[j], s.sent.id)
      BY <1>1, <1>3, <2>2
    <3>2. QED  BY <1>3, <3>1
  <2>3. QED  BY <2>1, <2>2
<1>4. ASSUME NEW i \in DOMAIN out, Replies(out[i], s.sent.id)
      PROVE  \E j \in DOMAIN more : Replies(more[j], s.sent.id)
  BY <1>1, <1>4
<1>5. LinesInv(s, in, run, more, rn, lives)
  BY <1>1, <1>2, <1>3, <1>4 DEF LinesInv
<1>6. QED  BY <1>5 DEF more

\* What the child does on its own changes nothing at the transport.
LEMMA ChildEvents ==
    ASSUME NEW own, StdioInv(own),
           ChildReady \/ ChildTakes \/ ChildActs \/ ChildAnswers \/ ChildBabbles \/ ChildDies
    PROVE  Kept(own) /\ Answering
<1> DEFINE Kind == {"none", "starting", "up", "gone", "closed"}
<1>1. io' = io
  BY DEF ChildReady, ChildTakes, ChildActs, ChildAnswers, ChildBabbles, ChildDies
<1>2. Answering
  BY <1>1 DEF Answering
<1>3. /\ Sound(io, stdin, running, stdout, ran, own, Lives) /\ noise \in 0 .. MaxNoise /\ Idle(io)
      /\ FieldsInv(io) /\ io \in Fields /\ HandInv(io, stdin, running)
      /\ LinesInv(io, stdin, running, stdout, ran, Lives) /\ RanInv(io, ran, own)
  BY DEF StdioInv, Sound, FieldsInv
<1>4. CASE ChildReady
  <2> DEFINE line == [kind |-> "ready"]
  <2>1. line \in Lines /\ line.kind \notin Verdicts
    BY DEF Lines, Verdicts
  <2>2. Sound(io, stdin, running, Append(stdout, line), ran, own, Lives)
    BY <1>3, <2>1, WriteKeeps DEF Replies
  <2>3. Lives' = Lives /\ child' \in Kind
    BY <1>4 DEF ChildReady, Lives
  <2>4. QED  BY <1>1, <1>2, <1>3, <1>4, <2>2, <2>3 DEF ChildReady, Write, Kept
<1>5. CASE ChildTakes
  <2>1. PICK q \in Requests : stdin = <<q>> /\ running = None
    BY <1>3, <1>5 DEF HandInv, ChildTakes
  <2>2. /\ running' = q /\ stdin' = <<>> /\ q # None
        /\ Hand(stdin', running') = Hand(stdin, running)
    BY <1>5, <2>1, NoneAssumption DEF ChildTakes, Hand, ToSet
  <2>3. /\ Lives' = Lives /\ child' \in Kind /\ UNCHANGED <<io, stdout, noise, ran>>
    BY <1>5 DEF ChildTakes, Lives
  <2>4. HandInv(io, stdin', running')
    BY <1>3, <2>1, <2>2 DEF HandInv
  <2>5. LinesInv(io, stdin', running', stdout, ran, Lives)
    BY <1>3, <2>2 DEF LinesInv
  <2>6. QED  BY <1>2, <1>3, <2>3, <2>4, <2>5 DEF Kept, Sound
<1>6. CASE ChildActs
  <2> DEFINE c == running.command
  <2>1. /\ running \in Requests /\ running \in Hand(stdin, running) /\ c \in Commands
    BY <1>3, <1>6 DEF HandInv, ChildActs, Hand, Requests
  <2>2. /\ ran' = [ran EXCEPT ![c] = 1] /\ ran[c] = 0
        /\ UNCHANGED <<io, child, running, stdin, stdout, noise>>
    BY <1>3, <1>6, <2>1 DEF ChildActs, RanInv
  <2>3. \/ io.sent = running
        \/ io.sent = None /\ io.answers[c] = "doubt"
    BY <1>3, <2>1 DEF HandInv
  <2>4. io.answers[c] \in {"pending", "doubt"} /\ \A i \in DOMAIN io.waiting : io.waiting[i] # c
    BY <1>3, <1>6, <2>3 DEF FieldsInv, ChildActs
  <2>5. \A i \in DOMAIN io.waiting : io.waiting[i] \in Commands
    BY <1>3 DEF Fields
  <2> HIDE DEF c
  <2>6. RanInv(io, ran', own)
    BY <1>3, <2>1, <2>2, <2>4, <2>5 DEF RanInv
  <2>7. LinesInv(io, stdin, running, stdout, ran', Lives)
    <3> SUFFICES ASSUME io.sent # None
                 PROVE  \A i \in DOMAIN stdout : ~Replies(stdout[i], io.sent.id)
      BY <1>3 DEF LinesInv
    <3>1. io.sent = running
      BY <2>3
    <3>2. QED  BY <1>3, <2>1, <3>1 DEF LinesInv, Replies
  <2>8. QED  BY <1>2, <1>3, <2>2, <2>6, <2>7 DEF Kept, Sound, Lives, StdioInv
<1>7. CASE ChildAnswers
  <2> DEFINE c == running.command
  <2>1. running \in Requests /\ running # None /\ stdin = <<>>
    BY <1>3, <1>7, NoneAssumption DEF HandInv, ChildAnswers
  <2>2. PICK kind \in Verdicts :
            /\ stdout' = Append(stdout, [kind |-> kind, id |-> running.id])
            /\ Truthful(kind, ran[c])
    <3>1. c \in Commands /\ ran[c] \in Nat /\ ran[c] <= 1
      BY <1>3, <2>1 DEF RanInv, Requests
    <3>2. PICK kind \in (IF ran[c] = 0 THEN {"refused", "doubt"} ELSE {"done", "noTab", "doubt"}) :
              stdout' = Append(stdout, [kind |-> kind, id |-> running.id])
      BY <1>7 DEF ChildAnswers, Write
    <3>3. CASE ran[c] = 0
      BY <3>2, <3>3 DEF Truthful, Verdicts
    <3>4. CASE ran[c] # 0
      <4>1. ran[c] = 1  BY <3>1, <3>4
      <4>2. QED  BY <3>2, <3>4, <4>1 DEF Truthful, Verdicts
    <3>5. QED  BY <3>3, <3>4
  <2> DEFINE line == [kind |-> kind, id |-> running.id]
  <2>3. line \in Lines /\ line.id = running.id /\ line.kind = kind
    BY <2>1 DEF Lines, Requests
  <2>4. Hand(stdin, running) = {running} /\ Hand(stdin, None) = {}
    BY <2>1 DEF Hand, ToSet
  <2>5. running.id < io.nextId /\ (io.sent = running \/ io.sent = None)
    BY <1>3, <2>4 DEF HandInv
  <2>6. Sound(io, stdin, None, stdout, ran, own, FALSE)
    <3>1. HandInv(io, stdin, None)
      BY <2>1, <2>4 DEF HandInv
    <3>2. LinesInv(io, stdin, None, stdout, ran, FALSE)
      BY <1>3, <2>4 DEF LinesInv
    <3>3. QED  BY <1>3, <3>1, <3>2 DEF Sound
  <2> HIDE DEF line
  <2>7. Sound(io, stdin, None, Append(stdout, line), ran, own, FALSE)
    BY <2>2, <2>3, <2>4, <2>5, <2>6, WriteKeeps
  <2>8. io.sent # None => \E i \in DOMAIN Append(stdout, line) : Replies(Append(stdout, line)[i], io.sent.id)
    <3>1. \E i \in DOMAIN Append(stdout, line) : Append(stdout, line)[i] = line
      BY <1>3, <2>3, LineAppended DEF LinesInv
    <3>2. io.sent # None => Replies(line, io.sent.id)
      BY <2>2, <2>3, <2>5 DEF Replies
    <3>3. QED  BY <3>1, <3>2
  <2>9. Sound(io, stdin, None, Append(stdout, line), ran, own, Lives)
    BY <2>7, <2>8 DEF Sound, LinesInv
  <2>10. /\ stdout' = Append(stdout, line) /\ running' = None
         /\ UNCHANGED <<io, child, stdin, noise, ran>> /\ Lives' = Lives
    BY <1>7, <2>2 DEF ChildAnswers, Lives, line
  <2>11. QED  BY <1>2, <1>3, <2>9, <2>10 DEF Kept, StdioInv
<1>8. CASE ChildBabbles
  <2>1. PICK line \in Lines : /\ stdout' = Append(stdout, line)
                              /\ \/ line.kind \notin Verdicts
                                 \/ /\ line.id < io.nextId
                                    /\ \A q \in Hand(stdin, running) : q.id # line.id
    <3>1. CASE \E kind \in {"malformed", "ready"} : Write([kind |-> kind])
      BY <3>1 DEF Write, Lines, Verdicts
    <3>2. CASE \E id \in (1 .. io.nextId - 1) \ {q.id : q \in InHand} :
                   Write([kind |-> "done", id |-> id])
      <4>1. PICK id \in (1 .. io.nextId - 1) \ {q.id : q \in InHand} :
                   Write([kind |-> "done", id |-> id])
        BY <3>2
      <4>2. io.nextId \in Nat
        BY <1>3 DEF Fields
      <4>3. id \in Nat \ {0} /\ id < io.nextId /\ \A q \in Hand(stdin, running) : q.id # id
        BY <4>1, <4>2 DEF InHand, Hand
      <4>4. [kind |-> "done", id |-> id] \in Lines
        BY <4>3 DEF Lines, Verdicts
      <4>5. QED  BY <4>1, <4>3, <4>4 DEF Write
    <3>3. QED  BY <1>8, <3>1, <3>2 DEF ChildBabbles
  <2>2. io.sent # None /\ Replies(line, io.sent.id) => \E i \in DOMAIN stdout : Replies(stdout[i], io.sent.id)
    <3> SUFFICES ASSUME io.sent # None, Replies(line, io.sent.id)
                 PROVE  \E i \in DOMAIN stdout : Replies(stdout[i], io.sent.id)
      OBVIOUS
    <3>1. io.sent \notin Hand(stdin, running)
      BY <2>1 DEF Replies
    <3>2. Lives
      BY <1>8 DEF ChildBabbles, Lives
    <3>3. QED  BY <1>3, <3>1, <3>2 DEF LinesInv
  <2>3. Sound(io, stdin, running, Append(stdout, line), ran, own, Lives)
    BY <1>3, <2>1, <2>2, WriteKeeps
  <2>4. /\ UNCHANGED <<io, child, running, stdin, ran>> /\ noise' \in 0 .. MaxNoise /\ Lives' = Lives
    BY <1>3, <1>8, NoiseAssumption DEF ChildBabbles, Lives
  <2>5. QED  BY <1>2, <1>3, <2>1, <2>3, <2>4 DEF Kept, StdioInv
<1>9. CASE ChildDies
  <2>1. /\ child' = "gone" /\ running' = None /\ UNCHANGED <<io, stdin, stdout, noise, ran>> /\ ~Lives'
    BY <1>9 DEF ChildDies, Lives
  <2>2. \A q \in Hand(stdin, None) : q \in Hand(stdin, running)
    BY DEF Hand
  <2>3. HandInv(io, stdin, None) /\ LinesInv(io, stdin, None, stdout, ran, FALSE)
    BY <1>3, <2>2 DEF HandInv, LinesInv
  <2>4. LinesInv(io, stdin, None, stdout, ran, Lives')
    BY <2>1, <2>3 DEF LinesInv
  <2>5. QED  BY <1>2, <1>3, <2>1, <2>3, <2>4 DEF Kept, Sound
<1>10. QED  BY <1>4, <1>5, <1>6, <1>7, <1>8, <1>9

LEMMA EventsKeep ==
    ASSUME NEW own, StdioInv(own), StdioEvent
    PROVE  Kept(own) /\ Answering
BY ReadEvent, StopEvents, ChildEvents DEF StdioEvent

\* A call, by a command that was not made before and has no process of its own.
LEMMA RunKeeps ==
    ASSUME NEW own, StdioInv(own), NEW c \in Commands, c \notin own, Run(c),
           UNCHANGED <<running, stdout, noise, ran>>, child' = child \/ child' = "starting",
           child \in {"gone", "closed"} => child' = child
    PROVE  /\ Kept(own)
           /\ \E answer \in {"pending", "refused"} : io'.answers = [io.answers EXCEPT ![c] = answer]
           /\ io.ready => io'.ready
           /\ io.ended # "no" => io'.ended # "no" /\ io'.nextId = io.nextId
<1>1. io \in Fields  BY DEF StdioInv, Sound, FieldsInv
<1>2. io' = Ask(io, c) /\ io.answers[c] = "uncalled" /\ stdin' = Written(io, io', stdin)
  BY DEF Run, WriteThrough, Written
<1>3. /\ Sound(io', stdin', running, stdout, ran, own, Lives)
      /\ io.ended # "no" => /\ io'.answers = [io.answers EXCEPT ![c] = "refused"]
                            /\ io'.nextId = io.nextId
      /\ io.ended = "no" => io'.answers = [io.answers EXCEPT ![c] = "pending"]
  BY <1>2, AskKeeps DEF StdioInv
<1>4. Lives' = Lives /\ child' \in {"none", "starting", "up", "gone", "closed"}
  BY DEF Lives, StdioInv
<1>5. Idle(io') /\ (io.ready => io'.ready) /\ (io.ended # "no" => io'.ended # "no")
  <2>1. CASE io.ended # "no"
    <3>1. io' = [io EXCEPT !.answers = [io.answers EXCEPT ![c] = "refused"]]
      BY <1>1, <1>2, <2>1 DEF Ask, Settle, Fields
    <3>2. QED  BY <1>1, <2>1, <3>1 DEF Idle, Fields
  <2>2. CASE io.ended = "no"
    <3> DEFINE armed == IF ~io.ready /\ io.startTimer = "unset" THEN "armed" ELSE io.startTimer
               t == [io EXCEPT !.startTimer = armed, !.waiting = Append(io.waiting, c),
                               !.answers = [io.answers EXCEPT ![c] = "pending"]]
    <3>1. io' = Send(t)
      BY <1>1, <1>2, <2>2 DEF Ask, Settle, Fields
    <3>2. /\ [io.answers EXCEPT ![c] = "pending"] \in [Commands -> {"uncalled", "pending"} \cup Verdicts]
          /\ armed \in {"unset", "armed", "cleared"}
          /\ Append(io.waiting, c) \in Seq(Commands)
      BY <1>1, AppendProperties DEF Fields
    <3> HIDE DEF armed
    <3>3. t \in Fields /\ t.ready = io.ready
      BY <1>1, <3>2 DEF Fields
    <3> HIDE DEF t
    <3>4. CASE ~t.ready \/ t.sent # None \/ t.ended # "no" \/ t.waiting = <<>>
      BY <2>2, <3>1, <3>3, <3>4 DEF Send, Idle
    <3>5. CASE ~(~t.ready \/ t.sent # None \/ t.ended # "no" \/ t.waiting = <<>>)
      <4> DEFINE q == [id |-> t.nextId, command |-> Head(t.waiting)]
      <4>1. io' = [t EXCEPT !.sent = q, !.waiting = Tail(t.waiting), !.nextId = t.nextId + 1]
        BY <3>1, <3>3, <3>5 DEF Send, Fields
      <4>2. t.nextId \in Nat \ {0} /\ Head(t.waiting) \in Commands
        BY <3>3, <3>5, HeadTailProperties DEF Fields
      <4>3. q # None
        BY <4>2, NoneAssumption DEF Requests
      <4> HIDE DEF q
      <4>4. QED  BY <2>2, <3>3, <3>5, <4>1, <4>3 DEF Idle, Fields
    <3>6. QED  BY <3>4, <3>5
  <2>3. QED  BY <1>1, <2>1, <2>2 DEF Fields
<1>6. QED  BY <1>3, <1>4, <1>5 DEF Kept, StdioInv

\* close() drops nothing and answers nobody.
LEMMA CloseKeeps ==
    ASSUME NEW own, StdioInv(own), Close, UNCHANGED <<child, running, stdin, stdout, noise, ran>>
    PROVE  Kept(own) /\ Answering /\ io'.nextId = io.nextId /\ io'.answers = io.answers
           /\ io'.waiting = io.waiting
<1>1. io \in Fields  BY DEF StdioInv, Sound, FieldsInv
<1>2. io' = [io EXCEPT !.ended = IF io.ended = "no" THEN "closed" ELSE io.ended, !.signalled = TRUE]
  BY <1>1 DEF Close, Fields
<1>3. /\ io' \in Fields /\ io'.waiting = io.waiting /\ io'.sent = io.sent
      /\ io'.nextId = io.nextId /\ io'.answers = io.answers /\ io'.ready = io.ready
      /\ io'.ended = IF io.ended = "no" THEN "closed" ELSE io.ended
  BY <1>1, <1>2 DEF Fields
<1>4. Sound(io', stdin, running, stdout, ran, own, Lives)
  BY <1>3, FlagsKeep DEF StdioInv
<1>5. QED  BY <1>3, <1>4 DEF Kept, Answering, Idle, Lives, StdioInv

LEMMA StdioInitial == StdioInit => StdioInv({})
<1> SUFFICES ASSUME StdioInit PROVE StdioInv({})
  OBVIOUS
<1>1. io \in Fields
  BY DEF StdioInit, Fields, Verdicts
<1>2. /\ io.sent = None /\ io.waiting = <<>> /\ io.ended = "no" /\ Hand(stdin, running) = {}
      /\ \A c \in Commands : io.answers[c] = "uncalled"
  BY DEF StdioInit, Hand, ToSet
<1>3. FieldsInv(io)
  BY <1>1, <1>2 DEF FieldsInv, Verdicts
<1>4. HandInv(io, stdin, running) /\ LinesInv(io, stdin, running, stdout, ran, Lives)
  BY <1>2 DEF StdioInit, HandInv, LinesInv
<1>5. RanInv(io, ran, {})
  BY <1>2 DEF StdioInit, RanInv
<1>6. QED  BY <1>2, <1>3, <1>4, <1>5, NoiseAssumption DEF StdioInit, StdioInv, Sound, Idle

LEMMA StdioStep == StdioInv({}) /\ [StdioNext]_stdioVars => StdioInv({})'
<1> SUFFICES ASSUME StdioInv({}), [StdioNext]_stdioVars PROVE Kept({})
  BY DEF Kept, StdioInv, Lives
<1>1. CASE UNCHANGED stdioVars
  BY <1>1 DEF stdioVars, Kept, StdioInv, Lives
<1>2. CASE Attach /\ UNCHANGED <<io, running, stdin, stdout, noise, ran>>
  BY <1>2 DEF Attach, Kept, StdioInv, Lives
<1>3. CASE Close /\ UNCHANGED stdin /\ UNCHANGED <<child, running, stdout, noise, ran>>
  BY <1>3, CloseKeeps
<1>4. ASSUME NEW c \in Commands, Run(c), UNCHANGED <<child, running, stdout, noise, ran>>
      PROVE  Kept({})
  BY <1>4, RunKeeps
<1>5. CASE StdioEvent
  BY <1>5, EventsKeep
<1>6. QED  BY <1>1, <1>2, <1>3, <1>4, <1>5 DEF StdioNext

\* The transport's fields and pipes are what SurfStdio says they are.
THEOREM StdioInvHolds == StdioSpec => [](StdioInv({}) /\ StdioTypeOK)
<1>1. StdioInv({}) => StdioTypeOK
  <2> SUFFICES ASSUME StdioInv({}) PROVE StdioTypeOK
    OBVIOUS
  <2>1. \A q \in Requests : <<q>> \in Seq(Requests)
    OBVIOUS
  <2>2. stdin = <<>> \/ \E q \in Requests : stdin = <<q>>
    BY DEF StdioInv, Sound, HandInv
  <2>3. stdin \in Seq(Requests)
    <3>1. CASE stdin = <<>>
      BY <3>1
    <3>2. CASE \E q \in Requests : stdin = <<q>>
      <4>1. PICK q \in Requests : stdin = <<q>>
        BY <3>2
      <4>2. QED  BY <2>1, <4>1
    <3>3. QED  BY <2>2, <3>1, <3>2
  <2>4. QED  BY <2>3 DEF StdioInv, Sound, FieldsInv, HandInv, LinesInv, RanInv, StdioTypeOK
<1>2. QED  BY <1>1, StdioInitial, StdioStep, PTL DEF StdioSpec

\* Whatever is in the child's hands is pending or in doubt.
LEMMA InChildAnswers ==
    ASSUME NEW own, StdioInv(own), NEW c \in Commands, InChild(c)
    PROVE  io.answers[c] \in {"pending", "doubt"}
<1>1. PICK q \in Hand(stdin, running) : q.command = c
  BY DEF InChild, InHand, Hand
<1>2. io.sent = q \/ io.answers[c] = "doubt"
  BY <1>1 DEF StdioInv, Sound, HandInv
<1>3. q # None
  BY <1>1, NoneAssumption DEF Hand, ToSet, StdioInv, Sound, HandInv
<1>4. QED  BY <1>1, <1>2, <1>3 DEF StdioInv, Sound, FieldsInv

\* A refused command is nobody's: its caller may run it elsewhere.
THEOREM RefusedNeverRanHolds == StdioSpec => []RefusedNeverRan
<1>1. ASSUME StdioInv({}), NEW c \in Commands, io.answers[c] = "refused"
      PROVE  ran[c] = 0 /\ ~InChild(c)
  <2>1. ran[c] = 0
    BY <1>1 DEF StdioInv, Sound, RanInv
  <2>2. ~InChild(c)
    BY <1>1, InChildAnswers
  <2>3. QED  BY <2>1, <2>2
<1>2. StdioInv({}) => RefusedNeverRan
  BY <1>1 DEF RefusedNeverRan
<1>3. QED  BY <1>2, StdioInvHolds, PTL

\* An answer is the answer to the command it settles.
THEOREM AnswerIsOwnHolds == StdioSpec => []AnswerIsOwn
<1>1. StdioInv({}) => AnswerIsOwn
  BY DEF AnswerIsOwn, StdioInv, Sound, RanInv
<1>2. QED  BY <1>1, StdioInvHolds, PTL

--------------------------------------------------------------------------------
(***************************************************************************)
(* A session over the transport.                                            *)
(***************************************************************************)

\* Where the commands of a step are: those to come and the one that is queued were never
\* asked, the one at the transport was, and only that one is pending.
PlaceInv(c) ==
    LET s       == c[1]
        current == c[2] = attempt[s]
    IN  /\ c[2] > attempt[s] \/ (current /\ at[s] \in {"idle", "admitted", "queued"}) =>
              io.answers[c] = "uncalled" /\ c \notin spawned
        /\ current /\ at[s] = "asked" => io.answers[c] # "uncalled" /\ c \notin spawned
        /\ io.answers[c] = "pending" => current /\ at[s] = "asked"
        /\ io.answers[c] \in {"doubt", "noTab"} => Interrupted \/ (current /\ at[s] = "asked")

\* The chain: each step in it once, by its current command, only its head asked.
TailInv ==
    /\ tail \in Seq(Commands)
    /\ \A i \in DOMAIN tail : /\ tail[i] = Command(tail[i][1])
                              /\ at[tail[i][1]] = "queued" \/ (i = 1 /\ at[tail[i][1]] = "asked")
    /\ \A i, j \in DOMAIN tail : tail[i] = tail[j] => i = j
    /\ \A s \in Steps : at[s] = "asked" => tail # <<>> /\ tail[1] = Command(s)

StepInv(s) ==
    /\ at[s] \in {"idle", "admitted"} => attempt[s] = 1
    /\ attempt[s] > 1 => s \in Acts /\ attempt[s] <= Attempts(wanted[s])
    /\ (s \in Acts /\ (attempt[s] > 1 \/ at[s] \in {"admitted", "queued", "asked"})) => StepAccepted(wanted[s])
    /\ outcome[s] = "interrupted" =>
          /\ at[s] \in {"returned", "done"} /\ reason # s
          /\ Command(s) \in Commands /\ Command(s) \notin spawned
          /\ io.answers[Command(s)] \in {"uncalled", "refused"}
    /\ reason = s => at[s] \in {"returned", "done"}

\* A tab that was opened through the child was opened by a child that was ready, or is over.
Opening == hasStdio => io.ready \/ io.ended # "no"

SessionTypes ==
    /\ hasStdio \in BOOLEAN
    /\ wanted \in [Acts -> UNION {Wants[s] : s \in Acts}] /\ \A s \in Acts : wanted[s] \in Wants[s]
    /\ at \in [Steps -> {"idle", "admitted", "queued", "asked", "returned", "done"}]
    /\ attempt \in [Steps -> Nat \ {0}]
    /\ outcome \in [Steps -> Outcomes \cup {None}]
    /\ reason \in Steps \cup {"cdp", None}
    /\ tab \in {"none", "owned", "dropped"}
    /\ closed \in BOOLEAN
    /\ spawned \subseteq Commands

SessionInv ==
    /\ StdioInv(spawned)
    /\ SessionTypes
    /\ TailInv
    /\ \A c \in Commands : PlaceInv(c)
    /\ \A s \in Steps : StepInv(s)
    /\ ~hasStdio => \A c \in Commands : io.answers[c] = "uncalled"
    /\ outcome[Open] = "ok" \/ tab = "owned" => Opening
    /\ closed \/ at[CloseTab] = "idle"
    /\ Lost => io.waiting = <<>> \/ io.ended # "no"

LEMMA CommandPairs ==
    /\ \A c \in Commands : c = <<c[1], c[2]>> /\ c[1] \in Steps /\ c[2] \in Nat /\ c[2] > 0
    /\ \A s \in Steps : <<s, 1>> \in Commands
<1>1. \A c \in Commands : c \in Steps \X (1 .. AttemptCap)
  BY SessionAssumption
<1>2. AttemptCap \in Nat
  BY DEF AttemptCap
<1>3. QED  BY <1>1, <1>2, SessionAssumption

\* Two commands that are at the transport are one.
LEMMA OnePending ==
    ASSUME SessionInv, NEW c \in Commands, NEW d \in Commands,
           io.answers[c] = "pending" \/ (c = Command(c[1]) /\ at[c[1]] = "asked"),
           io.answers[d] = "pending" \/ (d = Command(d[1]) /\ at[d[1]] = "asked")
    PROVE  c = d /\ tail # <<>> /\ tail[1] = c
<1>1. /\ c = Command(c[1]) /\ at[c[1]] = "asked" /\ c[1] \in Steps
      /\ d = Command(d[1]) /\ at[d[1]] = "asked" /\ d[1] \in Steps
  BY CommandPairs DEF SessionInv, PlaceInv, Command
<1>2. QED  BY <1>1 DEF SessionInv, TailInv

\* What a waiting command is.
LEMMA WaitingPends ==
    ASSUME SessionInv, io.waiting # <<>>
    PROVE  /\ io.waiting[1] \in Commands /\ io.answers[io.waiting[1]] = "pending"
           /\ io.sent # None => FALSE
<1>1. io.waiting \in Seq(Commands) /\ io \in Fields
  BY DEF SessionInv, StdioInv, Sound, FieldsInv, Fields
<1>2. 1 \in DOMAIN io.waiting
  BY <1>1
<1>3. io.waiting[1] \in Commands /\ io.answers[io.waiting[1]] = "pending"
  BY <1>1, <1>2 DEF SessionInv, StdioInv, Sound, FieldsInv
<1>4. ASSUME io.sent # None PROVE FALSE
  <2>1. /\ io.sent.command \in Commands /\ io.answers[io.sent.command] = "pending"
        /\ io.waiting[1] # io.sent.command
    BY <1>1, <1>2, <1>4 DEF SessionInv, StdioInv, Sound, FieldsInv, Fields, Requests
  <2>2. QED  BY <1>3, <2>1, OnePending
<1>5. QED  BY <1>3, <1>4

LEMMA EventsKeepSession ==
    ASSUME SessionInv, StdioEvent, UNCHANGED sessionVars
    PROVE  SessionInv'
<1>1. Kept(spawned) /\ Answering
  BY EventsKeep DEF SessionInv
<1>2. StdioInv(spawned)'
  BY <1>1 DEF Kept, StdioInv, sessionVars
<1>3. UNCHANGED <<hasStdio, wanted, tail, at, attempt, outcome, reason, tab, closed, spawned>>
  BY DEF sessionVars
<1>4. SessionTypes' /\ TailInv' /\ (closed \/ at[CloseTab] = "idle")'
  BY <1>3 DEF SessionInv, SessionTypes, TailInv, Command
<1>5. ASSUME NEW c \in Commands PROVE PlaceInv(c)'
  BY <1>1, <1>3 DEF Answering, SessionInv, PlaceInv, Interrupted, Verdicts
<1>6. ASSUME NEW s \in Steps PROVE StepInv(s)'
  BY <1>1, <1>3 DEF Answering, SessionInv, StepInv, Command
<1>7. (~hasStdio => \A c \in Commands : io.answers[c] = "uncalled")'
  BY <1>1, <1>3 DEF Answering, SessionInv
<1>8. (outcome[Open] = "ok" \/ tab = "owned" => Opening)'
  BY <1>1, <1>3 DEF Answering, SessionInv, Opening
<1>9. (Lost => io.waiting = <<>> \/ io.ended # "no")'
  <2> SUFFICES ASSUME Lost', io'.waiting # <<>>, io'.ended = "no" PROVE FALSE
    OBVIOUS
  <2>1. io.waiting # <<>> /\ io.ended = "no"
    BY <1>1 DEF Answering
  <2>2. ~Lost
    BY <2>1 DEF SessionInv
  <2>3. PICK c \in Commands : io'.answers[c] \in {"doubt", "noTab"} /\ io.answers[c] = "pending"
    BY <1>1, <1>3, <2>2 DEF Answering, Lost, Interrupted
  <2>4. io' \in Fields /\ FieldsInv(io')
    BY <1>1 DEF Kept, Sound, FieldsInv
  <2>5. 1 \in DOMAIN io'.waiting /\ io'.waiting[1] \in Commands
    BY <2>4 DEF Fields
  <2>6. io'.answers[io'.waiting[1]] = "pending"
    BY <2>4, <2>5 DEF FieldsInv
  <2>7. io.answers[io'.waiting[1]] = "pending"
    BY <1>1, <2>5, <2>6 DEF Answering, Verdicts
  <2>8. QED  BY <2>3, <2>5, <2>6, <2>7, OnePending
<1>10. QED  BY <1>2, <1>4, <1>5, <1>6, <1>7, <1>8, <1>9 DEF SessionInv

\* The chain with its head done, and with its head queued once more behind it.
LEMMA HeadDone ==
    ASSUME SessionInv, NEW s \in Steps, tail # <<>>, tail[1] = Command(s), attempt' = attempt,
           NEW place \in {"returned", "done"}, at' = [at EXCEPT ![s] = place], tail' = Tail(tail)
    PROVE  TailInv'
<1>1. /\ Tail(tail) \in Seq(Commands) /\ tail \in Seq(Commands)
      /\ \A i \in DOMAIN Tail(tail) : /\ Tail(tail)[i] = tail[i + 1] /\ i + 1 \in DOMAIN tail
                                      /\ i + 1 # 1 /\ i \in Nat
      /\ 1 \in DOMAIN tail
  <2>1. tail \in Seq(Commands)  BY DEF SessionInv, TailInv
  <2>2. QED  BY <2>1, HeadTailProperties
<1>2. \A i \in DOMAIN tail : i # 1 => /\ tail[i] = Command(tail[i][1]) /\ tail[i][1] \in Steps
                                      /\ at[tail[i][1]] = "queued" /\ tail[i][1] # s
  <2> SUFFICES ASSUME NEW i \in DOMAIN tail, i # 1
               PROVE  /\ tail[i] = Command(tail[i][1]) /\ tail[i][1] \in Steps
                      /\ at[tail[i][1]] = "queued" /\ tail[i][1] # s
    OBVIOUS
  <2>1. tail[i] = Command(tail[i][1]) /\ at[tail[i][1]] = "queued" /\ tail[i] # tail[1]
    BY <1>1 DEF SessionInv, TailInv
  <2>2. tail[i] \in Commands
    BY <1>1
  <2>3. QED  BY <2>1, <2>2, CommandPairs
<1>3. at \in [Steps -> {"idle", "admitted", "queued", "asked", "returned", "done"}]
  BY DEF SessionInv, SessionTypes
<1>4. ASSUME NEW i \in DOMAIN tail'
      PROVE  tail'[i] = <<tail'[i][1], attempt'[tail'[i][1]]>> /\ at'[tail'[i][1]] = "queued"
  <2>1. tail'[i] = tail[i + 1] /\ i + 1 \in DOMAIN tail /\ i + 1 # 1
    BY <1>1
  <2>2. /\ tail[i + 1] = Command(tail[i + 1][1]) /\ tail[i + 1][1] \in Steps
        /\ at[tail[i + 1][1]] = "queued" /\ tail[i + 1][1] # s
    BY <1>2, <2>1
  <2>3. QED  BY <1>3, <2>1, <2>2 DEF Command
<1>5. \A i, j \in DOMAIN tail' : tail'[i] = tail'[j] => i = j
  BY <1>1 DEF SessionInv, TailInv
<1>6. \A t \in Steps : at'[t] # "asked"
  BY <1>3, CommandPairs DEF SessionInv, TailInv, Command
<1>7. QED  BY <1>1, <1>4, <1>5, <1>6 DEF TailInv, Command

LEMMA Enqueued ==
    ASSUME SessionInv, NEW s \in Steps, NEW c \in Commands, NEW rest \in Seq(Commands),
           \A i \in DOMAIN rest : /\ rest[i] = Command(rest[i][1]) /\ rest[i][1] # s
                                  /\ \/ at[rest[i][1]] = "queued"
                                     \/ i = 1 /\ at[rest[i][1]] = "asked",
           \A i, j \in DOMAIN rest : rest[i] = rest[j] => i = j,
           \A t \in Steps : t # s /\ at[t] = "asked" => rest # <<>> /\ rest[1] = Command(t),
           at' = [at EXCEPT ![s] = "queued"], c = Command(s)', c[1] = s,
           \A t \in Steps : t # s => attempt'[t] = attempt[t],
           tail' = Append(rest, c)
    PROVE  TailInv'
<1>1. /\ tail' \in Seq(Commands) /\ Len(tail') = Len(rest) + 1
      /\ \A i \in 1 .. Len(rest) : tail'[i] = rest[i]
      /\ tail'[Len(rest) + 1] = c
  BY AppendProperties
<1>2. /\ \A i \in DOMAIN tail' : i \in DOMAIN rest \/ i = Len(rest) + 1
      /\ \A i \in DOMAIN rest : tail'[i] = rest[i] /\ rest[i] \in Commands /\ i # Len(rest) + 1
  BY <1>1
<1>3. at \in [Steps -> {"idle", "admitted", "queued", "asked", "returned", "done"}]
  BY DEF SessionInv, SessionTypes
<1>4. \A i \in DOMAIN rest : rest[i][1] \in Steps /\ rest[i] = <<rest[i][1], attempt'[rest[i][1]]>>
  BY <1>2, CommandPairs DEF Command
<1>5. ASSUME NEW i \in DOMAIN tail'
      PROVE  /\ tail'[i] = <<tail'[i][1], attempt'[tail'[i][1]]>>
             /\ at'[tail'[i][1]] = "queued" \/ (i = 1 /\ at'[tail'[i][1]] = "asked")
  <2>1. CASE i \in DOMAIN rest
    <3>1. tail'[i] = rest[i] /\ rest[i][1] # s /\ rest[i][1] \in Steps
      BY <1>2, <1>4, <2>1
    <3>2. at'[rest[i][1]] = at[rest[i][1]]
      BY <1>3, <3>1
    <3>3. QED  BY <1>4, <2>1, <3>1, <3>2
  <2>2. CASE i = Len(rest) + 1
    <3>1. tail'[i] = c /\ c = <<s, attempt'[s]>> /\ c[1] = s
      BY <1>1, <2>2 DEF Command
    <3>2. QED  BY <1>3, <3>1
  <2>3. QED  BY <1>2, <2>1, <2>2
<1>6. \A i, j \in DOMAIN tail' : tail'[i] = tail'[j] => i = j
  BY <1>1, <1>2
<1>7. \A t \in Steps : at'[t] = "asked" => tail' # <<>> /\ tail'[1] = Command(t)'
  <2> SUFFICES ASSUME NEW t \in Steps, at'[t] = "asked"
               PROVE  tail' # <<>> /\ tail'[1] = Command(t)'
    OBVIOUS
  <2>1. t # s /\ at[t] = "asked"
    BY <1>3
  <2>2. rest # <<>> /\ rest[1] = Command(t) /\ attempt'[t] = attempt[t]
    BY <2>1
  <2>3. 1 \in DOMAIN rest
    BY <2>2
  <2>4. QED  BY <1>1, <1>2, <2>2, <2>3 DEF Command
<1>8. QED  BY <1>1, <1>5, <1>6, <1>7 DEF TailInv, Command

\* Queueing a step that was not asked before.
LEMMA EnqueueTail ==
    ASSUME SessionInv, NEW s \in Steps, at[s] \in {"idle", "admitted"}, Enqueue(s), attempt' = attempt
    PROVE  TailInv'
<1> DEFINE c == <<s, 1>>
<1>1. Command(s) = c /\ c = Command(s)' /\ c \in Commands /\ c[1] = s
  BY CommandPairs DEF SessionInv, StepInv, Command
<1>2. \A i \in DOMAIN tail : /\ tail[i] = Command(tail[i][1]) /\ tail[i][1] # s
                             /\ at[tail[i][1]] = "queued" \/ (i = 1 /\ at[tail[i][1]] = "asked")
  BY DEF SessionInv, TailInv
<1>3. /\ tail \in Seq(Commands)
      /\ \A i, j \in DOMAIN tail : tail[i] = tail[j] => i = j
      /\ \A t \in Steps : t # s /\ at[t] = "asked" => tail # <<>> /\ tail[1] = Command(t)
  BY DEF SessionInv, TailInv
<1>4. tail' = Append(tail, c) /\ at' = [at EXCEPT ![s] = "queued"]
  BY <1>1 DEF Enqueue
<1>5. \A t \in Steps : t # s => attempt'[t] = attempt[t]
  OBVIOUS
<1> HIDE DEF c
<1>6. QED  BY <1>1, <1>2, <1>3, <1>4, <1>5, Enqueued

\* Trying a step again.
LEMMA AgainTail ==
    ASSUME SessionInv, NEW s \in Steps, tail # <<>>, tail[1] = Command(s), Again(s),
           <<s, attempt[s] + 1>> \in Commands
    PROVE  TailInv'
<1> DEFINE c == <<s, attempt[s] + 1>>
           rest == Tail(tail)
<1>1. /\ rest \in Seq(Commands) /\ tail \in Seq(Commands)
      /\ \A i \in DOMAIN rest : rest[i] = tail[i + 1] /\ i + 1 \in DOMAIN tail /\ i + 1 # 1 /\ i \in Nat
      /\ 1 \in DOMAIN tail
  <2>1. tail \in Seq(Commands)  BY DEF SessionInv, TailInv
  <2>2. QED  BY <2>1, HeadTailProperties
<1>2. attempt \in [Steps -> Nat \ {0}]
  BY DEF SessionInv, SessionTypes
<1>3. c = Command(s)' /\ c[1] = s /\ \A t \in Steps : t # s => attempt'[t] = attempt[t]
  BY <1>2 DEF Again, Command
<1>4. at' = [at EXCEPT ![s] = "queued"] /\ tail' = Append(rest, c)
  BY DEF Again
<1> HIDE DEF rest, c
<1>5. \A i \in DOMAIN rest : /\ rest[i] = Command(rest[i][1]) /\ rest[i][1] # s
                             /\ at[rest[i][1]] = "queued"
  <2> SUFFICES ASSUME NEW i \in DOMAIN rest
               PROVE  /\ rest[i] = Command(rest[i][1]) /\ rest[i][1] # s
                      /\ at[rest[i][1]] = "queued"
    OBVIOUS
  <2>1. /\ tail[i + 1] = Command(tail[i + 1][1]) /\ at[tail[i + 1][1]] = "queued"
        /\ tail[i + 1] # tail[1]
    BY <1>1 DEF SessionInv, TailInv
  <2>2. QED  BY <1>1, <2>1
<1>6. \A i, j \in DOMAIN rest : rest[i] = rest[j] => i = j
  BY <1>1 DEF SessionInv, TailInv
<1>7. \A t \in Steps : t # s => at[t] # "asked"
  BY DEF SessionInv, TailInv, Command
<1>8. c \in Commands
  BY DEF c
<1>9. QED  BY <1>1, <1>3, <1>4, <1>5, <1>6, <1>7, <1>8, Enqueued

\* A command is at the transport: it is the head of the chain and its step waits for it.
AtHead(s) ==
    /\ Command(s) \in Commands
    /\ tail # <<>> /\ tail[1] = Command(s)
    /\ at[s] \in {"queued", "asked"}
    /\ io.answers[Command(s)] # "pending"

\* The step ends, or waits for its next attempt; what its command was given, if it got a
\* process of its own, it was given while nobody else had it.
Concluding(s) ==
    /\ AtHead(s)
    /\ UNCHANGED <<io, hasStdio, wanted, closed>>
    /\ StdioInv(spawned)'
    /\ \/ spawned' = spawned
       \/ spawned' = spawned \cup {Command(s)}

\* Nobody else is pending, so nobody waits.
LEMMA NobodyWaits ==
    ASSUME SessionInv, NEW s \in Steps, AtHead(s)
    PROVE  io.waiting = <<>>
<1> SUFFICES ASSUME io.waiting # <<>> PROVE FALSE
  OBVIOUS
<1>1. io.waiting[1] \in Commands /\ io.answers[io.waiting[1]] = "pending"
  BY WaitingPends
<1>2. tail[1] = io.waiting[1]
  BY <1>1, OnePending
<1>3. QED  BY <1>1, <1>2 DEF AtHead

LEMMA Ended ==
    ASSUME SessionInv, NEW s \in Steps, Concluding(s), NEW how \in Outcomes, End(s, how),
           reason' \in {reason, s}, reason # None => reason' = reason,
           tab' = tab \/ tab' = "dropped",
           io.answers[Command(s)] \in {"doubt", "noTab"} => reason' # None,
           how = "interrupted" => /\ reason' = reason /\ spawned' = spawned
                                  /\ Command(s) \notin spawned
                                  /\ io.answers[Command(s)] \in {"uncalled", "refused"},
           how = "ok" => Opening
    PROVE  SessionInv'
<1> DEFINE place == IF s \in Acts THEN "done" ELSE "returned"
<1>1. /\ at' = [at EXCEPT ![s] = place] /\ place \in {"returned", "done"}
      /\ outcome' = [outcome EXCEPT ![s] = how] /\ tail' = Tail(tail) /\ attempt' = attempt
  BY DEF End
<1> HIDE DEF place
<1>2. /\ at \in [Steps -> {"idle", "admitted", "queued", "asked", "returned", "done"}]
      /\ outcome \in [Steps -> Outcomes \cup {None}] /\ spawned \subseteq Commands
      /\ reason \in Steps \cup {"cdp", None}
      /\ None \notin Steps \cup {"cdp"}
  BY SessionAssumption DEF SessionInv, SessionTypes
<1>3. SessionTypes'
  BY <1>1, <1>2 DEF SessionInv, SessionTypes, Concluding, AtHead
<1>4. TailInv'
  BY <1>1, HeadDone DEF Concluding, AtHead
<1>5. Command(s)[1] = s /\ Command(s)[2] = attempt[s]
  BY DEF Command
<1>6. ASSUME NEW c \in Commands PROVE PlaceInv(c)'
  <2>1. c = <<c[1], c[2]>> /\ c[1] \in Steps
    BY CommandPairs
  <2>2. PlaceInv(c)
    BY DEF SessionInv
  <2>3. io' = io /\ (Interrupted => Interrupted')
    BY DEF Concluding, Interrupted
  <2>4. CASE c[1] # s
    <3>1. at'[c[1]] = at[c[1]] /\ c # Command(s)
      BY <1>1, <1>2, <1>5, <2>1, <2>4
    <3>2. c \in spawned' <=> c \in spawned
      BY <3>1 DEF Concluding
    <3>3. QED  BY <1>1, <2>2, <2>3, <3>1, <3>2 DEF PlaceInv
  <2>5. CASE c[1] = s
    <3>1. at'[s] \in {"returned", "done"}
      BY <1>1, <1>2
    <3>2. c[2] = attempt[s] <=> c = Command(s)
      BY <1>5, <2>1, <2>5 DEF Command
    <3>3. io.answers[c] # "pending"
      BY <2>2, <2>5, <3>2 DEF PlaceInv, Concluding, AtHead
    <3>4. io.answers[c] \in {"doubt", "noTab"} => reason' # None
      BY <2>2, <2>3, <2>5, <3>2 DEF PlaceInv, Interrupted
    <3>5. c[2] > attempt[s] => io.answers[c] = "uncalled" /\ c \notin spawned'
      <4>1. c[2] > attempt[s] => c # Command(s)
        BY <1>5, <2>1, CommandPairs
      <4>2. QED  BY <2>2, <2>5, <4>1 DEF PlaceInv, Concluding
    <3>6. QED  BY <1>1, <2>3, <2>5, <3>1, <3>3, <3>4, <3>5 DEF PlaceInv, Interrupted
  <2>6. QED  BY <2>4, <2>5
<1>7. ASSUME NEW t \in Steps PROVE StepInv(t)'
  <2>1. StepInv(t)
    BY DEF SessionInv
  <2>2. Command(t)' = Command(t) /\ io' = io /\ wanted' = wanted
    BY <1>1 DEF Command, Concluding
  <2>3. CASE t # s
    <3>1. at'[t] = at[t] /\ outcome'[t] = outcome[t] /\ (reason' = t => reason = t)
      BY <1>1, <1>2, <2>3
    <3>2. Command(t) \in spawned' <=> Command(t) \in spawned
      BY <2>3 DEF Concluding, Command
    <3>3. QED  BY <1>1, <2>1, <2>2, <3>1, <3>2 DEF StepInv
  <2>4. CASE t = s
    <3>1. at'[s] \in {"returned", "done"} /\ outcome'[s] = how
      BY <1>1, <1>2
    <3>2. reason # s
      BY <2>1, <2>4 DEF StepInv, Concluding, AtHead
    <3>3. s \in Acts /\ attempt[s] > 1 => StepAccepted(wanted[s])
      BY <2>1, <2>4 DEF StepInv
    <3>4. QED  BY <1>1, <2>1, <2>2, <2>4, <3>1, <3>2, <3>3 DEF StepInv, Concluding, AtHead
  <2>5. QED  BY <2>3, <2>4
<1>8. (~hasStdio => \A c \in Commands : io.answers[c] = "uncalled")'
  BY DEF SessionInv, Concluding
<1>9. (outcome[Open] = "ok" \/ tab = "owned" => Opening)'
  <2>1. outcome'[Open] = "ok" => outcome[Open] = "ok" \/ how = "ok"
    BY <1>1, <1>2 DEF Steps
  <2>2. Opening' <=> Opening
    BY DEF Opening, Concluding
  <2>3. QED  BY <2>1, <2>2 DEF SessionInv
<1>10. (closed \/ at[CloseTab] = "idle")'
  BY <1>1, <1>2 DEF SessionInv, Concluding, AtHead, Steps
<1>11. (Lost => io.waiting = <<>> \/ io.ended # "no")'
  BY NobodyWaits DEF Concluding
<1>12. StdioInv(spawned)'
  BY DEF Concluding
<1>13. QED  BY <1>3, <1>4, <1>6, <1>7, <1>8, <1>9, <1>10, <1>11, <1>12 DEF SessionInv

LEMMA BudgetIsNumber ==
    ASSUME SessionInv, NEW s \in Acts
    PROVE  /\ Attempts(wanted[s]) \in Nat
           /\ StepAccepted(wanted[s]) => {s} \X (1 .. Attempts(wanted[s])) \subseteq Commands
           /\ MayChange(wanted[s]) /\ StepAccepted(wanted[s]) => Attempts(wanted[s]) = 1
<1>1. wanted[s] \in Wants[s] /\ Wants[s] \subseteq StepRequest(1 .. AttemptCap + 1)
  BY SessionAssumption DEF SessionInv, SessionTypes
<1>2. wanted[s].attempts \in Nat /\ wanted[s].verb \in Verbs
  BY <1>1 DEF StepRequest, AttemptCap
<1>3. Attempts(wanted[s]) \in Nat
  BY <1>2 DEF Attempts
<1>4. StepAccepted(wanted[s]) => {s} \X (1 .. Attempts(wanted[s])) \subseteq Commands
  BY <1>1, SessionAssumption
<1>5. ASSUME MayChange(wanted[s]), StepAccepted(wanted[s])
      PROVE  DeclarationFor(wanted[s]) # "read_only"
  <2>1. CASE wanted[s].verb \in TargetVerbs
    <3>1. SurfEffect(wanted[s].verb) = "target"
      BY <2>1 DEF SurfEffect, TargetVerbs, ReadVerbs
    <3>2. DeclarationFor(wanted[s]) \in {"target", "refused"}
      BY <3>1 DEF DeclarationFor
    <3>3. QED  BY <3>2
  <2>2. CASE wanted[s].verb \in ScriptVerbs /\ wanted[s].signals
    BY <1>5, <2>2 DEF StepAccepted, ScriptHonest
  <2>3. QED  BY <1>5, <2>1, <2>2 DEF MayChange
<1>6. QED  BY <1>3, <1>4, <1>5 DEF Attempts

LEMMA TriedAgain ==
    ASSUME SessionInv, NEW s \in Steps, Concluding(s), Again(s), attempt[s] < Budget(s),
           reason' = None, reason = None, tab' = tab,
           io.answers[Command(s)] \notin {"doubt", "noTab"}
    PROVE  SessionInv'
<1>1. /\ at \in [Steps -> {"idle", "admitted", "queued", "asked", "returned", "done"}]
      /\ attempt \in [Steps -> Nat \ {0}] /\ spawned \subseteq Commands
      /\ None \notin Steps \cup {"cdp"}
  BY SessionAssumption DEF SessionInv, SessionTypes
<1>2. s \in Acts /\ attempt[s] < Attempts(wanted[s])
  BY <1>1 DEF Budget
<1>3. StepAccepted(wanted[s])
  BY <1>2 DEF SessionInv, StepInv, Concluding, AtHead
<1>4. Attempts(wanted[s]) \in Nat /\ <<s, attempt[s] + 1>> \in Commands
  BY <1>1, <1>2, <1>3, BudgetIsNumber
<1>5. TailInv'
  BY <1>4, AgainTail DEF Concluding, AtHead
<1>6. /\ at' = [at EXCEPT ![s] = "queued"] /\ attempt' = [attempt EXCEPT ![s] = attempt[s] + 1]
      /\ outcome' = outcome
  BY DEF Again
<1>7. SessionTypes'
  BY <1>1, <1>6 DEF SessionInv, SessionTypes, Concluding, AtHead
<1>8. ASSUME NEW c \in Commands PROVE PlaceInv(c)'
  <2>1. c = <<c[1], c[2]>> /\ c[1] \in Steps /\ c[2] \in Nat
    BY CommandPairs
  <2>2. PlaceInv(c)
    BY DEF SessionInv
  <2>3. io' = io /\ (c \in spawned' => c \in spawned \/ c = Command(s))
    BY DEF Concluding
  <2>4. CASE c[1] # s
    <3>1. at'[c[1]] = at[c[1]] /\ attempt'[c[1]] = attempt[c[1]] /\ c # Command(s)
      BY <1>1, <1>6, <2>1, <2>4 DEF Command
    <3>2. c \in spawned' <=> c \in spawned
      BY <3>1 DEF Concluding
    <3>3. QED  BY <2>2, <2>3, <3>1, <3>2 DEF PlaceInv, Interrupted
  <2>5. CASE c[1] = s
    <3>1. at'[s] = "queued" /\ attempt'[s] = attempt[s] + 1 /\ attempt[s] \in Nat
      BY <1>1, <1>6
    <3>2. c[2] = attempt[s] <=> c = Command(s)
      BY <2>1, <2>5 DEF Command
    <3>3. io.answers[c] # "pending" /\ io.answers[c] \notin {"doubt", "noTab"}
      BY <2>2, <2>5, <3>2 DEF PlaceInv, Concluding, AtHead, Interrupted
    <3>4. c[2] > attempt[s] => io.answers[c] = "uncalled" /\ c \notin spawned'
      BY <2>1, <2>2, <2>3, <2>5, <3>1, <3>2 DEF PlaceInv
    <3>5. QED  BY <2>1, <2>3, <2>5, <3>1, <3>3, <3>4 DEF PlaceInv
  <2>6. QED  BY <2>4, <2>5
<1>9. ASSUME NEW t \in Steps PROVE StepInv(t)'
  <2>1. StepInv(t)
    BY DEF SessionInv
  <2>2. io' = io /\ wanted' = wanted
    BY DEF Concluding
  <2>3. CASE t # s
    <3>1. at'[t] = at[t] /\ outcome'[t] = outcome[t] /\ attempt'[t] = attempt[t]
      BY <1>1, <1>6, <2>3
    <3>2. Command(t)' = Command(t) /\ (Command(t) \in spawned' <=> Command(t) \in spawned)
      BY <2>3, <3>1 DEF Concluding, Command
    <3>3. QED  BY <2>1, <2>2, <3>1, <3>2 DEF StepInv
  <2>4. CASE t = s
    <3>1. at'[s] = "queued" /\ attempt'[s] = attempt[s] + 1 /\ outcome'[s] # "interrupted"
      BY <1>1, <1>6, <2>1, <2>4 DEF StepInv, Concluding, AtHead
    <3>2. attempt'[s] <= Attempts(wanted[s])
      BY <1>1, <1>2, <1>4, <3>1
    <3>3. QED  BY <1>1, <1>2, <1>3, <2>2, <2>4, <3>1, <3>2 DEF StepInv
  <2>5. QED  BY <2>3, <2>4
<1>10. (~hasStdio => \A c \in Commands : io.answers[c] = "uncalled")'
  BY DEF SessionInv, Concluding
<1>11. (outcome[Open] = "ok" \/ tab = "owned" => Opening)'
  BY <1>6 DEF SessionInv, Concluding, Opening
<1>12. (closed \/ at[CloseTab] = "idle")'
  BY <1>1, <1>2, <1>6, SessionAssumption DEF SessionInv, Concluding, Steps
<1>13. (Lost => io.waiting = <<>> \/ io.ended # "no")'
  BY NobodyWaits DEF Concluding
<1>14. StdioInv(spawned)'
  BY DEF Concluding
<1>15. QED  BY <1>5, <1>7, <1>8, <1>9, <1>10, <1>11, <1>12, <1>13, <1>14 DEF SessionInv

\* A command's result, from whoever carried it out.
LEMMA Delivered ==
    ASSUME SessionInv, NEW s \in Steps, Concluding(s),
           NEW result \in {"done", "noTab", "doubt", "unsent"}, Deliver(s, result),
           io.answers[Command(s)] \in {"doubt", "noTab"} => result \in {"doubt", "noTab"},
           result = "done" => Opening
    PROVE  SessionInv'
<1>1. /\ reason \in Steps \cup {"cdp", None} /\ None \notin Steps \cup {"cdp"}
  BY SessionAssumption DEF SessionInv, SessionTypes
<1>2. /\ reason' \in {reason, s} /\ (reason # None => reason' = reason)
      /\ tab' = tab \/ tab' = "dropped"
      /\ result \in {"doubt", "noTab"} => reason' # None
      /\ result \notin {"doubt", "noTab"} => reason' = reason /\ tab' = tab
  BY <1>1 DEF Deliver, Interrupt, Interrupted
<1>3. PICK how \in (IF result = "done" THEN {"ok", "failed"} ELSE {result}) : Conclude(s, how)
  BY DEF Deliver
<1>4. how \in Outcomes /\ how # "interrupted" /\ (how = "ok" => result = "done")
  BY <1>3 DEF Outcomes
<1>5. CASE End(s, how)
  BY <1>2, <1>4, <1>5, Ended
<1>6. CASE attempt[s] < Budget(s) /\ reason' = None /\ Again(s)
  <2>1. reason = None /\ tab' = tab /\ io.answers[Command(s)] \notin {"doubt", "noTab"}
    BY <1>1, <1>2, <1>6
  <2>2. QED  BY <1>6, <2>1, TriedAgain
<1>7. QED  BY <1>3, <1>5, <1>6 DEF Conclude

\* A process of its own for a command that was never asked, or was refused.
LEMMA SpawnedSound ==
    ASSUME NEW own, StdioInv(own), NEW c \in Commands, c \notin own,
           io.answers[c] \in {"uncalled", "refused"},
           ran' = ran \/ ran' = [ran EXCEPT ![c] = ran[c] + 1],
           UNCHANGED <<io, child, running, stdin, stdout, noise>>
    PROVE  /\ Sound(io', stdin', running', stdout', ran', own \cup {c}, Lives')
           /\ Idle(io') /\ noise' \in 0 .. MaxNoise
           /\ child' \in {"none", "starting", "up", "gone", "closed"}
<1>1. /\ FieldsInv(io) /\ HandInv(io, stdin, running) /\ RanInv(io, ran, own)
      /\ LinesInv(io, stdin, running, stdout, ran, Lives) /\ io \in Fields
  BY DEF StdioInv, Sound, FieldsInv
<1>2. ran \in [Commands -> Nat] /\ ran[c] = 0
  BY <1>1 DEF RanInv
<1>3. ran' \in [Commands -> Nat] /\ ran'[c] <= 1 /\ \A d \in Commands : d # c => ran'[d] = ran[d]
  BY <1>2
<1>4. io.sent # None => io.sent.command \in Commands /\ io.sent.command # c
  BY <1>1 DEF FieldsInv, Fields, Requests
<1>5. \A i \in DOMAIN io.waiting : io.waiting[i] \in Commands /\ io.waiting[i] # c
  BY <1>1 DEF FieldsInv, Fields
<1>6. RanInv(io, ran', own \cup {c})
  BY <1>1, <1>3, <1>5 DEF RanInv
<1>7. LinesInv(io, stdin, running, stdout, ran', Lives)
  BY <1>1, <1>3, <1>4 DEF LinesInv
<1>8. QED  BY <1>1, <1>6, <1>7 DEF Sound, StdioInv, Lives

\* Who stands at the head of the chain, whether queued or asked.
LEMMA HeadOfChain ==
    ASSUME SessionInv, NEW c \in Commands, c = Command(c[1]),
           (tail # <<>> /\ c = Head(tail) /\ at[c[1]] = "queued")
               \/ (at[c[1]] = "asked" /\ io.answers[c] # "pending")
    PROVE  AtHead(c[1]) /\ c[1] \in Steps /\ c \notin spawned
<1>1. c[1] \in Steps /\ PlaceInv(c) /\ TailInv
  BY CommandPairs DEF SessionInv
<1>2. c[2] = attempt[c[1]]
  BY DEF Command
<1>3. CASE tail # <<>> /\ c = Head(tail) /\ at[c[1]] = "queued"
  <2>1. tail[1] = c
    BY <1>1, <1>3, HeadTailProperties DEF TailInv
  <2>2. QED  BY <1>1, <1>2, <1>3, <2>1 DEF AtHead, PlaceInv
<1>4. CASE at[c[1]] = "asked" /\ io.answers[c] # "pending"
  BY <1>1, <1>2, <1>4 DEF AtHead, PlaceInv, TailInv
<1>5. QED  BY <1>3, <1>4

LEMMA RefuseKeeps ==
    ASSUME SessionInv, NEW c \in Commands, c = Command(c[1]), AtHead(c[1]), c[1] \in Steps,
           c \notin spawned, io.answers[c] \in {"uncalled", "refused"}, Interrupted, Refuse(c),
           UNCHANGED <<hasStdio, wanted>>
    PROVE  SessionInv'
<1>1. /\ UNCHANGED stdioVars /\ UNCHANGED <<reason, tab, closed, spawned>>
      /\ End(c[1], "interrupted")
  BY DEF Refuse
<1>2. Concluding(c[1])
  BY <1>1 DEF Concluding, stdioVars, SessionInv, StdioInv, Lives
<1>3. "interrupted" \in Outcomes
  BY DEF Outcomes
<1>4. QED  BY <1>1, <1>2, <1>3, Ended DEF Interrupted

LEMMA SpawnKeeps ==
    ASSUME SessionInv, NEW c \in Commands, c = Command(c[1]), AtHead(c[1]), c[1] \in Steps,
           c \notin spawned, io.answers[c] \in {"uncalled", "refused"}, Spawn(c), Opening,
           UNCHANGED <<hasStdio, wanted>>
    PROVE  SessionInv'
<1>1. PICK result \in {"done", "noTab", "doubt", "unsent"} :
          Deliver(c[1], result) /\ (ran' = [ran EXCEPT ![c] = ran[c] + 1] \/ ran' = ran)
  BY DEF Spawn
<1>2. UNCHANGED <<io, child, running, stdin, stdout, noise>> /\ spawned' = spawned \cup {c}
  BY DEF Spawn
<1>3. closed' = closed
  BY <1>1 DEF Deliver
<1>4. StdioInv(spawned)'
  BY <1>1, <1>2, SpawnedSound DEF StdioInv, SessionInv
<1>5. Concluding(c[1])
  BY <1>2, <1>3, <1>4 DEF Concluding
<1>6. QED  BY <1>1, <1>5, Delivered

\* The child is asked: the command is pending, or refused by a session that ended.
LEMMA AskKeepsSession ==
    ASSUME SessionInv, NEW c \in Commands, c = Command(c[1]), AtHead(c[1]), c[1] \in Steps,
           at[c[1]] = "queued", ~Interrupted, hasStdio, AskChild(c), UNCHANGED <<hasStdio, wanted>>
    PROVE  SessionInv'
<1> DEFINE s == c[1]
<1>1. /\ child' = child \/ (child = "none" /\ child' = "starting")
      /\ Run(c) /\ at' = [at EXCEPT ![s] = "asked"]
      /\ UNCHANGED <<running, stdout, noise, ran, tail, attempt, outcome, reason, tab, closed, spawned>>
  BY DEF AskChild, Attach
<1>2. c \notin spawned /\ io.answers[c] = "uncalled" /\ c[2] = attempt[s]
  BY <1>1 DEF SessionInv, PlaceInv, Command, Run
<1>3. /\ Kept(spawned)
      /\ \E answer \in {"pending", "refused"} : io'.answers = [io.answers EXCEPT ![c] = answer]
      /\ io.ready => io'.ready
      /\ io.ended # "no" => io'.ended # "no"
  BY <1>1, <1>2, RunKeeps DEF SessionInv
<1>4. StdioInv(spawned)'
  BY <1>1, <1>3 DEF Kept, StdioInv
<1>5. /\ at \in [Steps -> {"idle", "admitted", "queued", "asked", "returned", "done"}]
      /\ io.answers \in [Commands -> {"uncalled", "pending"} \cup Verdicts]
  BY DEF SessionInv, SessionTypes, StdioInv, Sound, FieldsInv, Fields
<1>6. /\ \A d \in Commands : d # c => io'.answers[d] = io.answers[d]
      /\ io'.answers[c] \in {"pending", "refused"}
      /\ at'[s] = "asked" /\ \A t \in Steps : t # s => at'[t] = at[t]
  <2>1. PICK answer \in {"pending", "refused"} : io'.answers = [io.answers EXCEPT ![c] = answer]
    BY <1>3
  <2>2. at'[s] = "asked" /\ \A t \in Steps : t # s => at'[t] = at[t]
    BY <1>1, <1>5
  <2>3. QED  BY <1>5, <2>1, <2>2
<1>7. SessionTypes'
  BY <1>1, <1>5 DEF SessionInv, SessionTypes
<1>8. TailInv'
  <2>1. /\ tail \in Seq(Commands) /\ 1 \in DOMAIN tail /\ tail[1] = c
        /\ \A i, j \in DOMAIN tail : tail[i] = tail[j] => i = j
    BY DEF SessionInv, TailInv, AtHead
  <2>2. \A i \in DOMAIN tail :
            /\ tail[i] = Command(tail[i][1])' /\ tail[i][1] \in Steps
            /\ at'[tail[i][1]] = "queued" \/ (i = 1 /\ at'[tail[i][1]] = "asked")
    <3> SUFFICES ASSUME NEW i \in DOMAIN tail
                 PROVE  /\ tail[i] = <<tail[i][1], attempt[tail[i][1]]>> /\ tail[i][1] \in Steps
                        /\ at'[tail[i][1]] = "queued" \/ (i = 1 /\ at'[tail[i][1]] = "asked")
      BY <1>1 DEF Command
    <3>1. tail[i] = Command(tail[i][1]) /\ tail[i][1] \in Steps
      BY <2>1, CommandPairs DEF SessionInv, TailInv
    <3>2. CASE i = 1
      BY <1>6, <2>1, <3>1, <3>2 DEF Command
    <3>3. CASE i # 1
      <4>1. tail[i] # c /\ tail[i][1] # s
        BY <2>1, <3>1, <3>3
      <4>2. at[tail[i][1]] = "queued"
        BY <3>3 DEF SessionInv, TailInv
      <4>3. QED  BY <1>6, <3>1, <4>1, <4>2 DEF Command
    <3>4. QED  BY <3>2, <3>3
  <2>3. \A t \in Steps : at'[t] = "asked" => tail # <<>> /\ tail[1] = Command(t)
    BY <1>6, <2>1 DEF SessionInv, TailInv
  <2>4. QED  BY <1>1, <2>1, <2>2, <2>3 DEF TailInv, Command
<1>9. ASSUME NEW d \in Commands PROVE PlaceInv(d)'
  <2>1. PlaceInv(d) /\ d = <<d[1], d[2]>> /\ d[1] \in Steps /\ d[2] \in Nat
    BY CommandPairs DEF SessionInv
  <2>2. CASE d = c
    BY <1>1, <1>2, <1>6, <2>2, CommandPairs DEF PlaceInv
  <2>3. CASE d # c
    <3>1. io'.answers[d] = io.answers[d]
      BY <1>6, <2>3
    <3>2. CASE d[1] = s
      <4>1. d[2] # attempt[s]
        BY <2>1, <2>3, <3>2, <1>2, CommandPairs
      <4>2. QED  BY <1>1, <2>1, <3>1, <3>2, <4>1 DEF PlaceInv, Interrupted
    <3>3. CASE d[1] # s
      BY <1>1, <1>6, <2>1, <3>1, <3>3 DEF PlaceInv, Interrupted
    <3>4. QED  BY <3>2, <3>3
  <2>4. QED  BY <2>2, <2>3
<1>10. ASSUME NEW t \in Steps PROVE StepInv(t)'
  <2>1. StepInv(t)
    BY DEF SessionInv
  <2>2. CASE t = s
    BY <1>1, <1>6, <2>1, <2>2 DEF StepInv, Interrupted, AtHead
  <2>3. CASE t # s
    <3>1. Command(t) # c /\ Command(t)' = Command(t)
      BY <1>1, <2>3 DEF Command
    <3>2. QED  BY <1>1, <1>6, <2>1, <2>3, <3>1 DEF StepInv
  <2>4. QED  BY <2>2, <2>3
<1>11. (outcome[Open] = "ok" \/ tab = "owned" => Opening)'
  BY <1>1, <1>3 DEF SessionInv, Opening
<1>12. (closed \/ at[CloseTab] = "idle")'
  BY <1>1, <1>6 DEF SessionInv, Steps
<1>13. ~Lost'
  <2> SUFFICES ASSUME NEW d \in Commands, io'.answers[d] \in {"doubt", "noTab"} PROVE FALSE
    BY <1>1 DEF Lost, Interrupted
  <2>1. d # c /\ io.answers[d] \in {"doubt", "noTab"}
    BY <1>6
  <2>2. d = Command(d[1]) /\ at[d[1]] = "asked"
    BY <2>1, CommandPairs DEF SessionInv, PlaceInv, Command
  <2>3. tail[1] = d
    BY <2>2, OnePending
  <2>4. QED  BY <2>1, <2>3 DEF AtHead
<1>14. QED  BY <1>1, <1>4, <1>7, <1>8, <1>9, <1>10, <1>11, <1>12, <1>13 DEF SessionInv

\* A command's turn at the transport.
LEMMA StartKeeps ==
    ASSUME SessionInv, NEW c \in Commands, Start(c) \/ Answered(c) \/ Fallback(c),
           UNCHANGED <<hasStdio, wanted>>
    PROVE  SessionInv'
<1>1. c = Command(c[1]) /\ c[1] \in Steps /\ AtHead(c[1]) /\ c \notin spawned
  <2>1. CASE Start(c)
    <3>1. tail # <<>> /\ c = Head(tail) /\ at[c[1]] = "queued" /\ 1 \in DOMAIN tail /\ Head(tail) = tail[1]
      BY <2>1, HeadTailProperties DEF Start, SessionInv, TailInv
    <3>2. c = Command(c[1])
      BY <3>1 DEF SessionInv, TailInv
    <3>3. QED  BY <3>1, <3>2, HeadOfChain
  <2>2. CASE Answered(c) \/ Fallback(c)
    BY <2>2, HeadOfChain DEF Answered, Fallback
  <2>3. QED  BY <2>1, <2>2
<1>2. PlaceInv(c) /\ c[2] = attempt[c[1]]
  BY <1>1 DEF SessionInv, Command
<1>3. CASE Start(c)
  <2>1. io.answers[c] = "uncalled"
    BY <1>2, <1>3 DEF PlaceInv, Start
  <2>2. CASE Interrupted
    BY <1>1, <1>3, <2>1, <2>2, RefuseKeeps DEF Start
  <2>3. CASE ~Interrupted /\ hasStdio
    BY <1>1, <1>3, <2>3, AskKeepsSession DEF Start
  <2>4. CASE ~Interrupted /\ ~hasStdio
    BY <1>1, <1>3, <2>1, <2>4, SpawnKeeps DEF Start, Opening
  <2>5. QED  BY <2>2, <2>3, <2>4
<1>4. CASE Answered(c)
  <2>1. /\ io.answers[c] \in {"done", "noTab", "doubt"} /\ Deliver(c[1], io.answers[c])
        /\ UNCHANGED stdioVars /\ spawned' = spawned
    BY <1>4 DEF Answered
  <2>2. Opening
    BY <2>1 DEF Opening, SessionInv, StdioInv, Sound, FieldsInv, Verdicts
  <2>3. closed' = closed
    BY <2>1 DEF Deliver
  <2>4. StdioInv(spawned)'
    BY <2>1 DEF stdioVars, SessionInv, StdioInv, Lives
  <2>5. Concluding(c[1])
    BY <1>1, <2>1, <2>3, <2>4 DEF Concluding, stdioVars
  <2>6. QED  BY <1>1, <2>1, <2>2, <2>5, Delivered
<1>5. CASE Fallback(c)
  <2>1. io.answers[c] = "refused"
    BY <1>5 DEF Fallback
  <2>2. Opening
    BY <2>1 DEF Opening, SessionInv, StdioInv, Sound, FieldsInv, Verdicts
  <2>3. CASE Interrupted
    BY <1>1, <1>5, <2>1, <2>3, RefuseKeeps DEF Fallback
  <2>4. CASE ~Interrupted
    BY <1>1, <1>5, <2>1, <2>2, <2>4, SpawnKeeps DEF Fallback
  <2>5. QED  BY <2>3, <2>4
<1>6. QED  BY <1>3, <1>4, <1>5

\* What neither asks nor answers: a step is called or declined, the session opens, loses its
\* DevTools connection or closes.
Aside(s) ==
    /\ UNCHANGED <<hasStdio, wanted, attempt, spawned>>
    /\ \A t \in Steps : t # s => at'[t] = at[t] /\ outcome'[t] = outcome[t]
    /\ io'.answers = io.answers
    /\ at[s] \in {"idle", "admitted"} \/ (at[s] = "returned" /\ at'[s] = "done") \/ at'[s] = at[s]
    /\ outcome'[s] = outcome[s] \/ (at'[s] = "done" /\ outcome'[s] \in {"declined", "interrupted"})

LEMMA AsideKeeps ==
    ASSUME SessionInv, NEW s \in Steps, Aside(s), StdioInv(spawned)', SessionTypes', TailInv',
           reason' = reason \/ (reason = None /\ reason' = "cdp"),
           at'[s] # at[s] => at'[s] \in {"admitted", "queued", "done"},
           (s \in Acts /\ at[s] = "idle" /\ at'[s] \in {"admitted", "queued"}) => StepAccepted(wanted[s]),
           outcome'[s] = "interrupted" /\ outcome[s] # "interrupted" => at[s] \in {"idle", "admitted"},
           (outcome[Open] = "ok" \/ tab = "owned" => Opening)',
           (closed \/ at[CloseTab] = "idle")',
           (Lost => io.waiting = <<>> \/ io.ended # "no")'
    PROVE  SessionInv'
<1>1. None \notin Steps \cup {"cdp"} /\ "cdp" \notin Steps /\ (Interrupted => Interrupted')
  BY SessionAssumption DEF Interrupted
<1>2. ASSUME NEW c \in Commands PROVE PlaceInv(c)'
  <2>1. PlaceInv(c) /\ c[1] \in Steps
    BY CommandPairs DEF SessionInv
  <2>2. CASE c[1] # s
    BY <1>1, <2>1, <2>2 DEF PlaceInv, Aside
  <2>3. CASE c[1] = s
    BY <1>1, <2>1, <2>3 DEF PlaceInv, Aside
  <2>4. QED  BY <2>2, <2>3
<1>3. ASSUME NEW t \in Steps PROVE StepInv(t)'
  <2>1. /\ StepInv(t) /\ Command(t)' = Command(t) /\ io'.answers = io.answers
        /\ wanted' = wanted /\ attempt' = attempt /\ spawned' = spawned
        /\ (reason' = t => reason = t)
    BY <1>1 DEF SessionInv, Aside, Command
  <2>2. CASE t # s
    <3>1. at'[t] = at[t] /\ outcome'[t] = outcome[t]
      BY <2>2 DEF Aside
    <3>2. QED  BY <2>1, <3>1 DEF StepInv
  <2>3. CASE t = s
    <3>1. at[s] \in {"idle", "admitted"} =>
              /\ attempt[s] = 1 /\ Command(s) \in Commands
              /\ Command(s) \notin spawned /\ io.answers[Command(s)] = "uncalled"
      <4> SUFFICES ASSUME at[s] \in {"idle", "admitted"}
                   PROVE  /\ attempt[s] = 1 /\ Command(s) \in Commands
                          /\ Command(s) \notin spawned /\ io.answers[Command(s)] = "uncalled"
        OBVIOUS
      <4>1. attempt[s] = 1 /\ Command(s) \in Commands
        BY <2>1, <2>3, CommandPairs DEF StepInv, Command
      <4>2. PlaceInv(Command(s)) /\ Command(s)[1] = s /\ Command(s)[2] = attempt[s]
        BY <4>1 DEF SessionInv, Command
      <4>3. QED  BY <4>1, <4>2 DEF PlaceInv
    <3>2. outcome[s] = "interrupted" => at[s] \in {"returned", "done"}
      BY <2>1, <2>3 DEF StepInv
    <3>3. /\ at[s] \in {"idle", "admitted"} => reason # s
          /\ at'[s] \in {"idle", "admitted"} => at[s] \in {"idle", "admitted"}
      BY <2>1, <2>3 DEF StepInv, Aside
    <3>4. (reason = s \/ outcome[s] = "interrupted") => at'[s] \in {"returned", "done"}
      BY <2>1, <2>3, <3>2, <3>3 DEF StepInv, Aside
    <3>5. at'[s] \in {"admitted", "queued", "asked"} /\ s \in Acts => StepAccepted(wanted[s])
      BY <2>1, <2>3 DEF StepInv, Aside
    <3>6. outcome'[s] = "interrupted" /\ outcome[s] # "interrupted" => at'[s] = "done"
      BY DEF Aside
    <3>7. QED  BY <2>1, <2>3, <3>1, <3>3, <3>4, <3>5, <3>6 DEF StepInv
  <2>4. QED  BY <2>2, <2>3
<1>4. (~hasStdio => \A c \in Commands : io.answers[c] = "uncalled")'
  BY DEF SessionInv, Aside
<1>5. QED  BY <1>2, <1>3, <1>4 DEF SessionInv

LEMMA TailAside ==
    ASSUME SessionInv, NEW s \in Steps, at[s] \in {"idle", "admitted", "returned"},
           NEW place \in {"admitted", "done"}, at' = [at EXCEPT ![s] = place],
           UNCHANGED <<tail, attempt>>
    PROVE  TailInv'
<1>1. /\ at \in [Steps -> {"idle", "admitted", "queued", "asked", "returned", "done"}] /\ TailInv
  BY DEF SessionInv, SessionTypes
<1>2. \A t \in Steps : at'[t] = at[t] \/ (t = s /\ at'[t] = place)
  BY <1>1
<1>3. \A i \in DOMAIN tail : tail[i][1] \in Steps /\ tail[i][1] # s
  <2>1. \A i \in DOMAIN tail : tail[i] \in Commands /\ at[tail[i][1]] \in {"queued", "asked"}
    BY <1>1 DEF TailInv
  <2>2. QED  BY <2>1, CommandPairs
<1>4. QED  BY <1>1, <1>2, <1>3 DEF TailInv, Command

\* The ends of the session's own steps.
LEMMA SessionEventsKeep ==
    ASSUME SessionInv, ~io.reading, UNCHANGED <<hasStdio, wanted>>,
           CallOpen \/ (\E s \in Acts : CallStep(s) \/ Join(s)) \/ CdpDisconnect \/ Opened
               \/ CloseSession \/ TabClosed
    PROVE  SessionInv'
<1>1. /\ Open \in Steps /\ CloseTab \in Steps /\ Acts \subseteq Steps
      /\ Open # CloseTab /\ Open \notin Acts /\ CloseTab \notin Acts
  BY SessionAssumption DEF Steps
<1>2. /\ at \in [Steps -> {"idle", "admitted", "queued", "asked", "returned", "done"}]
      /\ outcome \in [Steps -> Outcomes \cup {None}]
      /\ io \in Fields /\ TailInv /\ StdioInv(spawned) /\ SessionTypes
  BY DEF SessionInv, SessionTypes, StdioInv, Sound, FieldsInv
<1>3. ASSUME UNCHANGED <<stdioVars, spawned>> PROVE StdioInv(spawned)' /\ io' = io
  BY <1>2, <1>3 DEF stdioVars, StdioInv, Lives
<1>4. ASSUME EndTransport, UNCHANGED <<child, running, stdin, stdout, noise, ran, spawned>>
      PROVE  /\ StdioInv(spawned)' /\ io'.answers = io.answers /\ io'.waiting = io.waiting
             /\ (io.ready => io'.ready) /\ (io.ended # "no" => io'.ended # "no")
  <2>1. CASE child = "none"
    BY <1>2, <1>4, <2>1 DEF EndTransport, StdioInv, Lives
  <2>2. CASE child # "none"
    <3>1. Kept(spawned) /\ Answering /\ io'.answers = io.answers /\ io'.waiting = io.waiting
      BY <1>2, <1>4, <2>2, CloseKeeps DEF EndTransport
    <3>2. QED  BY <1>4, <3>1 DEF Kept, StdioInv, Answering
  <2>3. QED  BY <2>1, <2>2
<1>5. CASE CallOpen
  <2>1. /\ at[Open] = "idle" /\ Enqueue(Open)
        /\ UNCHANGED <<stdioVars, attempt, outcome, reason, tab, closed, spawned>>
    BY <1>5 DEF CallOpen
  <2>2. at' = [at EXCEPT ![Open] = "queued"]
    BY <2>1 DEF Enqueue
  <2>3. TailInv'
    BY <1>1, <2>1, EnqueueTail
  <2>4. StdioInv(spawned)' /\ io' = io
    BY <1>3, <2>1
  <2>5. SessionTypes'
    BY <1>2, <2>1, <2>2 DEF SessionTypes
  <2>6. Aside(Open)
    BY <1>2, <2>1, <2>2, <2>4 DEF Aside
  <2>7. /\ (outcome[Open] = "ok" \/ tab = "owned" => Opening)'
        /\ (closed \/ at[CloseTab] = "idle")'
        /\ (Lost => io.waiting = <<>> \/ io.ended # "no")'
    BY <1>1, <1>2, <2>1, <2>2, <2>4 DEF SessionInv, Opening, Lost, Interrupted
  <2>8. at'[Open] = "queued" /\ outcome'[Open] = outcome[Open]
    BY <1>1, <1>2, <2>1, <2>2
  <2>9. QED  BY <1>1, <2>1, <2>3, <2>4, <2>5, <2>6, <2>7, <2>8, AsideKeeps
<1>6. ASSUME NEW s \in Acts, CallStep(s) \/ Join(s) PROVE SessionInv'
  <2>1. /\ at[s] \in {"idle", "admitted"} /\ s \in Steps /\ s # Open /\ s # CloseTab
        /\ UNCHANGED <<stdioVars, attempt, reason, tab, closed, spawned>>
    BY <1>1, <1>6 DEF CallStep, Join
  <2>2. StdioInv(spawned)' /\ io' = io
    BY <1>3, <2>1
  <2>3. ASSUME NEW place \in {"admitted", "queued"}, at' = [at EXCEPT ![s] = place],
               StepAccepted(wanted[s]), UNCHANGED outcome, TailInv', tail' \in Seq(Commands)
        PROVE  SessionInv'
    <3>1. SessionTypes' /\ Aside(s)
      BY <1>2, <2>1, <2>2, <2>3 DEF SessionTypes, Aside
    <3>2. /\ (outcome[Open] = "ok" \/ tab = "owned" => Opening)'
          /\ (closed \/ at[CloseTab] = "idle")'
          /\ (Lost => io.waiting = <<>> \/ io.ended # "no")'
      BY <1>1, <1>2, <2>1, <2>2, <2>3 DEF SessionInv, Opening, Lost, Interrupted
    <3>3. at'[s] = place /\ outcome'[s] = outcome[s]
      BY <1>2, <2>1, <2>3
    <3>4. QED  BY <2>1, <2>2, <2>3, <3>1, <3>2, <3>3, AsideKeeps
  <2>4. CASE /\ at' = [at EXCEPT ![s] = "admitted"] /\ UNCHANGED <<tail, outcome>>
             /\ StepAccepted(wanted[s])
    <3>1. TailInv'
      BY <2>1, <2>4, TailAside
    <3>2. QED  BY <2>3, <2>4, <3>1 DEF TailInv
  <2>5. CASE Enqueue(s) /\ UNCHANGED outcome /\ at[s] = "admitted"
    <3>1. TailInv'
      BY <2>1, <2>5, EnqueueTail
    <3>2. StepAccepted(wanted[s])
      BY <2>1, <2>5 DEF SessionInv, StepInv
    <3>3. QED  BY <2>3, <2>5, <3>1, <3>2 DEF Enqueue, TailInv
  <2>6. CASE /\ at' = [at EXCEPT ![s] = "done"] /\ UNCHANGED tail
             /\ \E how \in {"interrupted", "declined"} : outcome' = [outcome EXCEPT ![s] = how]
    <3>1. at'[s] = "done" /\ outcome'[s] \in {"declined", "interrupted"} /\ outcome'[Open] = outcome[Open]
          /\ at'[CloseTab] = at[CloseTab]
      BY <1>1, <1>2, <2>1, <2>6
    <3>2. TailInv'
      BY <2>1, <2>6, TailAside
    <3>3. SessionTypes' /\ Aside(s)
      BY <1>2, <2>1, <2>2, <2>6, <3>1 DEF SessionTypes, Aside, Outcomes
    <3>4. /\ (outcome[Open] = "ok" \/ tab = "owned" => Opening)'
          /\ (closed \/ at[CloseTab] = "idle")'
          /\ (Lost => io.waiting = <<>> \/ io.ended # "no")'
      BY <2>1, <2>2, <3>1 DEF SessionInv, Opening, Lost, Interrupted
    <3>5. QED  BY <2>1, <2>2, <3>1, <3>2, <3>3, <3>4, AsideKeeps
  <2>7. CASE CallStep(s)
    BY <2>4, <2>6, <2>7 DEF CallStep
  <2>8. CASE Join(s)
    BY <2>5, <2>6, <2>8 DEF Join
  <2>9. QED  BY <1>6, <2>7, <2>8
<1>7. CASE CdpDisconnect
  <2>1. /\ tab = "owned" /\ tab' = "dropped" /\ reason' = IF Interrupted THEN reason ELSE "cdp"
        /\ UNCHANGED <<stdioVars, tail, at, attempt, outcome, closed, spawned>>
    BY <1>7 DEF CdpDisconnect, Interrupt
  <2>2. StdioInv(spawned)' /\ io' = io
    BY <1>3, <2>1
  <2>3. TailInv' /\ SessionTypes' /\ Aside(Open)
    BY <1>2, <2>1, <2>2 DEF TailInv, Command, SessionTypes, Aside
  <2>4. io.waiting = <<>> \/ io.ended # "no"
    <3> SUFFICES ASSUME io.waiting # <<>>, io.ended = "no" PROVE FALSE
      OBVIOUS
    <3>1. io.waiting[1] \in Commands /\ io.answers[io.waiting[1]] = "pending" /\ io.sent = None
      BY WaitingPends
    <3>2. hasStdio
      BY <3>1 DEF SessionInv
    <3>3. io.ready
      BY <2>1, <3>2 DEF SessionInv, Opening
    <3>4. QED  BY <1>2, <3>1, <3>3 DEF StdioInv, Idle
  <2>5. /\ (outcome[Open] = "ok" \/ tab = "owned" => Opening)'
        /\ (closed \/ at[CloseTab] = "idle")'
        /\ (Lost => io.waiting = <<>> \/ io.ended # "no")'
    BY <2>1, <2>2, <2>4 DEF SessionInv, Opening
  <2>6. reason' = reason \/ (reason = None /\ reason' = "cdp")
    BY <2>1 DEF Interrupted
  <2>7. QED  BY <1>1, <2>1, <2>2, <2>3, <2>5, <2>6, AsideKeeps
<1>8. CASE Opened
  <2>1. /\ at[Open] = "returned" /\ at' = [at EXCEPT ![Open] = "done"]
        /\ UNCHANGED <<child, running, stdin, stdout, noise, ran, tail, attempt, outcome, reason, closed, spawned>>
        /\ \/ outcome[Open] = "ok" /\ tab' = "owned" /\ io' = io
           \/ EndTransport /\ tab' = tab
    BY <1>8 DEF Opened
  <2>2. /\ StdioInv(spawned)' /\ io'.answers = io.answers /\ io'.waiting = io.waiting
        /\ (io.ready => io'.ready) /\ (io.ended # "no" => io'.ended # "no")
    <3>1. CASE io' = io
      BY <1>3, <2>1, <3>1 DEF stdioVars
    <3>2. QED  BY <1>4, <2>1, <3>1
  <2>3. TailInv' /\ at'[Open] = "done" /\ at'[CloseTab] = at[CloseTab]
    BY <1>1, <1>2, <2>1, TailAside
  <2>4. SessionTypes' /\ Aside(Open)
    BY <1>1, <1>2, <2>1, <2>2 DEF SessionTypes, Aside
  <2>5. /\ (outcome[Open] = "ok" \/ tab = "owned" => Opening)'
        /\ (closed \/ at[CloseTab] = "idle")'
        /\ (Lost => io.waiting = <<>> \/ io.ended # "no")'
    <3>1. outcome[Open] = "ok" \/ tab' = "owned" => Opening
      BY <2>1 DEF SessionInv
    <3>2. Lost' => Lost
      BY <2>1, <2>2 DEF Lost, Interrupted
    <3>3. QED  BY <2>1, <2>2, <2>3, <3>1, <3>2 DEF SessionInv, Opening
  <2>6. QED  BY <1>1, <2>1, <2>2, <2>3, <2>4, <2>5, AsideKeeps
<1>9. CASE CloseSession
  <2>1. /\ ~closed /\ closed' = TRUE /\ tab' = "dropped"
        /\ UNCHANGED <<child, running, stdin, stdout, noise, ran, attempt, outcome, reason, spawned>>
        /\ \/ Enqueue(CloseTab) /\ io' = io
           \/ EndTransport /\ UNCHANGED <<at, tail>>
    BY <1>9 DEF CloseSession
  <2>2. at[CloseTab] = "idle"
    BY <2>1 DEF SessionInv
  <2>3. /\ StdioInv(spawned)' /\ io'.answers = io.answers /\ io'.waiting = io.waiting
        /\ (io.ready => io'.ready) /\ (io.ended # "no" => io'.ended # "no")
    <3>1. CASE io' = io
      BY <1>3, <2>1, <3>1 DEF stdioVars
    <3>2. QED  BY <1>4, <2>1, <3>1
  <2>4. TailInv'
    <3>1. CASE Enqueue(CloseTab)
      BY <1>1, <2>1, <2>2, <3>1, EnqueueTail
    <3>2. CASE UNCHANGED <<at, tail>>
      BY <1>2, <2>1, <3>2 DEF TailInv, Command
    <3>3. QED  BY <2>1, <3>1, <3>2
  <2>5. at' = at \/ at' = [at EXCEPT ![CloseTab] = "queued"]
    BY <2>1 DEF Enqueue
  <2>6. SessionTypes' /\ Aside(CloseTab) /\ (at'[CloseTab] # at[CloseTab] => at'[CloseTab] = "queued")
    BY <1>1, <1>2, <2>1, <2>2, <2>3, <2>5 DEF SessionTypes, Aside
  <2>7. /\ (outcome[Open] = "ok" \/ tab = "owned" => Opening)'
        /\ (closed \/ at[CloseTab] = "idle")'
        /\ (Lost => io.waiting = <<>> \/ io.ended # "no")'
    <3>1. Lost' => Lost
      BY <2>1, <2>3 DEF Lost, Interrupted
    <3>2. QED  BY <2>1, <2>3, <3>1 DEF SessionInv, Opening
  <2>8. QED  BY <1>1, <2>1, <2>3, <2>4, <2>6, <2>7, AsideKeeps
<1>10. CASE TabClosed
  <2>1. /\ at[CloseTab] = "returned" /\ at' = [at EXCEPT ![CloseTab] = "done"] /\ EndTransport
        /\ UNCHANGED <<child, running, stdin, stdout, noise, ran, tail, attempt, outcome, reason, tab, closed, spawned>>
    BY <1>10 DEF TabClosed
  <2>2. /\ StdioInv(spawned)' /\ io'.answers = io.answers /\ io'.waiting = io.waiting
        /\ (io.ready => io'.ready) /\ (io.ended # "no" => io'.ended # "no")
    BY <1>4, <2>1
  <2>3. TailInv' /\ at'[CloseTab] = "done" /\ closed
    BY <1>1, <1>2, <2>1, TailAside DEF SessionInv
  <2>4. SessionTypes' /\ Aside(CloseTab)
    BY <1>1, <1>2, <2>1, <2>2 DEF SessionTypes, Aside
  <2>5. /\ (outcome[Open] = "ok" \/ tab = "owned" => Opening)'
        /\ (closed \/ at[CloseTab] = "idle")'
        /\ (Lost => io.waiting = <<>> \/ io.ended # "no")'
    <3>1. Lost' => Lost
      BY <2>1, <2>2 DEF Lost, Interrupted
    <3>2. QED  BY <2>1, <2>2, <2>3, <3>1 DEF SessionInv, Opening
  <2>6. QED  BY <1>1, <2>1, <2>2, <2>3, <2>4, <2>5, AsideKeeps
<1>11. QED  BY <1>5, <1>6, <1>7, <1>8, <1>9, <1>10

LEMMA SessionInitial == SessionInit => SessionInv
<1> SUFFICES ASSUME SessionInit PROVE SessionInv
  OBVIOUS
<1>1. StdioInv(spawned)
  BY StdioInitial DEF SessionInit
<1>2. io.waiting = <<>> /\ \A c \in Commands : io.answers[c] = "uncalled"
  BY DEF SessionInit, StdioInit
<1>3. None \notin Steps \cup Outcomes \cup {"cdp"}
  BY SessionAssumption
<1>4. SessionTypes
  <2>1. wanted \in [Acts -> UNION {Wants[s] : s \in Acts}] /\ \A s \in Acts : wanted[s] \in Wants[s]
    <3>1. wanted \in {f \in [Acts -> UNION {Wants[s] : s \in Acts}] :
                        \A s \in Acts : f[s] \in Wants[s]}
      BY DEF SessionInit
    <3> HIDE DEF SessionInit
    <3>2. QED  BY <3>1
  <2>2. /\ at \in [Steps -> {"idle", "admitted", "queued", "asked", "returned", "done"}]
        /\ attempt \in [Steps -> Nat \ {0}]
        /\ outcome \in [Steps -> Outcomes \cup {None}]
    BY DEF SessionInit
  <2>3. /\ hasStdio \in BOOLEAN /\ reason \in Steps \cup {"cdp", None}
        /\ tab \in {"none", "owned", "dropped"} /\ closed \in BOOLEAN /\ spawned \subseteq Commands
    BY DEF SessionInit
  <2>4. QED  BY <2>1, <2>2, <2>3 DEF SessionTypes
<1>5. TailInv
  BY <1>2 DEF SessionInit, TailInv
<1>6. \A c \in Commands : PlaceInv(c)
  BY <1>2, CommandPairs DEF SessionInit, PlaceInv
<1>7. \A s \in Steps : StepInv(s)
  BY <1>3 DEF SessionInit, StepInv, Outcomes
<1>8. outcome[Open] # "ok" /\ at[CloseTab] = "idle"
  BY <1>3 DEF SessionInit, Steps, Outcomes
<1>9. QED  BY <1>1, <1>2, <1>4, <1>5, <1>6, <1>7, <1>8 DEF SessionInit, SessionInv, Lost, Interrupted

LEMMA SessionStutters == SessionInv /\ UNCHANGED allVars => SessionInv'
<1> SUFFICES ASSUME SessionInv, UNCHANGED allVars PROVE SessionInv'
  OBVIOUS
<1>1. UNCHANGED <<io, child, running, stdin, stdout, noise, ran>>
  BY DEF allVars, stdioVars
<1>2. UNCHANGED <<hasStdio, wanted, tail, at, attempt, outcome, reason, tab, closed, spawned>>
  BY DEF allVars, sessionVars
<1>3. StdioInv(spawned)'
  BY <1>1, <1>2 DEF SessionInv, StdioInv, Lives
<1>4. SessionTypes' /\ TailInv' /\ \A c \in Commands : PlaceInv(c)'
  BY <1>1, <1>2 DEF SessionInv, SessionTypes, TailInv, PlaceInv, Command, Interrupted
<1>5. \A s \in Steps : StepInv(s)'
  BY <1>1, <1>2 DEF SessionInv, StepInv, Command
<1>6. QED  BY <1>1, <1>2, <1>3, <1>4, <1>5 DEF SessionInv, Opening, Lost, Interrupted

LEMMA SessionKeeps == SessionInv /\ [SessionNext]_allVars => SessionInv'
<1> SUFFICES ASSUME SessionInv, [SessionNext]_allVars PROVE SessionInv'
  OBVIOUS
<1>1. CASE UNCHANGED allVars
  BY <1>1, SessionStutters
<1>2. CASE StdioEvent /\ UNCHANGED sessionVars
  BY <1>2, EventsKeepSession
<1>3. CASE ~io.reading /\ SessionEvent /\ UNCHANGED <<hasStdio, wanted>>
  BY <1>3, StartKeeps, SessionEventsKeep DEF SessionEvent
<1>4. QED  BY <1>1, <1>2, <1>3 DEF SessionNext

\* A session over the transport stays within its invariant, and so within its types.
THEOREM SessionInvHolds == SessionSpec => [](SessionInv /\ SessionTypeOK)
<1>1. SessionInv => SessionTypeOK
  <2> SUFFICES ASSUME SessionInv PROVE SessionTypeOK
    OBVIOUS
  <2>1. \A q \in Requests : <<q>> \in Seq(Requests)
    OBVIOUS
  <2>2. stdin = <<>> \/ \E q \in Requests : stdin = <<q>>
    BY DEF SessionInv, StdioInv, Sound, HandInv
  <2>3. stdin \in Seq(Requests)
    <3>1. CASE stdin = <<>>
      BY <3>1
    <3>2. CASE \E q \in Requests : stdin = <<q>>
      <4>1. PICK q \in Requests : stdin = <<q>>
        BY <3>2
      <4>2. QED  BY <2>1, <4>1
    <3>3. QED  BY <2>2, <3>1, <3>2
  <2>4. StdioTypeOK
    BY <2>3 DEF SessionInv, StdioInv, Sound, FieldsInv, HandInv, LinesInv, RanInv, StdioTypeOK
  <2>5. QED  BY <2>4 DEF SessionInv, SessionTypes, TailInv, SessionTypeOK
<1>2. QED  BY <1>1, SessionInitial, SessionKeeps, PTL DEF SessionSpec

\* Commands of a step that may change its page: only the first was ever made.
LEMMA ChangesOnce ==
    ASSUME SessionInv, NEW s \in Acts, MayChange(wanted[s]), NEW c \in Commands, c[1] = s, c[2] # 1
    PROVE  ran[c] = 0 /\ ~InChild(c)
<1>1. PlaceInv(c) /\ StepInv(s) /\ c[2] \in Nat /\ c[2] > 0 /\ attempt[s] \in Nat \ {0}
  BY CommandPairs DEF SessionInv, SessionTypes, Steps
<1>2. attempt[s] = 1
  <2> SUFFICES ASSUME attempt[s] > 1 PROVE FALSE
    BY <1>1
  <2>1. StepAccepted(wanted[s]) /\ attempt[s] <= Attempts(wanted[s])
    BY <1>1 DEF StepInv
  <2>2. Attempts(wanted[s]) = 1
    BY <2>1, BudgetIsNumber
  <2>3. QED  BY <1>1, <2>1, <2>2
<1>3. io.answers[c] = "uncalled" /\ c \notin spawned
  BY <1>1, <1>2 DEF PlaceInv
<1>4. ran[c] = 0
  BY <1>3 DEF SessionInv, StdioInv, Sound, RanInv
<1>5. QED  BY <1>3, <1>4, InChildAnswers DEF SessionInv

\* No command is carried out twice, by the child or by a surf process of its own, and of
\* a step that may change its page only one attempt is carried out or with the child:
\* the refusals, the fallback and the retry budget together.
THEOREM AtMostOnceHolds == SessionSpec => []AtMostOnce
<1>1. ASSUME SessionInv, NEW c \in Commands PROVE ran[c] <= 1 /\ (c \in spawned => ~InChild(c))
  <2>1. ran[c] <= 1 /\ (c \in spawned => io.answers[c] \in {"uncalled", "refused"})
    BY <1>1 DEF SessionInv, StdioInv, Sound, RanInv
  <2>2. QED  BY <1>1, <2>1, InChildAnswers DEF SessionInv
<1>2. ASSUME SessionInv, NEW s \in Acts, MayChange(wanted[s]),
             NEW c \in {s} \X (1 .. AttemptCap), NEW d \in {s} \X (1 .. AttemptCap),
             c \in Commands, d \in Commands, c # d
      PROVE  ran[c] + ran[d] <= 1 /\ ~(ran[c] = 1 /\ InChild(d))
  <2>1. c[1] = s /\ d[1] = s /\ (c[2] # 1 \/ d[2] # 1)
    BY <1>2
  <2>2. ran[c] \in Nat /\ ran[d] \in Nat /\ ran[c] <= 1 /\ ran[d] <= 1
    BY <1>2 DEF SessionInv, StdioInv, Sound, RanInv
  <2>3. CASE c[2] # 1
    <3>1. ran[c] = 0
      BY <1>2, <2>1, <2>3, ChangesOnce
    <3>2. QED  BY <2>2, <3>1
  <2>4. CASE d[2] # 1
    <3>1. ran[d] = 0 /\ ~InChild(d)
      BY <1>2, <2>1, <2>4, ChangesOnce
    <3>2. QED  BY <2>2, <3>1
  <2>5. QED  BY <2>1, <2>3, <2>4
<1>3. SessionInv => AtMostOnce
  BY <1>1, <1>2 DEF AtMostOnce
<1>4. QED  BY <1>3, SessionInvHolds, PTL

\* Who is told that the session was interrupted is not who lost the transport, and sent
\* nothing.
THEOREM InterruptedIsUnsentHolds == SessionSpec => []InterruptedIsUnsent
<1>1. ASSUME SessionInv, NEW s \in Steps, outcome[s] = "interrupted"
      PROVE  reason # s /\ LET c == Command(s) IN ran[c] = 0 /\ ~InChild(c) /\ c \notin spawned
  <2> DEFINE c == Command(s)
  <2>1. /\ reason # s /\ c \in Commands /\ c \notin spawned
        /\ io.answers[c] \in {"uncalled", "refused"}
    BY <1>1 DEF SessionInv, StepInv
  <2> HIDE DEF c
  <2>2. ran[c] = 0
    BY <1>1, <2>1 DEF SessionInv, StdioInv, Sound, RanInv
  <2>3. ~InChild(c)
    BY <1>1, <2>1, InChildAnswers DEF SessionInv
  <2>4. QED  BY <2>1, <2>2, <2>3 DEF c
<1>2. SessionInv => InterruptedIsUnsent
  BY <1>1 DEF InterruptedIsUnsent
<1>3. QED  BY <1>2, SessionInvHolds, PTL

\* Once a command or the DevTools connection is lost, no step of the session hands a
\* command to the child or to a process of its own.
LEMMA LostHandsNothing ==
    SessionInv /\ [SessionNext]_allVars => (Lost => io'.nextId = io.nextId /\ spawned' = spawned)
<1> SUFFICES ASSUME SessionInv, [SessionNext]_allVars, Lost
             PROVE  io'.nextId = io.nextId /\ spawned' = spawned
  OBVIOUS
<1>1. CASE UNCHANGED allVars
  BY <1>1 DEF allVars, stdioVars, sessionVars
<1>2. CASE StdioEvent /\ UNCHANGED sessionVars
  <2>1. Answering
    BY <1>2, EventsKeep DEF SessionInv
  <2>2. QED  BY <1>2, <2>1 DEF Answering, SessionInv, sessionVars
<1>3. ASSUME NEW c \in Commands, c = Command(c[1]), ~Interrupted,
             \/ tail # <<>> /\ c = Head(tail) /\ at[c[1]] = "queued"
             \/ at[c[1]] = "asked" /\ io.answers[c] = "refused"
      PROVE  FALSE
  <2>1. PICK d \in Commands : io.answers[d] \in {"doubt", "noTab"}
    BY <1>3 DEF Lost
  <2>2. d = Command(d[1]) /\ at[d[1]] = "asked" /\ d[1] \in Steps
    BY <1>3, <2>1, CommandPairs DEF SessionInv, PlaceInv, Command
  <2>3. tail # <<>> /\ tail[1] = d /\ tail \in Seq(Commands)
    BY <2>2 DEF SessionInv, TailInv
  <2>4. CASE tail # <<>> /\ c = Head(tail) /\ at[c[1]] = "queued"
    <3>1. Head(tail) = tail[1]
      BY <2>3, HeadTailProperties
    <3>2. QED  BY <2>2, <2>3, <2>4, <3>1
  <2>5. CASE at[c[1]] = "asked" /\ io.answers[c] = "refused"
    <3>1. c = d
      BY <1>3, <2>2, <2>5, OnePending
    <3>2. QED  BY <2>1, <2>5, <3>1
  <2>6. QED  BY <1>3, <2>4, <2>5
<1>4. ASSUME NEW c \in Commands, Start(c) PROVE UNCHANGED <<io, spawned>>
  <2>1. tail # <<>> /\ c = Head(tail) /\ at[c[1]] = "queued" /\ c = Command(c[1])
    <3>1. tail # <<>> /\ c = Head(tail) /\ at[c[1]] = "queued"
      BY <1>4 DEF Start
    <3>2. tail \in Seq(Commands) /\ 1 \in DOMAIN tail /\ Head(tail) = tail[1]
      BY <3>1, HeadTailProperties DEF SessionInv, TailInv
    <3>3. QED  BY <3>1, <3>2 DEF SessionInv, TailInv
  <2>2. Interrupted
    BY <1>3, <2>1
  <2>3. QED  BY <1>4, <2>2 DEF Start, Refuse, stdioVars
<1>5. ASSUME NEW c \in Commands, Answered(c) PROVE UNCHANGED <<io, spawned>>
  BY <1>5 DEF Answered, stdioVars
<1>6. ASSUME NEW c \in Commands, Fallback(c) PROVE UNCHANGED <<io, spawned>>
  <2>1. Interrupted
    BY <1>3, <1>6 DEF Fallback
  <2>2. QED  BY <1>6, <2>1 DEF Fallback, Refuse, stdioVars
<1>7. CASE CallOpen \/ (\E s \in Acts : CallStep(s) \/ Join(s)) \/ CdpDisconnect
  BY <1>7 DEF CallOpen, CallStep, Join, CdpDisconnect, stdioVars
<1>8. CASE Opened \/ CloseSession \/ TabClosed
  <2>1. io \in Fields
    BY DEF SessionInv, StdioInv, Sound, FieldsInv
  <2>2. spawned' = spawned /\ (io' = io \/ Close)
    BY <1>8 DEF Opened, CloseSession, TabClosed, EndTransport
  <2>3. io'.nextId = io.nextId
    BY <2>1, <2>2 DEF Close, Fields
  <2>4. QED  BY <2>2, <2>3
<1>9. QED  BY <1>1, <1>2, <1>4, <1>5, <1>6, <1>7, <1>8 DEF SessionNext, SessionEvent

\* A loss is final: whatever was queued behind it is never handed to anyone.
THEOREM LossIsFinalHolds == SessionSpec => LossIsFinal
<1>1. SessionInv /\ [SessionNext]_allVars
          => [Lost => io'.nextId = io.nextId /\ spawned' = spawned]_allVars
  BY LostHandsNothing
<1>2. QED  BY <1>1, SessionInvHolds, PTL DEF SessionSpec, LossIsFinal

================================================================================
