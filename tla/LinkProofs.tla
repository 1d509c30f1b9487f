----------------------------- MODULE LinkProofs -----------------------------
(***************************************************************************)
(* Theorems about Link, for any messages and any number of connections.    *)
(***************************************************************************)
EXTENDS Link, FiniteSetTheorems, SequenceTheorems, TLAPS

\* The tokens of session s on their way to the handlers.
Stream(s) == buffer[s] \o wire[s]

\* What the variables hold.
Typed ==
    /\ sent \in 0 .. Len(Script)
    /\ link \in {"down", "connecting", "up"}
    /\ session \in 0 .. MaxSessions
    /\ link # "down" => session \in Session
    /\ posted \in Seq(Sent \cup {Proceed}) /\ queue \in Seq(Sent)
    /\ writing \in Seq(Sent \X Session)
    /\ broken \subseteq Session
    /\ reading \in {0} \cup Session
    /\ wire \in [Session -> Seq(Token)] /\ buffer \in [Session -> Seq(Token)]
    /\ last \in [Session -> 0 .. Len(Script)]
    /\ handled \in Seq(Sent)

LEMMA ScriptLength == Len(Script) \in Nat /\ DOMAIN Script = 1 .. Len(Script)
BY LenProperties, LinkAssumption

\* What async_write does on a session that carries.
Puts(n) ==
    /\ session \in Session \ broken
    /\ wire' = [wire EXCEPT ![session] = @ \o <<Begin(n), End(n)>>]
    /\ last' = [last EXCEPT ![session] = n]

\* A call of write with a connection starts to write the head of q ...
Starts(q, pending) ==
    /\ link = "up" /\ queue' = q
    /\ writing' = Append(pending, <<Head(q), session>>)
    /\ Puts(Head(q)) \/ UNCHANGED <<wire, last>>

\* ... and without one empties it.
Drains(pending) ==
    link # "up" /\ queue' = <<>> /\ writing' = pending /\ UNCHANGED <<wire, last>>

LEMMA WriteCases ==
  ASSUME Typed, NEW q, NEW pending, Write(q, pending)
  PROVE  Starts(q, pending) \/ Drains(pending)
BY DEF Write, Starts, Drains, Puts, Typed

LEMMA RunPostedCases ==
  ASSUME Typed, RunPosted
  PROVE  /\ posted # <<>> /\ posted' = Tail(posted)
         /\ UNCHANGED <<sent, link, session, broken, buffer, passed, reading, handled>>
         /\ \/ /\ Head(posted) = Proceed /\ queue = <<>>
               /\ UNCHANGED <<queue, writing, wire, last>>
            \/ /\ Head(posted) = Proceed /\ queue # <<>>
               /\ Starts(queue, writing) \/ Drains(writing)
            \/ /\ Head(posted) # Proceed /\ queue # <<>>
               /\ queue' = Append(queue, Head(posted))
               /\ UNCHANGED <<writing, wire, last>>
            \/ /\ Head(posted) # Proceed /\ queue = <<>>
               /\ Starts(<<Head(posted)>>, writing) \/ Drains(writing)
<1>1. /\ posted # <<>> /\ posted' = Tail(posted)
      /\ UNCHANGED <<sent, link, session, broken, buffer, passed, reading, handled>>
  BY DEF RunPosted, reader
<1>2. CASE Head(posted) = Proceed
  <2>1. StrandProceed
    BY <1>2 DEF RunPosted
  <2> QED BY <1>1, <1>2, <2>1, WriteCases DEF StrandProceed
<1>3. CASE Head(posted) # Proceed
  <2> DEFINE n == Head(posted)
  <2>1. StrandWrite(n)
    BY <1>3 DEF RunPosted
  <2> HIDE DEF n
  <2>2. queue \in Seq(Sent) /\ Len(queue) \in Nat
    BY LenProperties DEF Typed
  <2>3. n \in Sent
    BY <1>1, <1>3, HeadTailProperties DEF Typed, n
  <2>4. Len(Append(queue, n)) = Len(queue) + 1
    BY <2>2, <2>3, AppendProperties
  <2>5. CASE queue = <<>>
    <3>1. Append(queue, n) = <<n>> /\ ~ (Len(Append(queue, n)) > 1)
      BY <2>5
    <3>2. Write(<<n>>, writing)
      BY <2>1, <3>1 DEF StrandWrite
    <3>3. Starts(<<n>>, writing) \/ Drains(writing)
      BY <3>2, WriteCases
    <3> QED BY <1>1, <1>3, <2>5, <3>3 DEF n
  <2>6. CASE queue # <<>>
    <3>1. Len(queue) # 0
      BY <2>2, <2>6, EmptySeq
    <3>2. Len(Append(queue, n)) > 1
      BY <2>2, <2>4, <3>1
    <3>3. queue' = Append(queue, n) /\ UNCHANGED <<writing, wire, last>>
      BY <2>1, <3>2 DEF StrandWrite
    <3> QED BY <1>1, <1>3, <2>6, <3>3 DEF n
  <2> QED BY <2>5, <2>6
<1> QED BY <1>2, <1>3

LEMMA HandleWriteCases ==
  ASSUME Typed, NEW ok \in BOOLEAN, HandleWrite(ok)
  PROVE  /\ writing # <<>>
         /\ UNCHANGED <<sent, session, posted, broken, buffer, passed, reading, handled>>
         /\ \/ /\ queue = <<>> /\ writing' = Tail(writing)
               /\ UNCHANGED <<link, queue, wire, last>>
            \/ /\ queue # <<>> /\ queue' = Tail(queue) /\ writing' = Tail(writing)
               /\ link' = "down" /\ UNCHANGED <<wire, last>>
            \/ /\ queue # <<>> /\ queue' = <<>> /\ writing' = Tail(writing)
               /\ UNCHANGED <<link, wire, last>>
            \/ /\ Len(queue) > 1 /\ UNCHANGED link
               /\ Starts(Tail(queue), Tail(writing)) \/ Drains(Tail(writing))
<1> DEFINE rest == Tail(writing)
<1>1. /\ writing # <<>>
      /\ UNCHANGED <<sent, session, posted, broken, buffer, passed, reading, handled>>
  BY DEF HandleWrite, reader
<1>2. queue \in Seq(Sent) /\ Len(queue) \in Nat
  BY LenProperties DEF Typed
<1>3. queue # <<>> => Len(queue) # 0
  BY <1>2, EmptySeq
<1>4. CASE queue = <<>>
  BY <1>1, <1>4 DEF HandleWrite
<1>5. CASE queue # <<>> /\ ~ ok
  BY <1>1, <1>5 DEF HandleWrite
<1>6. CASE queue # <<>> /\ ok /\ Len(queue) = 1
  BY <1>1, <1>6 DEF HandleWrite
<1>7. CASE queue # <<>> /\ ok /\ Len(queue) # 1
  <2>1. Write(Tail(queue), rest) /\ UNCHANGED link
    BY <1>7 DEF HandleWrite
  <2>2. Starts(Tail(queue), rest) \/ Drains(rest)
    BY <2>1, WriteCases
  <2>3. Len(queue) > 1
    <3>1. Len(queue) # 0 /\ Len(queue) # 1
      BY <1>3, <1>7
    <3>2. \A x \in Nat : x # 0 /\ x # 1 => x > 1
      OBVIOUS
    <3> QED BY <1>2, <3>1, <3>2
  <2> QED BY <1>1, <2>1, <2>2, <2>3
<1> QED BY <1>4, <1>5, <1>6, <1>7

-----------------------------------------------------------------------------
(***************************************************************************)
(* What the variables hold is kept.                                        *)
(***************************************************************************)

LEMMA InitTyped == Init => Typed
<1> SUFFICES ASSUME Init PROVE Typed
  OBVIOUS
<1>1. \A S : <<>> \in Seq(S)
  BY EmptySeq
<1>2. /\ wire \in [Session -> Seq(Token)] /\ buffer \in [Session -> Seq(Token)]
      /\ last \in [Session -> 0 .. Len(Script)]
  BY <1>1, ScriptLength DEF Init
<1> QED BY <1>1, <1>2, ScriptLength, LinkAssumption DEF Init, Typed

\* A message is two tokens.
LEMMA TwoTokens ==
  ASSUME NEW n \in Sent
  PROVE  /\ <<Begin(n), End(n)>> \in Seq(Token)
         /\ Len(<<Begin(n), End(n)>>) = 2
         /\ <<Begin(n), End(n)>>[1] = Begin(n) /\ <<Begin(n), End(n)>>[2] = End(n)
<1>1. Begin(n) \in Token /\ End(n) \in Token
  BY DEF Token
<1> QED BY <1>1

LEMMA StartsTyped ==
  ASSUME Typed, NEW q \in Seq(Sent), q # <<>>, NEW pending \in Seq(Sent \X Session),
         Starts(q, pending)
  PROVE  /\ queue' \in Seq(Sent) /\ writing' \in Seq(Sent \X Session)
         /\ wire' \in [Session -> Seq(Token)] /\ last' \in [Session -> 0 .. Len(Script)]
<1> DEFINE n == Head(q)
<1>1. n \in Sent
  BY HeadTailProperties
<1>2. session \in Session
  BY DEF Typed, Starts
<1>3. queue' \in Seq(Sent)
  BY DEF Starts
<1>4. writing' = Append(pending, <<n, session>>) /\ <<n, session>> \in Sent \X Session
  BY <1>1, <1>2 DEF Starts
<1>5. writing' \in Seq(Sent \X Session)
  BY <1>4, AppendProperties
<1>6. Puts(n) \/ UNCHANGED <<wire, last>>
  BY DEF Starts
<1> HIDE DEF n
<1>7. CASE Puts(n)
  <2> DEFINE w == wire[session]
             two == <<Begin(n), End(n)>>
  <2>1. two \in Seq(Token)
    BY <1>1, TwoTokens
  <2>2. w \in Seq(Token)
    BY <1>2 DEF Typed
  <2>3. wire' = [wire EXCEPT ![session] = w \o two]
    BY <1>7 DEF Puts
  <2> HIDE DEF w, two
  <2>4. w \o two \in Seq(Token)
    BY <2>1, <2>2, ConcatProperties
  <2>5. wire' \in [Session -> Seq(Token)]
    BY <2>3, <2>4 DEF Typed
  <2>6. n \in 0 .. Len(Script)
    BY <1>1, ScriptLength DEF Sent, Typed
  <2>7. last' \in [Session -> 0 .. Len(Script)]
    BY <1>7, <2>6 DEF Puts, Typed
  <2> QED BY <1>3, <1>5, <2>5, <2>7
<1>8. CASE UNCHANGED <<wire, last>>
  BY <1>3, <1>5, <1>8 DEF Typed
<1> QED BY <1>6, <1>7, <1>8

LEMMA DrainsTyped ==
  ASSUME Typed, NEW pending \in Seq(Sent \X Session), Drains(pending)
  PROVE  /\ queue' \in Seq(Sent) /\ writing' \in Seq(Sent \X Session)
         /\ wire' \in [Session -> Seq(Token)] /\ last' \in [Session -> 0 .. Len(Script)]
BY EmptySeq DEF Drains, Typed

\* The parts of Typed that the strand changes.
LEMMA StrandTyped ==
  ASSUME Typed, UNCHANGED <<sent, session, broken, buffer, reading, handled>>,
         link' \in {link, "down"},
         posted' \in Seq(Sent \cup {Proceed}), queue' \in Seq(Sent),
         writing' \in Seq(Sent \X Session), wire' \in [Session -> Seq(Token)],
         last' \in [Session -> 0 .. Len(Script)]
  PROVE  Typed'
<1>1. Sent' = Sent /\ Token' = Token
  BY DEF Sent, Token
<1> QED BY <1>1 DEF Typed

\* The first of the messages posted is a message unless it is strand_proceed.
LEMMA PostedHead ==
  ASSUME Typed, posted # <<>>
  PROVE  /\ Tail(posted) \in Seq(Sent \cup {Proceed})
         /\ Head(posted) # Proceed =>
              /\ Head(posted) \in Sent
              /\ <<Head(posted)>> \in Seq(Sent) /\ <<Head(posted)>> # <<>>
              /\ Append(queue, Head(posted)) \in Seq(Sent)
<1>1. Tail(posted) \in Seq(Sent \cup {Proceed}) /\ Head(posted) \in Sent \cup {Proceed}
  BY HeadTailProperties DEF Typed
<1>2. \A n \in Sent : <<n>> \in Seq(Sent) /\ <<n>> # <<>>
  OBVIOUS
<1>3. \A n \in Sent : Append(queue, n) \in Seq(Sent)
  BY AppendProperties DEF Typed
<1> QED BY <1>1, <1>2, <1>3

LEMMA RunPostedTyped ==
  ASSUME Typed, RunPosted
  PROVE  Typed'
<1>1. /\ posted # <<>> /\ posted' = Tail(posted)
      /\ UNCHANGED <<sent, link, session, broken, buffer, passed, reading, handled>>
  BY RunPostedCases
<1>2. posted' \in Seq(Sent \cup {Proceed})
  BY <1>1, PostedHead
<1>3. /\ queue \in Seq(Sent) /\ writing \in Seq(Sent \X Session)
      /\ wire \in [Session -> Seq(Token)] /\ last \in [Session -> 0 .. Len(Script)]
  BY DEF Typed
<1>4. CASE Head(posted) = Proceed /\ queue = <<>>
  <2>1. UNCHANGED <<queue, writing, wire, last>>
    BY <1>4, RunPostedCases
  <2> QED BY <1>1, <1>2, <1>3, <2>1, StrandTyped
<1>5. CASE Head(posted) = Proceed /\ queue # <<>>
  <2>1. Starts(queue, writing) \/ Drains(writing)
    BY <1>5, RunPostedCases
  <2> QED BY <1>1, <1>2, <1>3, <1>5, <2>1, StartsTyped, DrainsTyped, StrandTyped
<1>6. CASE Head(posted) # Proceed /\ queue # <<>>
  <2>1. queue' = Append(queue, Head(posted)) /\ UNCHANGED <<writing, wire, last>>
    BY <1>6, RunPostedCases
  <2>2. queue' \in Seq(Sent)
    BY <1>1, <1>6, <2>1, PostedHead
  <2> QED BY <1>1, <1>2, <1>3, <2>1, <2>2, StrandTyped
<1>7. CASE Head(posted) # Proceed /\ queue = <<>>
  <2> DEFINE q == <<Head(posted)>>
  <2>1. Starts(q, writing) \/ Drains(writing)
    BY <1>7, RunPostedCases
  <2>2. q \in Seq(Sent) /\ q # <<>>
    BY <1>1, <1>7, PostedHead
  <2> HIDE DEF q
  <2> QED BY <1>1, <1>2, <1>3, <2>1, <2>2, StartsTyped, DrainsTyped, StrandTyped
<1> QED BY <1>4, <1>5, <1>6, <1>7

LEMMA HandleWriteTyped ==
  ASSUME Typed, NEW ok \in BOOLEAN, HandleWrite(ok)
  PROVE  Typed'
<1>1. /\ writing # <<>>
      /\ UNCHANGED <<sent, session, posted, broken, buffer, passed, reading, handled>>
  BY HandleWriteCases
<1>2. /\ posted' \in Seq(Sent \cup {Proceed}) /\ queue \in Seq(Sent)
      /\ wire \in [Session -> Seq(Token)] /\ last \in [Session -> 0 .. Len(Script)]
  BY <1>1 DEF Typed
<1>3. Tail(writing) \in Seq(Sent \X Session)
  BY <1>1, HeadTailProperties DEF Typed
<1>4. queue # <<>> => Tail(queue) \in Seq(Sent) /\ Len(Tail(queue)) = Len(queue) - 1
  BY <1>2, HeadTailProperties
<1>5. Len(queue) \in Nat
  BY <1>2, LenProperties
<1>6. CASE /\ queue = <<>> /\ writing' = Tail(writing)
           /\ UNCHANGED <<link, queue, wire, last>>
  BY <1>1, <1>2, <1>3, <1>6, StrandTyped
<1>7. CASE /\ queue # <<>> /\ queue' = Tail(queue) /\ writing' = Tail(writing)
           /\ link' = "down" /\ UNCHANGED <<wire, last>>
  BY <1>1, <1>2, <1>3, <1>4, <1>7, StrandTyped
<1>8. CASE /\ queue # <<>> /\ queue' = <<>> /\ writing' = Tail(writing)
           /\ UNCHANGED <<link, wire, last>>
  BY <1>1, <1>2, <1>3, <1>8, EmptySeq, StrandTyped
<1>9. CASE /\ Len(queue) > 1 /\ UNCHANGED link
           /\ Starts(Tail(queue), Tail(writing)) \/ Drains(Tail(writing))
  <2> DEFINE q == Tail(queue)
             rest == Tail(writing)
  <2>1. queue # <<>>
    BY <1>9, EmptySeq
  <2>2. q \in Seq(Sent) /\ q # <<>>
    <3>1. Len(q) = Len(queue) - 1 /\ q \in Seq(Sent)
      BY <1>4, <2>1
    <3>2. Len(queue) > 1
      BY <1>9
    <3>3. Len(q) # 0
      BY <1>5, <3>1, <3>2
    <3> QED BY <3>1, <3>3, EmptySeq
  <2>3. rest \in Seq(Sent \X Session)
    BY <1>3
  <2>4. Starts(q, rest) \/ Drains(rest)
    BY <1>9
  <2> HIDE DEF q, rest
  <2> QED BY <1>1, <1>2, <1>9, <2>2, <2>3, <2>4, StartsTyped, DrainsTyped, StrandTyped
<1> QED BY <1>6, <1>7, <1>8, <1>9, HandleWriteCases

-----------------------------------------------------------------------------
(***************************************************************************)
(* The tokens on their way.                                                *)
(***************************************************************************)

\* How the tokens p come from the tokens q: a message is added, a tail is lost, a
\* message is taken from the front.
Added(p, q, n) ==
    /\ Len(p) = Len(q) + 2
    /\ \A i \in 1 .. Len(q) : p[i] = q[i]
    /\ p[Len(q) + 1] = Begin(n) /\ p[Len(q) + 2] = End(n)

Cut(p, q) == Len(p) <= Len(q) /\ \A i \in 1 .. Len(p) : p[i] = q[i]

Dropped(p, q) == Len(q) = Len(p) + 2 /\ \A i \in 1 .. Len(p) : p[i] = q[i + 2]

\* Where messages begin and end, and that both ends are of the same message.
Alternating(q) ==
    \A i \in 1 .. Len(q) : q[i][2] = IF i % 2 = 1 THEN "#" ELSE "!"
Paired(q) ==
    \A i \in 1 .. Len(q) : i + 1 <= Len(q) /\ i % 2 = 1 => q[i][1] = q[i + 1][1]

LEMMA Parity ==
  \A i \in Nat : /\ (i + 2) % 2 = i % 2
                 /\ i % 2 = 0 => (i + 1) % 2 = 1 /\ (i + 2) % 2 = 0
                 /\ i % 2 = 1 => (i + 1) % 2 = 0
                 /\ i % 2 \in {0, 1}
OBVIOUS

LEMMA TokenParts ==
  \A n : Begin(n)[1] = n /\ Begin(n)[2] = "#" /\ End(n)[1] = n /\ End(n)[2] = "!"
BY DEF Begin, End

LEMMA AddedFramed ==
  ASSUME NEW p, NEW q, NEW n, Len(q) \in Nat, Len(q) % 2 = 0, Added(p, q, n),
         Alternating(q), Paired(q)
  PROVE  Alternating(p) /\ Paired(p) /\ Len(p) % 2 = 0
<1> DEFINE N == Len(q)
<1>1. /\ Len(p) = N + 2 /\ N \in Nat /\ N % 2 = 0
      /\ \A i \in 1 .. N : p[i] = q[i]
      /\ p[N + 1] = Begin(n) /\ p[N + 2] = End(n)
  BY DEF Added
<1>2. (N + 1) % 2 = 1 /\ (N + 2) % 2 = 0
  BY <1>1, Parity
<1>3. \A i \in 1 .. N : q[i][2] = IF i % 2 = 1 THEN "#" ELSE "!"
  BY DEF Alternating
<1>4. \A i \in 1 .. N : i + 1 <= N /\ i % 2 = 1 => q[i][1] = q[i + 1][1]
  BY DEF Paired
<1> HIDE DEF N
<1>5. \A i \in 1 .. N + 2 : i \in 1 .. N \/ i = N + 1 \/ i = N + 2
  BY <1>1
<1>6. Alternating(p)
  <2> SUFFICES ASSUME NEW i \in 1 .. Len(p)
               PROVE  p[i][2] = IF i % 2 = 1 THEN "#" ELSE "!"
    BY DEF Alternating
  <2> QED BY <1>1, <1>2, <1>3, <1>5, TokenParts
<1>7. Paired(p)
  <2> SUFFICES ASSUME NEW i \in 1 .. Len(p), i + 1 <= Len(p), i % 2 = 1
               PROVE  p[i][1] = p[i + 1][1]
    BY DEF Paired
  <2>1. CASE i + 1 <= N
    <3>1. i \in 1 .. N /\ i + 1 \in 1 .. N
      BY <1>1, <2>1
    <3> QED BY <1>1, <1>4, <2>1, <3>1
  <2>2. CASE i = N
    BY <1>1, <2>2
  <2>3. CASE i = N + 1
    <3>1. p[i] = Begin(n) /\ p[i + 1] = End(n)
      <4>1. i + 1 = N + 2
        BY <1>1, <2>3
      <4> QED BY <1>1, <2>3, <4>1
    <3> QED BY <3>1, TokenParts
  <2> QED BY <1>1, <2>1, <2>2, <2>3
<1> QED BY <1>1, <1>2, <1>6, <1>7

LEMMA CutFramed ==
  ASSUME NEW p, NEW q, Len(q) \in Nat, Len(p) \in Nat, Cut(p, q),
         Alternating(q), Paired(q)
  PROVE  Alternating(p) /\ Paired(p)
<1>1. \A i \in 1 .. Len(p) : i \in 1 .. Len(q) /\ p[i] = q[i]
  BY DEF Cut
<1>2. Alternating(p)
  BY <1>1 DEF Alternating
<1>3. Paired(p)
  <2> SUFFICES ASSUME NEW i \in 1 .. Len(p), i + 1 <= Len(p), i % 2 = 1
               PROVE  p[i][1] = p[i + 1][1]
    BY DEF Paired
  <2>1. i + 1 \in 1 .. Len(p) /\ i + 1 <= Len(q)
    BY DEF Cut
  <2>2. q[i][1] = q[i + 1][1]
    BY <1>1, <2>1 DEF Paired
  <2> QED BY <1>1, <2>1, <2>2
<1> QED BY <1>2, <1>3

LEMMA DroppedFramed ==
  ASSUME NEW p, NEW q, Len(p) \in Nat, Len(q) \in Nat, Dropped(p, q),
         Alternating(q), Paired(q)
  PROVE  Alternating(p) /\ Paired(p) /\ (Len(q) % 2 = 0 => Len(p) % 2 = 0)
<1>1. \A i \in 1 .. Len(p) : i + 2 \in 1 .. Len(q) /\ p[i] = q[i + 2] /\ (i + 2) % 2 = i % 2
  BY Parity DEF Dropped
<1>2. Alternating(p)
  BY <1>1 DEF Alternating
<1>3. Paired(p)
  <2> SUFFICES ASSUME NEW i \in 1 .. Len(p), i + 1 <= Len(p), i % 2 = 1
               PROVE  p[i][1] = p[i + 1][1]
    BY DEF Paired
  <2>1. i + 1 \in 1 .. Len(p) /\ (i + 2) + 1 <= Len(q) /\ (i + 1) + 2 = (i + 2) + 1
    BY DEF Dropped
  <2>2. q[i + 2][1] = q[(i + 2) + 1][1]
    BY <1>1, <2>1 DEF Paired
  <2> QED BY <1>1, <2>1, <2>2
<1>4. Len(q) % 2 = Len(p) % 2
  BY Parity DEF Dropped
<1> QED BY <1>2, <1>3, <1>4

\* b is what is in the buffer and w what is on the wire.
LEMMA PutAdded ==
  ASSUME NEW T, NEW b \in Seq(T), NEW w \in Seq(T), NEW two \in Seq(T), NEW n,
         Len(two) = 2, two[1] = Begin(n), two[2] = End(n)
  PROVE  Added(b \o (w \o two), b \o w, n)
<1> DEFINE q == b \o w
           p == q \o two
<1>1. (b \o w) \o two = b \o (w \o two)
  BY ConcatAssociative
<1>2. q \in Seq(T)
  BY ConcatProperties
<1>3. Len(q) \in Nat
  BY <1>2, LenProperties
<1> HIDE DEF q
<1>4. /\ Len(p) = Len(q) + 2
      /\ \A i \in 1 .. Len(q) + 2 : p[i] = IF i <= Len(q) THEN q[i] ELSE two[i - Len(q)]
  <2>1. /\ Len(q \o two) = Len(q) + Len(two)
        /\ \A i \in 1 .. Len(q) + Len(two) : (q \o two)[i] =
                IF i <= Len(q) THEN q[i] ELSE two[i - Len(q)]
    BY <1>2, ConcatProperties
  <2> QED BY <2>1
<1> HIDE DEF p
<1>5. \A i \in 1 .. Len(q) : i \in 1 .. Len(q) + 2 /\ i <= Len(q)
  BY <1>3
<1>6. /\ Len(q) + 1 \in 1 .. Len(q) + 2 /\ ~ (Len(q) + 1 <= Len(q))
      /\ (Len(q) + 1) - Len(q) = 1
      /\ Len(q) + 2 \in 1 .. Len(q) + 2 /\ ~ (Len(q) + 2 <= Len(q))
      /\ (Len(q) + 2) - Len(q) = 2
  BY <1>3
<1>7. Added(p, q, n)
  BY <1>4, <1>5, <1>6 DEF Added
<1> QED BY <1>1, <1>7 DEF p, q

\* The first k of a sequence.
LEMMA FirstOnes ==
  ASSUME NEW T, NEW w \in Seq(T), NEW k \in 0 .. Len(w)
  PROVE  /\ SubSeq(w, 1, k) \in Seq(T) /\ Len(SubSeq(w, 1, k)) = k
         /\ \A i \in 1 .. k : SubSeq(w, 1, k)[i] = w[i]
<1>1. Len(w) \in Nat /\ \A i \in 1 .. Len(w) : w[i] \in T
  BY LenProperties, ElementOfSeq
<1>2. k \in Nat /\ \A i \in 1 .. k : w[i] \in T
  BY <1>1
<1>3. /\ SubSeq(w, 1, k) \in Seq(T)
      /\ Len(SubSeq(w, 1, k)) = IF 1 <= k THEN k - 1 + 1 ELSE 0
      /\ \A i \in 1 .. k - 1 + 1 : SubSeq(w, 1, k)[i] = w[1 + i - 1]
  BY <1>2, SubSeqProperties
<1>4. k - 1 + 1 = k /\ \A i \in 1 .. k : 1 + i - 1 = i
  BY <1>2
<1> QED BY <1>2, <1>3, <1>4

\* Those after the first k.
LEMMA OtherOnes ==
  ASSUME NEW T, NEW w \in Seq(T), NEW k \in 0 .. Len(w)
  PROVE  /\ SubSeq(w, k + 1, Len(w)) \in Seq(T)
         /\ Len(SubSeq(w, k + 1, Len(w))) = Len(w) - k
         /\ \A i \in 1 .. Len(w) - k : SubSeq(w, k + 1, Len(w))[i] = w[i + k]
<1> DEFINE N == Len(w)
<1>1. N \in Nat /\ k \in Nat /\ k <= N /\ \A i \in 1 .. N : w[i] \in T
  BY LenProperties, ElementOfSeq
<1> HIDE DEF N
<1>2. k + 1 \in Int /\ N \in Int /\ \A i \in k + 1 .. N : w[i] \in T
  BY <1>1
<1>3. /\ SubSeq(w, k + 1, N) \in Seq(T)
      /\ Len(SubSeq(w, k + 1, N)) = IF k + 1 <= N THEN N - (k + 1) + 1 ELSE 0
      /\ \A i \in 1 .. N - (k + 1) + 1 : SubSeq(w, k + 1, N)[i] = w[(k + 1) + i - 1]
  BY <1>2, SubSeqProperties
<1>4. /\ N - (k + 1) + 1 = N - k /\ (k + 1 <= N \/ N - k = 0)
      /\ \A i \in 1 .. N - k : (k + 1) + i - 1 = i + k
  BY <1>1
<1> QED BY <1>3, <1>4 DEF N

LEMMA KeptCut ==
  ASSUME NEW T, NEW b \in Seq(T), NEW w \in Seq(T), NEW v \in Seq(T),
         Len(v) <= Len(w), \A i \in 1 .. Len(v) : v[i] = w[i]
  PROVE  Cut(b \o v, b \o w)
<1>1. Len(b) \in Nat /\ Len(w) \in Nat /\ Len(v) \in Nat
  BY LenProperties
<1>2. /\ Len(b \o v) = Len(b) + Len(v)
      /\ \A i \in 1 .. Len(b) + Len(v) : (b \o v)[i] =
                     IF i <= Len(b) THEN b[i] ELSE v[i - Len(b)]
  BY ConcatProperties
<1>3. /\ Len(b \o w) = Len(b) + Len(w)
      /\ \A i \in 1 .. Len(b) + Len(w) : (b \o w)[i] =
                     IF i <= Len(b) THEN b[i] ELSE w[i - Len(b)]
  BY ConcatProperties
<1>4. ASSUME NEW i \in 1 .. Len(b) + Len(v)
      PROVE  (b \o v)[i] = (b \o w)[i]
  <2>1. i \in 1 .. Len(b) + Len(w)
    BY <1>1
  <2>2. CASE i <= Len(b)
    BY <1>2, <1>3, <2>1, <2>2
  <2>3. CASE ~ (i <= Len(b))
    <3>1. i - Len(b) \in 1 .. Len(v)
      BY <1>1, <2>3
    <3> QED BY <1>2, <1>3, <2>1, <2>3, <3>1
  <2> QED BY <2>2, <2>3
<1> QED BY <1>1, <1>2, <1>3, <1>4 DEF Cut

\* A read of k tokens takes them from the wire ...
LEMMA ReadSplit ==
  ASSUME NEW T, NEW w \in Seq(T), NEW k \in 1 .. Len(w)
  PROVE  /\ SubSeq(w, 1, k) \in Seq(T) /\ SubSeq(w, k + 1, Len(w)) \in Seq(T)
         /\ SubSeq(w, 1, k) \o SubSeq(w, k + 1, Len(w)) = w
         /\ SubSeq(w, 1, k) # <<>>
<1>1. k \in 0 .. Len(w) /\ k \in Nat \ {0} /\ Len(w) \in Nat
  BY LenProperties
<1>2. SubSeq(w, 1, k) \in Seq(T) /\ Len(SubSeq(w, 1, k)) = k
  BY <1>1, FirstOnes
<1>3. SubSeq(w, k + 1, Len(w)) \in Seq(T)
  BY <1>1, OtherOnes
<1>4. 1 \in 1 .. Len(w) + 1 /\ k \in 1 - 1 .. Len(w) /\ Len(w) \in k .. Len(w)
  BY <1>1
<1>5. SubSeq(w, 1, k) \o SubSeq(w, k + 1, Len(w)) = SubSeq(w, 1, Len(w))
  BY <1>4, ConcatAdjacentSubSeq
<1>6. SubSeq(w, 1, Len(w)) = w
  BY SubSeqFull
<1>7. SubSeq(w, 1, k) # <<>>
  BY <1>1, <1>2, EmptySeq
<1> QED BY <1>2, <1>3, <1>5, <1>6, <1>7

\* ... to the end of the buffer: c and the u that are left are the same tokens as
\* before.
SameTokens(c, u, q) == c \o u = q /\ Head(c) = q[1]

LEMMA ReadSame ==
  ASSUME NEW T, NEW b \in Seq(T), NEW v \in Seq(T), NEW u \in Seq(T),
         v # <<>>
  PROVE  /\ b \o v \in Seq(T)
         /\ SameTokens(b \o v, u, b \o (v \o u))
         /\ Len(b \o (v \o u)) \in Nat \ {0}
<1>1. (b \o v) \o u = b \o (v \o u)
  BY ConcatAssociative
<1>2. Len(b) \in Nat /\ Len(v) \in Nat /\ Len(v) # 0 /\ Len(u) \in Nat
  BY LenProperties, EmptySeq
<1>3. b \o v \in Seq(T) /\ Len(b \o v) = Len(b) + Len(v)
  BY ConcatProperties
<1> DEFINE p == b \o v
<1>4. p \in Seq(T) /\ Len(p) \in Nat \ {0}
  BY <1>2, <1>3
<1> HIDE DEF p
<1>5. /\ Len(p \o u) = Len(p) + Len(u)
      /\ \A i \in 1 .. Len(p) + Len(u) :
            (p \o u)[i] = IF i <= Len(p) THEN p[i] ELSE u[i - Len(p)]
  BY <1>4, ConcatProperties
<1>6. Len(p \o u) \in Nat \ {0}
  BY <1>2, <1>4, <1>5
<1>7. 1 \in 1 .. Len(p) + Len(u) /\ 1 <= Len(p)
  BY <1>2, <1>4
<1>8. (p \o u)[1] = p[1]
  BY <1>5, <1>7
<1>9. p # <<>>
  BY <1>4, EmptySeq
<1>10. Head(p) = p[1]
  BY <1>4, <1>9
<1>11. p \o u = b \o (v \o u)
  BY <1>1 DEF p
<1>12. Len(b \o (v \o u)) \in Nat \ {0} /\ Head(p) = (b \o (v \o u))[1]
  BY <1>6, <1>8, <1>10, <1>11
<1> QED BY <1>1, <1>3, <1>12 DEF p, SameTokens

LEMMA HandledDropped ==
  ASSUME NEW T, NEW b \in Seq(T), NEW w \in Seq(T), Len(b) >= 2
  PROVE  /\ SubSeq(b, 3, Len(b)) \in Seq(T)
         /\ Dropped(SubSeq(b, 3, Len(b)) \o w, b \o w)
<1> DEFINE c == SubSeq(b, 3, Len(b))
           N == Len(b)
<1>1. N \in Nat /\ Len(w) \in Nat
  BY LenProperties
<1>2. 2 \in 0 .. N
  BY <1>1
<1>3. c \in Seq(T) /\ Len(c) = N - 2 /\ \A i \in 1 .. N - 2 : c[i] = b[i + 2]
  <2>1. PICK k \in 0 .. Len(b) : k = 2
    BY <1>2
  <2>2. c = SubSeq(b, k + 1, Len(b))
    BY <2>1
  <2>3. c \in Seq(T) /\ Len(c) = N - k /\ \A i \in 1 .. N - k : c[i] = b[i + k]
    BY <2>2, OtherOnes
  <2> QED BY <2>1, <2>3
<1> HIDE DEF c
<1>4. /\ Len(c \o w) = Len(c) + Len(w)
      /\ \A i \in 1 .. Len(c) + Len(w) : (c \o w)[i] =
                IF i <= Len(c) THEN c[i] ELSE w[i - Len(c)]
  BY <1>3, ConcatProperties
<1>5. /\ Len(b \o w) = N + Len(w)
      /\ \A i \in 1 .. N + Len(w) : (b \o w)[i] = IF i <= N THEN b[i] ELSE w[i - N]
  BY ConcatProperties
<1> HIDE DEF N
<1>6. Len(b \o w) = Len(c \o w) + 2 /\ N >= 2
  BY <1>1, <1>2, <1>3, <1>4, <1>5
<1>7. ASSUME NEW i \in 1 .. Len(c) + Len(w)
      PROVE  (c \o w)[i] = (b \o w)[i + 2]
  <2>1. i + 2 \in 1 .. N + Len(w)
    BY <1>1, <1>3, <1>6
  <2>2. CASE i <= Len(c)
    <3>1. i \in 1 .. N - 2 /\ i + 2 <= N
      BY <1>1, <1>3, <2>2
    <3> QED BY <1>3, <1>4, <1>5, <2>1, <2>2, <3>1
  <2>3. CASE ~ (i <= Len(c))
    <3>1. ~ (i + 2 <= N) /\ (i + 2) - N = i - Len(c)
      BY <1>1, <1>3, <1>6, <2>3
    <3> QED BY <1>4, <1>5, <2>1, <2>3, <3>1
  <2> QED BY <2>2, <2>3
<1>8. Dropped(c \o w, b \o w)
  BY <1>4, <1>6, <1>7 DEF Dropped
<1> QED BY <1>3, <1>8 DEF c

-----------------------------------------------------------------------------
(***************************************************************************)
(* What the actions do to the tokens of a session r.                       *)
(***************************************************************************)

LEMMA StreamParts ==
  ASSUME Typed, NEW r \in Session
  PROVE  /\ buffer[r] \in Seq(Token) /\ wire[r] \in Seq(Token)
         /\ Stream(r) \in Seq(Token) /\ Len(Stream(r)) \in Nat
<1>1. buffer[r] \in Seq(Token) /\ wire[r] \in Seq(Token)
  BY DEF Typed
<1>2. \A b \in Seq(Token), w \in Seq(Token) : b \o w \in Seq(Token)
  BY ConcatProperties
<1>3. Stream(r) \in Seq(Token)
  BY <1>1, <1>2 DEF Stream
<1> QED BY <1>1, <1>3, LenProperties

LEMMA PutsStream ==
  ASSUME Typed, NEW n \in Sent, Puts(n), UNCHANGED buffer, NEW r \in Session
  PROVE  /\ r = session => Added(Stream(r)', Stream(r), n)
         /\ r # session => Stream(r)' = Stream(r)
<1> DEFINE b == buffer[r]
           w == wire[r]
           two == <<Begin(n), End(n)>>
<1>1. b \in Seq(Token) /\ w \in Seq(Token)
  BY StreamParts
<1>2. two \in Seq(Token) /\ Len(two) = 2 /\ two[1] = Begin(n) /\ two[2] = End(n)
  BY TwoTokens
<1>3. wire'[r] = IF r = session THEN w \o two ELSE w
  BY DEF Puts, Typed
<1>4. Stream(r) = b \o w /\ Stream(r)' = b \o wire'[r]
  BY DEF Stream
<1> HIDE DEF b, w, two
<1>5. Added(b \o (w \o two), b \o w, n)
  BY <1>1, <1>2, PutAdded
<1> QED BY <1>3, <1>4, <1>5

LEMMA BreakStream ==
  ASSUME Typed, NEW s \in Session, Break(s), NEW r \in Session
  PROVE  /\ wire' \in [Session -> Seq(Token)]
         /\ r = s => Cut(Stream(r)', Stream(r))
         /\ r # s => Stream(r)' = Stream(r)
<1> DEFINE b == buffer[s]
           w == wire[s]
<1>1. b \in Seq(Token) /\ w \in Seq(Token)
  BY StreamParts
<1>2. PICK k \in 0 .. Len(w) : wire' = [wire EXCEPT ![s] = SubSeq(w, 1, k)]
  BY DEF Break
<1>3. UNCHANGED buffer
  BY DEF Break, reader
<1>4. Stream(s) = b \o w
  BY DEF Stream
<1>5. Stream(s)' = b \o wire'[s]
  BY <1>3 DEF Stream
<1>6. r = s => Stream(r) = Stream(s) /\ Stream(r)' = Stream(s)'
  OBVIOUS
<1> HIDE DEF b, w
<1> DEFINE v == SubSeq(w, 1, k)
<1>7. v \in Seq(Token) /\ Len(v) = k /\ \A i \in 1 .. k : v[i] = w[i]
  BY <1>1, <1>2, FirstOnes
<1>8. wire' = [wire EXCEPT ![s] = v]
  BY <1>2
<1> HIDE DEF v
<1>9. Len(v) <= Len(w) /\ \A i \in 1 .. Len(v) : v[i] = w[i]
  <2>1. Len(w) \in Nat
    BY <1>1, LenProperties
  <2> QED BY <1>2, <1>7, <2>1
<1>10. Cut(b \o v, b \o w)
  BY <1>1, <1>7, <1>9, KeptCut
<1>11. wire'[s] = v /\ wire' \in [Session -> Seq(Token)]
  BY <1>7, <1>8 DEF Typed
<1>12. r = s => Cut(Stream(r)', Stream(r))
  BY <1>4, <1>5, <1>6, <1>10, <1>11
<1>13. r # s => Stream(r)' = Stream(r)
  BY <1>3, <1>8 DEF Stream, Typed
<1> QED BY <1>11, <1>12, <1>13

\* A read leaves the tokens as they are: what it finds begins with a message.
LEMMA ReadStream ==
  ASSUME Typed, NEW s \in Session, Alternating(Stream(s)), Read(s), NEW r \in Session
  PROVE  /\ Stream(r)' = Stream(r)
         /\ wire' \in [Session -> Seq(Token)] /\ buffer' \in [Session -> Seq(Token)]
         /\ reading' = s /\ passed' = [passed EXCEPT ![s] = {}]
         /\ UNCHANGED <<writer, handled>>
<1> DEFINE b == buffer[s]
           w == wire[s]
<1>1. b \in Seq(Token) /\ w \in Seq(Token)
  BY StreamParts
<1>2. PICK k \in 1 .. Len(w) :
         LET c == b \o SubSeq(w, 1, k)
             good == Head(c)[2] = "#"
         IN  /\ wire' = [wire EXCEPT ![s] = SubSeq(w, k + 1, Len(w))]
             /\ buffer' = [buffer EXCEPT ![s] = IF good THEN c ELSE <<>>]
             /\ reading' = IF good THEN s ELSE 0
  BY DEF Read
<1>3. Stream(s) = b \o w
  BY DEF Stream
<1> HIDE DEF b, w
<1> DEFINE v == SubSeq(w, 1, k)
           c == b \o v
           u == SubSeq(w, k + 1, Len(w))
           q == b \o w
<1>4. /\ c \in Seq(Token) /\ u \in Seq(Token) /\ c \o u = q
      /\ Len(q) \in Nat \ {0} /\ Head(c) = q[1]
  <2>1. v \in Seq(Token) /\ u \in Seq(Token) /\ v \o u = w /\ v # <<>>
    BY <1>1, ReadSplit
  <2> HIDE DEF v, u
  <2>2. q = b \o (v \o u)
    BY <2>1
  <2>3. b \o v \in Seq(Token)
    BY <1>1, <2>1, ReadSame
  <2>4. SameTokens(b \o v, u, b \o (v \o u))
    BY <1>1, <2>1, ReadSame
  <2>5. Len(b \o (v \o u)) \in Nat \ {0}
    BY <1>1, <2>1, ReadSame
  <2>6. SameTokens(c, u, q)
    BY <2>2, <2>4
  <2> QED BY <2>1, <2>2, <2>3, <2>5, <2>6 DEF SameTokens
<1>5. q[1][2] = "#"
  <2>1. Alternating(q)
    BY <1>3
  <2> HIDE DEF q
  <2>2. 1 \in 1 .. Len(q) /\ 1 % 2 = 1
    BY <1>4
  <2> QED BY <2>1, <2>2 DEF Alternating
<1>6. Head(c)[2] = "#"
  <2> HIDE DEF c, q
  <2> QED BY <1>4, <1>5
<1>7. /\ wire' = [wire EXCEPT ![s] = u] /\ buffer' = [buffer EXCEPT ![s] = c]
      /\ reading' = s
  BY <1>2, <1>6
<1> HIDE DEF c, u, q, v
<1>8. wire' \in [Session -> Seq(Token)] /\ buffer' \in [Session -> Seq(Token)]
  BY <1>4, <1>7 DEF Typed
<1>9. Stream(r)' = Stream(r)
  <2>1. CASE r = s
    <3>1. buffer'[s] = c /\ wire'[s] = u
      BY <1>7 DEF Typed
    <3>2. Stream(s)' = c \o u
      BY <3>1 DEF Stream
    <3> QED BY <1>3, <1>4, <2>1, <3>2 DEF q
  <2>2. CASE r # s
    BY <1>7, <2>2 DEF Stream, Typed
  <2> QED BY <2>1, <2>2
<1>10. passed' = [passed EXCEPT ![s] = {}] /\ UNCHANGED <<writer, handled>>
  BY DEF Read
<1> QED BY <1>7, <1>8, <1>9, <1>10

LEMMA HandleNextCases ==
  ASSUME Typed, HandleNext, NEW b, b = buffer[reading], NEW n, n = b[1][1]
  PROVE  /\ reading \in Session /\ UNCHANGED <<writer, wire>>
         /\ \/ reading' = 0 /\ UNCHANGED <<buffer, passed, handled>>
            \/ /\ Len(b) > 2 /\ Key(n) \in passed[reading]
               /\ buffer' = [buffer EXCEPT ![reading] = SubSeq(b, 3, Len(b))]
               /\ UNCHANGED <<reading, passed, handled>>
            \/ /\ Len(b) >= 2 /\ Key(n) \notin passed[reading]
               /\ buffer' = [buffer EXCEPT ![reading] = SubSeq(b, 3, Len(b))]
               /\ passed' = [passed EXCEPT ![reading] = @ \cup {Key(n)}]
               /\ handled' = Append(handled, n)
               /\ UNCHANGED reading
<1>1. reading \in Session /\ UNCHANGED <<writer, wire>>
  BY DEF HandleNext, Typed
<1>2. Len(b) \in Nat
  BY <1>1, LenProperties DEF Typed
<1>3. IF Len(b) < 2 \/ (Key(n) \in passed[reading] /\ Len(b) = 2)
           THEN reading' = 0 /\ UNCHANGED <<buffer, passed, handled>>
           ELSE IF Key(n) \in passed[reading]
           THEN /\ buffer' = [buffer EXCEPT ![reading] = SubSeq(b, 3, Len(b))]
                /\ UNCHANGED <<reading, passed, handled>>
           ELSE /\ buffer' = [buffer EXCEPT ![reading] = SubSeq(b, 3, Len(b))]
                /\ passed' = [passed EXCEPT ![reading] = @ \cup {Key(n)}]
                /\ handled' = Append(handled, n)
                /\ UNCHANGED reading
  BY DEF HandleNext
<1>4. CASE Len(b) < 2 \/ (Key(n) \in passed[reading] /\ Len(b) = 2)
  BY <1>1, <1>3, <1>4
<1>5. CASE ~ (Len(b) < 2) /\ Len(b) # 2 /\ Key(n) \in passed[reading]
  <2>1. Len(b) > 2
    <3>1. \A x \in Nat : ~ (x < 2) /\ x # 2 => x > 2
      OBVIOUS
    <3> QED BY <1>2, <1>5, <3>1
  <2> QED BY <1>1, <1>3, <1>5, <2>1
<1>6. CASE ~ (Len(b) < 2) /\ Key(n) \notin passed[reading]
  <2>1. Len(b) >= 2
    <3>1. \A x \in Nat : ~ (x < 2) => x >= 2
      OBVIOUS
    <3> QED BY <1>2, <1>6, <3>1
  <2> QED BY <1>1, <1>3, <1>6, <2>1
<1> QED BY <1>4, <1>5, <1>6

\* A message is taken from the front of the session that is read.
LEMMA HandledStream ==
  ASSUME Typed, reading \in Session, UNCHANGED wire,
         NEW b, b = buffer[reading], Len(b) >= 2,
         buffer' = [buffer EXCEPT ![reading] = SubSeq(b, 3, Len(b))],
         NEW r \in Session
  PROVE  /\ buffer' \in [Session -> Seq(Token)]
         /\ r = reading => Dropped(Stream(r)', Stream(r)) /\ b[1] = Stream(r)[1]
         /\ r # reading => Stream(r)' = Stream(r)
         /\ b[1][1] \in Sent
<1> DEFINE w == wire[reading]
           c == SubSeq(b, 3, Len(b))
<1>1. b \in Seq(Token) /\ w \in Seq(Token)
  BY StreamParts
<1>2. buffer' = [buffer EXCEPT ![reading] = c]
  OBVIOUS
<1> HIDE DEF w
<1>3. c \in Seq(Token) /\ Dropped(c \o w, b \o w)
  BY <1>1, HandledDropped
<1> HIDE DEF c
<1>4. buffer' \in [Session -> Seq(Token)]
  BY <1>2, <1>3 DEF Typed
<1>5. ASSUME r = reading
      PROVE  Stream(r) = b \o w /\ Stream(r)' = c \o w
  <2>1. buffer'[r] = c /\ wire'[r] = w /\ buffer[r] = b /\ wire[r] = w
    BY <1>2, <1>5 DEF Typed, w
  <2> QED BY <2>1 DEF Stream
<1>6. r # reading => Stream(r)' = Stream(r)
  BY <1>2 DEF Stream, Typed
<1>7. 1 \in 1 .. Len(b) /\ Len(b) \in Nat /\ Len(w) \in Nat
  BY <1>1, LenProperties
<1>8. b[1] \in Token /\ (b \o w)[1] = b[1]
  <2>1. b[1] \in Token
    BY <1>1, <1>7, ElementOfSeq
  <2>2. \A i \in 1 .. Len(b) + Len(w) : (b \o w)[i] = IF i <= Len(b) THEN b[i] ELSE w[i - Len(b)]
    BY <1>1, ConcatProperties
  <2>3. 1 \in 1 .. Len(b) + Len(w) /\ 1 <= Len(b)
    BY <1>7
  <2> QED BY <2>1, <2>2, <2>3
<1>9. b[1][1] \in Sent
  BY <1>8, TokenParts DEF Token
<1> QED BY <1>3, <1>4, <1>5, <1>6, <1>8, <1>9
-----------------------------------------------------------------------------
(***************************************************************************)
(* The framing of the tokens, with which a read finds a message first.     *)
(***************************************************************************)

\* The tokens of a session alternate and match; those of a session that carries
\* are whole messages.
Framed ==
    \A s \in Session :
       /\ Alternating(Stream(s)) /\ Paired(Stream(s))
       /\ s \notin broken => Len(Stream(s)) % 2 = 0

\* What is to be shown of one session r after a step.
FramedAt(r) ==
    /\ Alternating(Stream(r)) /\ Paired(Stream(r))
    /\ r \notin broken => Len(Stream(r)) % 2 = 0

LEMMA FramedParts ==
  /\ Framed <=> \A r \in Session : FramedAt(r)
  /\ Framed' <=> \A r \in Session : FramedAt(r)'
BY DEF Framed, FramedAt, Stream

LEMMA InitFramed == Init => Framed
<1> SUFFICES ASSUME Init, NEW s \in Session
             PROVE  FramedAt(s)
  BY FramedParts
<1> DEFINE q == Stream(s)
<1>1. q = <<>> \o <<>>
  BY DEF Stream, Init
<1>2. <<>> \in Seq(Token) /\ Len(<<>>) = 0
  BY EmptySeq
<1>3. Len(<<>> \o <<>>) = 0
  BY <1>2, ConcatProperties
<1>4. Len(q) = 0
  BY <1>1, <1>3
<1> HIDE DEF q
<1>5. Alternating(q) /\ Paired(q) /\ Len(q) % 2 = 0
  BY <1>4 DEF Alternating, Paired
<1> QED BY <1>5 DEF FramedAt, q

\* A step that leaves the tokens of r as they are.
LEMMA SameFramed ==
  ASSUME NEW r \in Session, FramedAt(r), Stream(r)' = Stream(r), broken \subseteq broken'
  PROVE  FramedAt(r)'
BY DEF FramedAt

LEMMA PutsFramed ==
  ASSUME Typed, Framed, NEW n \in Sent, Puts(n), UNCHANGED <<buffer, broken>>
  PROVE  Framed'
<1> SUFFICES ASSUME NEW r \in Session
             PROVE  FramedAt(r)'
  BY FramedParts
<1>1. FramedAt(r)
  BY FramedParts
<1>2. CASE r = session
  <2>1. Added(Stream(r)', Stream(r), n)
    BY <1>2, PutsStream
  <2>2. Len(Stream(r)) \in Nat
    BY StreamParts
  <2>3. Alternating(Stream(r)) /\ Paired(Stream(r)) /\ Len(Stream(r)) % 2 = 0
    BY <1>1, <1>2 DEF FramedAt, Puts
  <2> DEFINE p == Stream(r)'
             q == Stream(r)
  <2> HIDE DEF p, q
  <2>4. Added(p, q, n) /\ Len(q) \in Nat /\ Alternating(q) /\ Paired(q) /\ Len(q) % 2 = 0
    BY <2>1, <2>2, <2>3 DEF p, q
  <2>5. Alternating(p) /\ Paired(p) /\ Len(p) % 2 = 0
    BY <2>4, AddedFramed
  <2> QED BY <2>5 DEF p, FramedAt
<1>3. CASE r # session
  <2>1. Stream(r)' = Stream(r)
    BY <1>3, PutsStream
  <2> QED BY <1>1, <2>1, SameFramed
<1> QED BY <1>2, <1>3

\* A step of the strand or a completion.
LEMMA StartsFramed ==
  ASSUME Typed, Framed, NEW q \in Seq(Sent), q # <<>>, NEW pending,
         Starts(q, pending) \/ Drains(pending), UNCHANGED <<buffer, broken>>
  PROVE  Framed'
<1>1. Head(q) \in Sent
  BY HeadTailProperties
<1>2. CASE Puts(Head(q))
  BY <1>1, <1>2, PutsFramed
<1>3. CASE UNCHANGED <<wire, last>>
  <2>1. \A r \in Session : Stream(r)' = Stream(r)
    BY <1>3 DEF Stream
  <2> QED BY <2>1, SameFramed, FramedParts
<1> QED BY <1>2, <1>3 DEF Starts, Drains

\* Steps that touch neither.
LEMMA QuietFramed ==
  ASSUME Framed, UNCHANGED <<wire, buffer, broken>>
  PROVE  Framed'
BY DEF Framed, Stream

LEMMA RunPostedFramed ==
  ASSUME Typed, Framed, RunPosted
  PROVE  Framed'
<1>1. posted # <<>> /\ UNCHANGED <<buffer, broken>> /\ queue \in Seq(Sent)
  BY RunPostedCases DEF Typed
<1>2. CASE UNCHANGED <<wire, last>>
  BY <1>1, <1>2, QuietFramed
<1>3. CASE queue # <<>> /\ (Starts(queue, writing) \/ Drains(writing))
  BY <1>1, <1>3, StartsFramed
<1>4. CASE /\ Head(posted) # Proceed
           /\ Starts(<<Head(posted)>>, writing) \/ Drains(writing)
  <2> DEFINE q == <<Head(posted)>>
  <2>1. q \in Seq(Sent) /\ q # <<>>
    BY <1>1, <1>4, PostedHead
  <2>2. Starts(q, writing) \/ Drains(writing)
    BY <1>4
  <2> HIDE DEF q
  <2> QED BY <1>1, <2>1, <2>2, StartsFramed
<1> QED BY <1>2, <1>3, <1>4, RunPostedCases

\* What is left of a queue of more than one message.
LEMMA TailLeft ==
  ASSUME Typed, Len(queue) > 1
  PROVE  Tail(queue) \in Seq(Sent) /\ Tail(queue) # <<>>
<1>1. queue \in Seq(Sent) /\ Len(queue) \in Nat
  BY LenProperties DEF Typed
<1>2. queue # <<>>
  BY EmptySeq
<1>3. Tail(queue) \in Seq(Sent) /\ Len(Tail(queue)) = Len(queue) - 1
  BY <1>1, <1>2, HeadTailProperties
<1>4. Len(Tail(queue)) # 0
  BY <1>1, <1>3
<1> QED BY <1>3, <1>4, EmptySeq

LEMMA HandleWriteFramed ==
  ASSUME Typed, Framed, NEW ok \in BOOLEAN, HandleWrite(ok)
  PROVE  Framed'
<1>1. UNCHANGED <<buffer, broken>>
  BY HandleWriteCases
<1>2. CASE UNCHANGED <<wire, last>>
  BY <1>1, <1>2, QuietFramed
<1>3. CASE /\ Len(queue) > 1
           /\ Starts(Tail(queue), Tail(writing)) \/ Drains(Tail(writing))
  BY <1>1, <1>3, TailLeft, StartsFramed
<1> QED BY <1>2, <1>3, HandleWriteCases

LEMMA BreakFramed ==
  ASSUME Typed, Framed, NEW s \in Session, Break(s)
  PROVE  Framed' /\ Typed'
<1>1. /\ wire' \in [Session -> Seq(Token)] /\ broken' = broken \cup {s}
      /\ UNCHANGED <<sent, link, session, posted, queue, writing, last>>
      /\ UNCHANGED <<buffer, passed, reading, handled>>
  BY BreakStream DEF Break, reader
<1>2. Typed'
  BY <1>1 DEF Typed, Sent, Token
<1> SUFFICES ASSUME NEW r \in Session
             PROVE  FramedAt(r)'
  BY <1>2, FramedParts
<1>3. FramedAt(r)
  BY FramedParts
<1>4. CASE r = s
  <2> DEFINE p == Stream(r)'
             q == Stream(r)
  <2>1. Cut(p, q)
    BY <1>4, BreakStream
  <2>2. Len(q) \in Nat
    BY StreamParts
  <2>3. Len(p) \in Nat
    <3>1. Len(Stream(r))' \in Nat
      BY <1>2, StreamParts
    <3> QED BY <3>1
  <2>4. Alternating(q) /\ Paired(q)
    BY <1>3 DEF FramedAt
  <2> HIDE DEF p, q
  <2>5. Alternating(p) /\ Paired(p)
    BY <2>1, <2>2, <2>3, <2>4, CutFramed
  <2> QED BY <1>1, <1>4, <2>5 DEF p, FramedAt
<1>5. CASE r # s
  <2>1. Stream(r)' = Stream(r)
    BY <1>5, BreakStream
  <2> QED BY <1>1, <1>3, <2>1, SameFramed
<1> QED BY <1>4, <1>5

LEMMA ReadFramed ==
  ASSUME Typed, Framed, NEW s \in Session, Read(s)
  PROVE  Framed' /\ Typed'
<1>1. Alternating(Stream(s))
  BY DEF Framed
<1>2. \A r \in Session : Stream(r)' = Stream(r)
  BY <1>1, ReadStream
<1>3. /\ wire' \in [Session -> Seq(Token)] /\ buffer' \in [Session -> Seq(Token)]
      /\ reading' = s /\ UNCHANGED <<writer, handled>>
  BY <1>1, ReadStream
<1>4. broken' = broken
  BY <1>3 DEF writer
<1>5. Framed'
  BY <1>2, <1>4, SameFramed, FramedParts
<1>6. Typed'
  BY <1>3 DEF Typed, Sent, Token, writer
<1> QED BY <1>5, <1>6

LEMMA HandleNextFramed ==
  ASSUME Typed, Framed, HandleNext
  PROVE  Framed' /\ Typed'
<1> PICK b : b = buffer[reading]
  OBVIOUS
<1> PICK n : n = b[1][1]
  OBVIOUS
<1>1. reading \in Session /\ UNCHANGED <<writer, wire>>
  BY HandleNextCases
<1>2. UNCHANGED <<sent, link, session, posted, queue, writing, broken, last>>
  BY <1>1 DEF writer
<1>3. CASE reading' = 0 /\ UNCHANGED <<buffer, passed, handled>>
  <2>1. Framed'
    BY <1>1, <1>2, <1>3, QuietFramed
  <2> QED BY <1>1, <1>2, <1>3, <2>1 DEF Typed, Sent, Token
<1>4. CASE /\ Len(b) >= 2
           /\ buffer' = [buffer EXCEPT ![reading] = SubSeq(b, 3, Len(b))]
           /\ handled' \in {handled, Append(handled, n)}
           /\ UNCHANGED reading
  <2>1. buffer' \in [Session -> Seq(Token)] /\ n \in Sent
    BY <1>1, <1>4, HandledStream
  <2>2. handled' \in Seq(Sent)
    <3>1. handled \in Seq(Sent)
      BY DEF Typed
    <3>2. Append(handled, n) \in Seq(Sent)
      BY <2>1, <3>1, AppendProperties
    <3> QED BY <1>4, <3>1, <3>2
  <2>3. Typed'
    BY <1>1, <1>2, <1>4, <2>1, <2>2 DEF Typed, Sent, Token
  <2> SUFFICES ASSUME NEW r \in Session
               PROVE  FramedAt(r)'
    BY <2>3, FramedParts
  <2>4. FramedAt(r)
    BY FramedParts
  <2>5. CASE r = reading
    <3> DEFINE p == Stream(r)'
               q == Stream(r)
    <3>1. Dropped(p, q)
      BY <1>1, <1>4, <2>5, HandledStream
    <3>2. Len(q) \in Nat
      BY StreamParts
    <3>3. Len(p) \in Nat
      <4>1. Len(Stream(r))' \in Nat
        BY <2>3, StreamParts
      <4> QED BY <4>1
    <3>4. Alternating(q) /\ Paired(q) /\ (r \notin broken => Len(q) % 2 = 0)
      BY <2>4 DEF FramedAt
    <3> HIDE DEF p, q
    <3>5. Alternating(p) /\ Paired(p) /\ (Len(q) % 2 = 0 => Len(p) % 2 = 0)
      BY <3>1, <3>2, <3>3, <3>4, DroppedFramed
    <3> QED BY <1>2, <3>4, <3>5 DEF p, FramedAt
  <2>6. CASE r # reading
    <3>1. Stream(r)' = Stream(r)
      BY <1>1, <1>4, <2>6, HandledStream
    <3> QED BY <1>2, <2>4, <3>1, SameFramed
  <2> QED BY <2>5, <2>6
<1>5. Len(b) \in Nat
  BY <1>1, LenProperties DEF Typed
<1>6. Len(b) > 2 => Len(b) >= 2
  BY <1>5
<1> QED BY <1>3, <1>4, <1>6, HandleNextCases

\* The steps that touch neither the tokens nor the sessions that are over.
LEMMA PostTyped ==
  ASSUME Typed, Post
  PROVE  Typed'
<1>1. /\ sent' = sent + 1 /\ sent < Len(Script)
      /\ posted' = IF link = "down" THEN posted ELSE Append(posted, sent')
      /\ UNCHANGED <<link, session, queue, writing, wire, broken, last>>
      /\ UNCHANGED <<buffer, passed, reading, handled>>
  BY DEF Post, reader
<1>2. sent' \in 0 .. Len(Script) /\ Sent \subseteq Sent' /\ sent' \in Sent'
  BY <1>1, ScriptLength DEF Typed, Sent
<1>3. Token \subseteq Token'
  BY <1>2 DEF Token
<1> DEFINE A == Sent \cup {Proceed}
           B == Sent' \cup {Proceed}
           C == Sent \X Session
           D == Sent' \X Session
<1>4. A \subseteq B /\ C \subseteq D
  BY <1>2
<1>5. posted \in Seq(A) /\ writing \in Seq(C) /\ sent' \in B
  BY <1>2 DEF Typed
<1> HIDE DEF A, B, C, D
<1>6. posted \in Seq(B) /\ writing \in Seq(D)
  BY <1>4, <1>5, SeqMonotonic
<1>7. posted' \in Seq(B)
  BY <1>1, <1>5, <1>6, AppendProperties
<1>8. queue \in Seq(Sent') /\ handled \in Seq(Sent')
  BY <1>2, SeqMonotonic DEF Typed
<1>9. Seq(Token) \subseteq Seq(Token')
  BY <1>3, SeqMonotonic
<1>10. wire \in [Session -> Seq(Token')] /\ buffer \in [Session -> Seq(Token')]
  BY <1>9 DEF Typed
<1> QED BY <1>1, <1>2, <1>6, <1>7, <1>8, <1>10 DEF Typed, B, D

LEMMA ConnectTyped ==
  ASSUME Typed, Connect
  PROVE  Typed'
<1>1. /\ UNCHANGED <<sent, posted, queue, writing, wire, broken, last>>
      /\ UNCHANGED <<buffer, passed, reading, handled>>
  BY DEF Connect, reader
<1>2. Sent' = Sent /\ Token' = Token
  BY <1>1 DEF Sent, Token
<1>3. /\ link' \in {"down", "connecting", "up"}
      /\ session' \in 0 .. MaxSessions
      /\ link' # "down" => session' \in Session
  <2>1. session \in 0 .. MaxSessions /\ MaxSessions \in Nat
    BY LinkAssumption DEF Typed
  <2>2. CASE link = "down"
    <3>1. session < MaxSessions /\ link' = "connecting" /\ session' = session + 1
      BY <2>2 DEF Connect
    <3>2. session' \in 1 .. MaxSessions /\ session' \in 0 .. MaxSessions
      BY <2>1, <3>1
    <3> QED BY <3>1, <3>2 DEF Session
  <2>3. CASE link # "down"
    <3>1. link' = "down" /\ session' = session
      BY <2>3 DEF Connect
    <3> QED BY <2>1, <3>1
  <2> QED BY <2>2, <2>3
<1> QED BY <1>1, <1>2, <1>3 DEF Typed

LEMMA ConnectedTyped ==
  ASSUME Typed, Connected
  PROVE  Typed'
<1>1. /\ link' = "up" /\ link = "connecting" /\ posted' = Append(posted, Proceed)
      /\ UNCHANGED <<sent, session, queue, writing, wire, broken, last>>
      /\ UNCHANGED <<buffer, passed, reading, handled>>
  BY DEF Connected, reader
<1>2. posted' \in Seq(Sent \cup {Proceed})
  BY <1>1, AppendProperties DEF Typed
<1> QED BY <1>1, <1>2 DEF Typed, Sent, Token

LEMMA NotConnectedTyped ==
  ASSUME Typed, NotConnected
  PROVE  Typed'
BY DEF NotConnected, Typed, reader, Sent, Token

LEMMA StepFramed ==
  ASSUME Typed, Framed, [Next]_vars
  PROVE  Typed' /\ Framed'
<1>1. CASE Post
  BY <1>1, PostTyped, QuietFramed DEF Post, reader
<1>2. CASE RunPosted
  BY <1>2, RunPostedTyped, RunPostedFramed
<1>3. ASSUME NEW ok \in BOOLEAN, HandleWrite(ok)
      PROVE  Typed' /\ Framed'
  BY <1>3, HandleWriteTyped, HandleWriteFramed
<1>4. CASE Connect
  BY <1>4, ConnectTyped, QuietFramed DEF Connect, reader
<1>5. CASE Connected
  BY <1>5, ConnectedTyped, QuietFramed DEF Connected, reader
<1>6. CASE NotConnected
  BY <1>6, NotConnectedTyped, QuietFramed DEF NotConnected, reader
<1>7. ASSUME NEW s \in Session, Break(s)
      PROVE  Typed' /\ Framed'
  BY <1>7, BreakFramed
<1>8. ASSUME NEW s \in Session, Read(s)
      PROVE  Typed' /\ Framed'
  BY <1>8, ReadFramed
<1>9. CASE HandleNext
  BY <1>9, HandleNextFramed
<1>10. CASE UNCHANGED vars
  BY <1>10 DEF vars, Typed, Framed, Stream, Sent, Token
<1> QED BY <1>1, <1>2, <1>3, <1>4, <1>5, <1>6, <1>7, <1>8, <1>9, <1>10 DEF Next

LEMMA AlwaysFramed == Spec => [](Typed /\ Framed)
<1>1. Init => Typed /\ Framed
  BY InitTyped, InitFramed
<1>2. Typed /\ Framed /\ [Next]_vars => (Typed /\ Framed)'
  BY StepFramed
<1> QED BY <1>1, <1>2, PTL DEF Spec

\* The variables hold what they are made for, for any script.
THEOREM LinkTypes == Spec => []TypeOK
<1>1. Typed => TypeOK
  BY DEF Typed, TypeOK
<1> QED BY <1>1, AlwaysFramed, PTL

\* Whatever a break cuts off and a read delivers, what process_buffer finds in a
\* buffer begins with a message: it never throws a buffer away.
THEOREM BuffersBeginAtMessages == Spec => []Aligned
<1>1. Framed => Aligned
  BY DEF Framed, Aligned, Alternating, Stream
<1> QED BY <1>1, AlwaysFramed, PTL

-----------------------------------------------------------------------------
(***************************************************************************)
(* The write queue never stops, and at most two writes are in progress.    *)
(***************************************************************************)

\* strand_proceed waits in the strand.
Waits == Proceed \in ToSet(posted)

LEMMA EmptySet == ToSet(<<>>) = {}
<1>1. <<>> \in Seq({}) /\ Len(<<>>) = 0
  BY EmptySeq
<1>2. DOMAIN <<>> = {}
  BY <1>1, LenProperties
<1> QED BY <1>2 DEF ToSet

LEMMA AppendSet ==
  ASSUME NEW T, NEW q \in Seq(T), NEW x \in T
  PROVE  ToSet(Append(q, x)) = ToSet(q) \cup {x}
<1>1. Len(q) \in Nat /\ DOMAIN q = 1 .. Len(q)
  BY LenProperties
<1>2. /\ Append(q, x) \in Seq(T) /\ Len(Append(q, x)) = Len(q) + 1
      /\ \A i \in 1 .. Len(q) : Append(q, x)[i] = q[i]
      /\ Append(q, x)[Len(q) + 1] = x
  BY AppendProperties
<1>3. DOMAIN Append(q, x) = 1 .. Len(q) + 1
  BY <1>2, LenProperties
<1>4. \A i \in 1 .. Len(q) + 1 : i \in 1 .. Len(q) \/ i = Len(q) + 1
  BY <1>1
<1>5. 1 .. Len(q) \subseteq 1 .. Len(q) + 1 /\ Len(q) + 1 \in 1 .. Len(q) + 1
  BY <1>1
<1> QED BY <1>1, <1>2, <1>3, <1>4, <1>5 DEF ToSet

LEMMA TailSet ==
  ASSUME NEW T, NEW q \in Seq(T), q # <<>>
  PROVE  ToSet(q) = ToSet(Tail(q)) \cup {Head(q)}
<1>1. Len(q) \in Nat /\ DOMAIN q = 1 .. Len(q) /\ Len(q) # 0
  BY LenProperties, EmptySeq
<1>2. /\ Tail(q) \in Seq(T) /\ Len(Tail(q)) = Len(q) - 1
      /\ \A i \in 1 .. Len(Tail(q)) : Tail(q)[i] = q[i + 1]
  BY HeadTailProperties
<1>3. DOMAIN Tail(q) = 1 .. Len(q) - 1
  BY <1>2, LenProperties
<1>4. Head(q) = q[1] /\ 1 \in 1 .. Len(q)
  BY <1>1
<1>5. \A i \in 1 .. Len(q) : i = 1 \/ (i - 1 \in 1 .. Len(q) - 1 /\ (i - 1) + 1 = i)
  BY <1>1
<1>6. \A i \in 1 .. Len(q) - 1 : i + 1 \in 1 .. Len(q)
  BY <1>1
<1> DEFINE t == Tail(q)
           h == Head(q)
<1> HIDE DEF t, h
<1>7. ASSUME NEW x \in ToSet(q)
      PROVE  x \in ToSet(t) \cup {h}
  <2>1. PICK i \in 1 .. Len(q) : x = q[i]
    BY <1>1 DEF ToSet
  <2>2. CASE i = 1
    BY <1>4, <2>1, <2>2 DEF h
  <2>3. CASE i # 1
    <3>1. i - 1 \in 1 .. Len(q) - 1 /\ (i - 1) + 1 = i
      BY <1>5, <2>3
    <3>2. t[i - 1] = q[i] /\ i - 1 \in DOMAIN t
      BY <1>2, <1>3, <3>1 DEF t
    <3> QED BY <2>1, <3>2 DEF ToSet
  <2> QED BY <2>2, <2>3
<1>8. ASSUME NEW x \in ToSet(t) \cup {h}
      PROVE  x \in ToSet(q)
  <2>1. CASE x = h
    BY <1>1, <1>4, <2>1 DEF ToSet, h
  <2>2. CASE x \in ToSet(t)
    <3>1. PICK i \in 1 .. Len(q) - 1 : x = t[i]
      BY <1>3, <2>2 DEF ToSet, t
    <3>2. x = q[i + 1] /\ i + 1 \in DOMAIN q
      BY <1>1, <1>2, <1>6, <3>1 DEF t
    <3> QED BY <3>2 DEF ToSet
  <2> QED BY <2>1, <2>2
<1> QED BY <1>7, <1>8 DEF t, h

\* A write of the head of the queue on the session that is up is in progress.
Writes == \E i \in DOMAIN writing : writing[i] = <<Head(queue), session>>

LEMMA StartsWrites ==
  ASSUME NEW q, NEW pending \in Seq(Sent \X Session), q \in Seq(Sent), q # <<>>,
         session \in Session, Starts(q, pending), UNCHANGED session
  PROVE  Writes'
<1> DEFINE x == <<Head(q), session>>
<1>1. Head(q) \in Sent
  BY HeadTailProperties
<1>2. x \in Sent \X Session
  BY <1>1
<1>3. writing' = Append(pending, x) /\ queue' = q
  BY DEF Starts
<1> HIDE DEF x
<1>4. /\ Len(pending) \in Nat /\ writing' \in Seq(Sent \X Session)
      /\ Len(writing') = Len(pending) + 1 /\ writing'[Len(pending) + 1] = x
  BY <1>2, <1>3, AppendProperties, LenProperties
<1>5. DOMAIN writing' = 1 .. Len(pending) + 1
  BY <1>4, LenProperties
<1>6. Len(pending) + 1 \in DOMAIN writing'
  BY <1>4, <1>5
<1> QED BY <1>3, <1>4, <1>6 DEF Writes, x

LEMMA QueueMovesParts ==
  /\ QueueMoves <=> (link = "up" /\ queue # <<>> => Writes \/ Waits)
  /\ QueueMoves' <=> (link' = "up" /\ queue' # <<>> => Writes' \/ Waits')
BY DEF QueueMoves, Writes, Waits

LEMMA RunPostedMoves ==
  ASSUME Typed, QueueMoves, RunPosted
  PROVE  QueueMoves'
<1> SUFFICES ASSUME link' = "up", queue' # <<>>
             PROVE  Writes' \/ Waits'
  BY QueueMovesParts
<1>1. posted # <<>> /\ posted' = Tail(posted) /\ UNCHANGED <<link, session>>
  BY RunPostedCases
<1>2. session \in Session /\ queue \in Seq(Sent) /\ writing \in Seq(Sent \X Session)
  BY <1>1 DEF Typed
<1>3. CASE Head(posted) = Proceed /\ queue # <<>>
  <2>1. Starts(queue, writing) \/ Drains(writing)
    BY <1>3, RunPostedCases
  <2>2. Starts(queue, writing)
    BY <1>1, <2>1 DEF Drains
  <2> QED BY <1>1, <1>2, <1>3, <2>2, StartsWrites
<1>4. CASE Head(posted) = Proceed /\ queue = <<>>
  BY <1>4, RunPostedCases
<1>5. CASE Head(posted) # Proceed /\ queue # <<>>
  <2>1. queue' = Append(queue, Head(posted)) /\ UNCHANGED writing
    BY <1>5, RunPostedCases
  <2>2. Head(queue') = Head(queue)
    BY <1>2, <1>5, <2>1, HeadTailAppend
  <2>3. CASE Writes
    BY <1>1, <2>1, <2>2, <2>3 DEF Writes
  <2>4. CASE Waits
    <3>1. ToSet(posted) = ToSet(Tail(posted)) \cup {Head(posted)}
      BY <1>1, TailSet DEF Typed
    <3> QED BY <1>1, <1>5, <2>4, <3>1 DEF Waits
  <2> QED BY <1>1, <1>5, <2>3, <2>4, QueueMovesParts
<1>6. CASE Head(posted) # Proceed /\ queue = <<>>
  <2> DEFINE q == <<Head(posted)>>
  <2>1. Starts(q, writing) \/ Drains(writing)
    BY <1>6, RunPostedCases
  <2>2. Starts(q, writing)
    BY <1>1, <2>1 DEF Drains
  <2>3. q \in Seq(Sent) /\ q # <<>>
    BY <1>1, <1>6, PostedHead
  <2> HIDE DEF q
  <2> QED BY <1>1, <1>2, <2>2, <2>3, StartsWrites
<1> QED BY <1>3, <1>4, <1>5, <1>6

LEMMA HandleWriteMoves ==
  ASSUME Typed, QueueMoves, NEW ok \in BOOLEAN, HandleWrite(ok)
  PROVE  QueueMoves'
<1> SUFFICES ASSUME link' = "up", queue' # <<>>
             PROVE  Writes'
  BY QueueMovesParts
<1>1. writing # <<>> /\ UNCHANGED session
  BY HandleWriteCases
<1>2. /\ Len(queue) > 1 /\ UNCHANGED link
      /\ Starts(Tail(queue), Tail(writing)) \/ Drains(Tail(writing))
  BY HandleWriteCases
<1>3. Starts(Tail(queue), Tail(writing)) /\ session \in Session
  BY <1>2 DEF Drains, Typed
<1>4. Tail(writing) \in Seq(Sent \X Session)
  BY <1>1, HeadTailProperties DEF Typed
<1>5. Tail(queue) \in Seq(Sent) /\ Tail(queue) # <<>>
  BY <1>2, TailLeft
<1> DEFINE q == Tail(queue)
           rest == Tail(writing)
<1> HIDE DEF q, rest
<1>6. q \in Seq(Sent) /\ q # <<>> /\ rest \in Seq(Sent \X Session) /\ Starts(q, rest)
  BY <1>3, <1>4, <1>5 DEF q, rest
<1> QED BY <1>1, <1>3, <1>6, StartsWrites

LEMMA StepMoves ==
  ASSUME Typed, QueueMoves, [Next]_vars
  PROVE  QueueMoves'
<1>1. CASE Post
  <2>1. /\ UNCHANGED <<link, session, queue, writing>>
        /\ posted' = IF link = "down" THEN posted ELSE Append(posted, sent')
    BY <1>1 DEF Post
  <2>2. ToSet(posted) \subseteq ToSet(posted')
    <3> DEFINE T == ToSet(posted) \cup {sent'}
    <3>1. posted \in Seq(Sent' \cup {Proceed}) /\ sent' \in Sent' \cup {Proceed}
      <4>1. Sent \cup {Proceed} \subseteq Sent' \cup {Proceed} /\ sent' \in Sent'
        BY <1>1, ScriptLength DEF Post, Typed, Sent
      <4> QED BY <4>1, SeqMonotonic DEF Typed
    <3> QED BY <2>1, <3>1, AppendSet
  <2> QED BY <2>1, <2>2 DEF QueueMoves
<1>2. CASE RunPosted
  BY <1>2, RunPostedMoves
<1>3. ASSUME NEW ok \in BOOLEAN, HandleWrite(ok)
      PROVE  QueueMoves'
  BY <1>3, HandleWriteMoves
<1>4. CASE Connect \/ NotConnected
  BY <1>4 DEF Connect, NotConnected, QueueMoves
<1>5. CASE Connected
  <2>1. posted' = Append(posted, Proceed)
    BY <1>5 DEF Connected
  <2>2. posted \in Seq(Sent \cup {Proceed}) /\ Proceed \in Sent \cup {Proceed}
    BY DEF Typed
  <2>3. Proceed \in ToSet(posted')
    BY <2>1, <2>2, AppendSet
  <2> QED BY <2>3 DEF QueueMoves
<1>6. CASE UNCHANGED <<link, session, posted, queue, writing>>
  BY <1>6 DEF QueueMoves
<1>7. ASSUME NEW s \in Session, Break(s) \/ Read(s)
      PROVE  QueueMoves'
  BY <1>6, <1>7 DEF Break, Read, writer
<1>8. CASE HandleNext
  BY <1>6, <1>8 DEF HandleNext, writer
<1>9. CASE UNCHANGED vars
  BY <1>6, <1>9 DEF vars
<1> QED BY <1>1, <1>2, <1>3, <1>4, <1>5, <1>7, <1>8, <1>9 DEF Next

\* On a connection that is up, a queue that is not empty has a write of its head
\* in progress, or strand_proceed waiting: what handle_write and strand_write
\* rely on when they start no write themselves.
THEOREM QueueNeverStops == Spec => []QueueMoves
<1>1. Init => QueueMoves
  BY DEF Init, QueueMoves
<1>2. Typed /\ QueueMoves /\ [Next]_vars => QueueMoves'
  BY StepMoves
<1> QED BY <1>1, <1>2, AlwaysFramed, PTL DEF Spec

-----------------------------------------------------------------------------
(***************************************************************************)
(* The number of writes in progress.                                       *)
(***************************************************************************)

\* strand_proceed waits once at most.
Once(p) ==
    \A i \in DOMAIN p, j \in DOMAIN p : p[i] = Proceed /\ p[j] = Proceed => i = j

\* While a connection is up, the waiting strand_proceed counts as a write, and an
\* empty queue leaves room for one.
Few ==
    /\ Once(posted)
    /\ link = "connecting" => ~ Waits
    /\ Len(writing) <= 2
    /\ link = "up" /\ (Waits \/ queue = <<>>) => Len(writing) <= 1
    /\ link = "up" /\ Waits /\ queue = <<>> => Len(writing) = 0

LEMMA OnceTail ==
  ASSUME NEW T, NEW p \in Seq(T), p # <<>>, Once(p)
  PROVE  Once(Tail(p)) /\ (Head(p) = Proceed => Proceed \notin ToSet(Tail(p)))
<1> DEFINE t == Tail(p)
<1>1. Len(p) \in Nat /\ DOMAIN p = 1 .. Len(p) /\ Len(p) # 0
  BY LenProperties, EmptySeq
<1>2. /\ t \in Seq(T) /\ Len(t) = Len(p) - 1
      /\ \A i \in 1 .. Len(t) : t[i] = p[i + 1]
  BY HeadTailProperties
<1>3. DOMAIN t = 1 .. Len(p) - 1
  BY <1>2, LenProperties
<1>4. Head(p) = p[1] /\ 1 \in 1 .. Len(p)
  BY <1>1
<1>5. \A i \in 1 .. Len(p) - 1 : i + 1 \in 1 .. Len(p) /\ i + 1 # 1
  BY <1>1
<1> HIDE DEF t
<1>6. ASSUME NEW i \in DOMAIN t, NEW j \in DOMAIN t, t[i] = Proceed, t[j] = Proceed
      PROVE  i = j
  <2>1. /\ i + 1 \in DOMAIN p /\ j + 1 \in DOMAIN p
        /\ p[i + 1] = Proceed /\ p[j + 1] = Proceed
    BY <1>1, <1>2, <1>3, <1>5, <1>6
  <2>2. i + 1 = j + 1
    BY <2>1 DEF Once
  <2>3. i \in Int /\ j \in Int
    BY <1>3
  <2> QED BY <2>2, <2>3
<1>7. ASSUME Head(p) = Proceed, NEW i \in DOMAIN t, t[i] = Proceed
      PROVE  FALSE
  <2>1. /\ i + 1 \in DOMAIN p /\ p[i + 1] = Proceed /\ i + 1 # 1
        /\ 1 \in DOMAIN p /\ p[1] = Proceed
    BY <1>1, <1>2, <1>3, <1>4, <1>5, <1>7
  <2> QED BY <2>1 DEF Once
<1>8. Once(t)
  BY <1>6 DEF Once
<1>9. Head(p) = Proceed => Proceed \notin ToSet(t)
  BY <1>7 DEF ToSet
<1> QED BY <1>8, <1>9 DEF t

LEMMA OnceAppend ==
  ASSUME NEW T, NEW p \in Seq(T), NEW x \in T, Once(p),
         x # Proceed \/ Proceed \notin ToSet(p)
  PROVE  Once(Append(p, x))
<1> DEFINE a == Append(p, x)
<1>1. Len(p) \in Nat /\ DOMAIN p = 1 .. Len(p)
  BY LenProperties
<1>2. /\ a \in Seq(T) /\ Len(a) = Len(p) + 1
      /\ \A i \in 1 .. Len(p) : a[i] = p[i]
      /\ a[Len(p) + 1] = x
  BY AppendProperties
<1>3. DOMAIN a = 1 .. Len(p) + 1
  BY <1>2, LenProperties
<1> HIDE DEF a
<1>4. \A i \in DOMAIN a : i \in DOMAIN p \/ i = Len(p) + 1
  BY <1>1, <1>3
<1>5. ASSUME x = Proceed, NEW i \in DOMAIN p, a[i] = Proceed
      PROVE  FALSE
  BY <1>1, <1>2, <1>5 DEF ToSet
<1>6. ASSUME NEW i \in DOMAIN a, NEW j \in DOMAIN a, a[i] = Proceed, a[j] = Proceed
      PROVE  i = j
  <2>1. CASE i \in DOMAIN p /\ j \in DOMAIN p
    BY <1>1, <1>2, <1>6, <2>1 DEF Once
  <2>2. CASE i \notin DOMAIN p /\ j \notin DOMAIN p
    BY <1>4, <2>2
  <2>3. CASE i \in DOMAIN p /\ j \notin DOMAIN p
    BY <1>2, <1>4, <1>5, <1>6, <2>3
  <2>4. CASE i \notin DOMAIN p /\ j \in DOMAIN p
    BY <1>2, <1>4, <1>5, <1>6, <2>4
  <2> QED BY <2>1, <2>2, <2>3, <2>4
<1>7. Once(a)
  BY <1>6 DEF Once
<1> QED BY <1>7 DEF a

\* A write that starts, and one whose handler has run.
LEMMA WritingLength ==
  ASSUME Typed
  PROVE  /\ Len(writing) \in Nat
         /\ writing # <<>> =>
              /\ Len(Tail(writing)) = Len(writing) - 1 /\ Len(writing) # 0
              /\ Tail(writing) \in Seq(Sent \X Session)
<1>1. writing \in Seq(Sent \X Session)
  BY DEF Typed
<1> QED BY <1>1, LenProperties, EmptySeq, HeadTailProperties

LEMMA StartsLength ==
  ASSUME NEW T, NEW pending \in Seq(T), NEW q \in Seq(Sent), q # <<>>,
         T = Sent \X Session, session \in Session, Starts(q, pending)
  PROVE  Len(writing') = Len(pending) + 1
<1> DEFINE x == <<Head(q), session>>
<1>1. Head(q) \in Sent
  BY HeadTailProperties
<1>2. x \in T
  BY <1>1
<1>3. writing' = Append(pending, x)
  BY DEF Starts
<1> HIDE DEF x
<1> QED BY <1>2, <1>3, AppendProperties

LEMMA RunPostedFew ==
  ASSUME Typed, Few, RunPosted
  PROVE  Few'
<1>1. posted # <<>> /\ posted' = Tail(posted) /\ UNCHANGED <<link, session>>
  BY RunPostedCases
<1>2. ToSet(posted) = ToSet(posted') \cup {Head(posted)}
  BY <1>1, TailSet DEF Typed
<1>3. Once(posted') /\ (Head(posted) = Proceed => ~ Waits')
  BY <1>1, OnceTail DEF Typed, Few, Waits
<1>4. /\ Head(posted) = Proceed => Waits
      /\ Waits' => Waits
  BY <1>2 DEF Waits
<1>5. Len(writing) \in Nat
  BY WritingLength
<1>6. writing \in Seq(Sent \X Session) /\ queue \in Seq(Sent)
      /\ (link = "up" => session \in Session)
  BY DEF Typed
<1>7. CASE Head(posted) = Proceed /\ queue = <<>>
  <2>1. UNCHANGED <<queue, writing>>
    BY <1>7, RunPostedCases
  <2> QED BY <1>1, <1>3, <1>4, <1>5, <1>7, <2>1 DEF Few
<1>8. CASE Head(posted) = Proceed /\ queue # <<>>
  <2>1. Starts(queue, writing) \/ Drains(writing)
    BY <1>8, RunPostedCases
  <2>2. CASE Drains(writing)
    BY <1>1, <1>3, <1>4, <2>2 DEF Few, Drains
  <2>3. CASE Starts(queue, writing)
    <3>1. link = "up" /\ queue' = queue
      BY <2>3 DEF Starts
    <3>2. Len(writing') = Len(writing) + 1
      BY <1>6, <1>8, <2>3, <3>1, StartsLength
    <3>3. Len(writing) <= 1
      BY <1>4, <1>8, <3>1 DEF Few
    <3> QED BY <1>1, <1>3, <1>5, <1>8, <3>1, <3>2, <3>3 DEF Few
  <2> QED BY <2>1, <2>2, <2>3
<1>9. CASE Head(posted) # Proceed /\ queue # <<>>
  <2>1. queue' = Append(queue, Head(posted)) /\ UNCHANGED writing
    BY <1>9, RunPostedCases
  <2>2. queue' # <<>>
    <3>1. Head(posted) \in Sent
      BY <1>1, <1>9, PostedHead
    <3> QED BY <1>6, <2>1, <3>1, AppendProperties
  <2> QED BY <1>1, <1>3, <1>4, <2>1, <2>2 DEF Few
<1>10. CASE Head(posted) # Proceed /\ queue = <<>>
  <2> DEFINE q == <<Head(posted)>>
  <2>1. Starts(q, writing) \/ Drains(writing)
    BY <1>10, RunPostedCases
  <2>2. q \in Seq(Sent) /\ q # <<>>
    BY <1>1, <1>10, PostedHead
  <2> HIDE DEF q
  <2>3. CASE Drains(writing)
    BY <1>1, <1>3, <1>4, <2>3 DEF Few, Drains
  <2>4. CASE Starts(q, writing)
    <3>1. link = "up" /\ queue' = q
      BY <2>4 DEF Starts
    <3>2. Len(writing') = Len(writing) + 1
      BY <1>6, <2>2, <2>4, <3>1, StartsLength
    <3>3. Len(writing) <= 1 /\ (Waits => Len(writing) = 0)
      BY <1>10, <3>1 DEF Few
    <3> QED BY <1>1, <1>3, <1>4, <1>5, <2>2, <3>1, <3>2, <3>3 DEF Few
  <2> QED BY <2>1, <2>3, <2>4
<1> QED BY <1>7, <1>8, <1>9, <1>10

LEMMA HandleWriteFew ==
  ASSUME Typed, Few, NEW ok \in BOOLEAN, HandleWrite(ok)
  PROVE  Few'
<1>1. writing # <<>> /\ UNCHANGED <<session, posted>>
  BY HandleWriteCases
<1> DEFINE rest == Tail(writing)
<1>2. /\ Len(writing) \in Nat /\ Len(rest) = Len(writing) - 1 /\ Len(writing) # 0
      /\ rest \in Seq(Sent \X Session)
  BY <1>1, WritingLength
<1> HIDE DEF rest
<1>3. UNCHANGED Waits
  BY <1>1 DEF Waits
<1>4. Len(rest) \in Nat /\ Len(rest) < Len(writing)
  BY <1>2
<1>5. CASE queue = <<>> /\ writing' = rest /\ UNCHANGED <<link, queue>>
  BY <1>1, <1>2, <1>3, <1>4, <1>5 DEF Few
<1>6. CASE link' = "down" /\ writing' = rest
  BY <1>1, <1>2, <1>3, <1>4, <1>6 DEF Few
<1>7. CASE queue' = <<>> /\ writing' = rest /\ UNCHANGED link
  BY <1>1, <1>2, <1>3, <1>4, <1>7 DEF Few
<1>8. CASE /\ Len(queue) > 1 /\ UNCHANGED link
           /\ Starts(Tail(queue), rest) \/ Drains(rest)
  <2> DEFINE q == Tail(queue)
  <2>1. q \in Seq(Sent) /\ q # <<>>
    BY <1>8, TailLeft
  <2>2. Starts(q, rest) \/ Drains(rest)
    BY <1>8
  <2> HIDE DEF q
  <2>3. CASE Drains(rest)
    BY <1>1, <1>2, <1>3, <1>4, <1>8, <2>3 DEF Few, Drains
  <2>4. CASE Starts(q, rest)
    <3>1. link = "up" /\ queue' = q /\ session \in Session
      BY <2>4 DEF Starts, Typed
    <3>2. Len(writing') = Len(rest) + 1
      BY <1>2, <2>1, <2>4, <3>1, StartsLength
    <3>3. Len(writing') = Len(writing)
      BY <1>2, <3>2
    <3> QED BY <1>1, <1>3, <1>8, <2>1, <3>1, <3>3 DEF Few
  <2> QED BY <2>2, <2>3, <2>4
<1> QED BY <1>5, <1>6, <1>7, <1>8, HandleWriteCases DEF rest

LEMMA StepFew ==
  ASSUME Typed, Few, [Next]_vars
  PROVE  Few'
<1>1. CASE Post
  <2>1. /\ UNCHANGED <<link, queue, writing>>
        /\ posted' = IF link = "down" THEN posted ELSE Append(posted, sent')
    BY <1>1 DEF Post
  <2> DEFINE T == Sent' \cup {Proceed}
  <2>2. Sent \cup {Proceed} \subseteq T /\ sent' \in T /\ sent' # Proceed
    BY <1>1, ScriptLength DEF Post, Typed, Sent, Proceed
  <2>3. posted \in Seq(T)
    BY <2>2, SeqMonotonic DEF Typed
  <2> HIDE DEF T
  <2>4. Once(posted') /\ (Waits' => Waits)
    <3>1. CASE link = "down"
      BY <2>1, <3>1 DEF Few, Waits
    <3>2. CASE link # "down"
      <4>1. posted' = Append(posted, sent')
        BY <2>1, <3>2
      <4>2. Once(posted')
        BY <2>2, <2>3, <4>1, OnceAppend DEF Few
      <4>3. ToSet(posted') = ToSet(posted) \cup {sent'}
        BY <2>2, <2>3, <4>1, AppendSet
      <4> QED BY <2>2, <4>2, <4>3 DEF Waits
    <3> QED BY <3>1, <3>2
  <2> QED BY <2>1, <2>4 DEF Few
<1>2. CASE RunPosted
  BY <1>2, RunPostedFew
<1>3. ASSUME NEW ok \in BOOLEAN, HandleWrite(ok)
      PROVE  Few'
  BY <1>3, HandleWriteFew
<1>4. CASE Connect
  BY <1>4 DEF Connect, Few, Waits
<1>5. CASE NotConnected
  BY <1>5 DEF NotConnected, Few, Waits
<1>6. CASE Connected
  <2>1. /\ link = "connecting" /\ writing = <<>> /\ link' = "up"
        /\ posted' = Append(posted, Proceed) /\ UNCHANGED <<queue, writing>>
    BY <1>6 DEF Connected
  <2>2. Once(posted')
    <3>1. posted \in Seq(Sent \cup {Proceed}) /\ Proceed \in Sent \cup {Proceed}
      BY DEF Typed
    <3>2. Once(posted) /\ Proceed \notin ToSet(posted)
      BY <2>1 DEF Few, Waits
    <3> QED BY <2>1, <3>1, <3>2, OnceAppend
  <2>3. Len(writing') = 0
    BY <2>1, EmptySeq
  <2> QED BY <2>1, <2>2, <2>3 DEF Few
<1>7. CASE UNCHANGED <<link, posted, queue, writing>>
  BY <1>7 DEF Few, Waits
<1>8. ASSUME NEW s \in Session, Break(s) \/ Read(s)
      PROVE  Few'
  BY <1>7, <1>8 DEF Break, Read, writer
<1>9. CASE HandleNext
  BY <1>7, <1>9 DEF HandleNext, writer
<1>10. CASE UNCHANGED vars
  BY <1>7, <1>10 DEF vars
<1> QED BY <1>1, <1>2, <1>3, <1>4, <1>5, <1>6, <1>8, <1>9, <1>10 DEF Next

\* Two async_write calls at most are in progress on a connection, however
\* connections are lost, made again and cancelled.
THEOREM AtMostTwoWrites == Spec => []TwoWrites
<1>1. Init => Few
  <2> SUFFICES ASSUME Init PROVE Few
    OBVIOUS
  <2>1. posted = <<>> /\ writing = <<>> /\ link = "down"
    BY DEF Init
  <2>2. ToSet(posted) = {} /\ Len(writing) = 0
    BY <2>1, EmptySet, EmptySeq
  <2>3. DOMAIN posted = {}
    BY <2>2 DEF ToSet
  <2> QED BY <2>1, <2>2, <2>3 DEF Few, Once
<1>2. Typed /\ Few /\ [Next]_vars => Few'
  BY StepFew
<1>3. Typed /\ Few => TwoWrites
  <2> SUFFICES ASSUME Typed, Few PROVE TwoWrites
    OBVIOUS
  <2> DEFINE here == {i \in DOMAIN writing : writing[i][2] = session}
             N == Len(writing)
  <2>1. DOMAIN writing = 1 .. N /\ N \in Nat
    BY LenProperties DEF Typed
  <2>2. here \subseteq 1 .. N
    BY <2>1
  <2>3. N <= 2
    BY DEF Few
  <2> HIDE DEF N
  <2>4. IsFiniteSet(1 .. N) /\ Cardinality(1 .. N) = N
    BY <2>1, FS_Interval
  <2> HIDE DEF here
  <2>5. Cardinality(here) <= N /\ Cardinality(here) \in Nat
    BY <2>2, <2>4, FS_Subset, FS_CardinalityType
  <2>6. Cardinality(here) <= 2
    BY <2>1, <2>3, <2>5
  <2> QED BY <2>6 DEF TwoWrites, here
<1> QED BY <1>1, <1>2, <1>3, AlwaysFramed, PTL DEF Spec

-----------------------------------------------------------------------------
(***************************************************************************)
(* Messages are written in the order in which they were sent.              *)
(***************************************************************************)

\* The messages in q come in order, strand_proceed aside.
Rising(q) ==
    \A i \in DOMAIN q, j \in DOMAIN q :
       i <= j /\ q[i] # Proceed /\ q[j] # Proceed => q[i] <= q[j]

\* With q in the queue, p posted and l written, none is behind one written on any
\* session, and those posted come after those in the queue.
Fine(q, p, l) ==
    /\ Rising(q) /\ Rising(p)
    /\ \A x \in ToSet(q), y \in ToSet(p) : y # Proceed => x <= y
    /\ \A s \in Session, x \in ToSet(q) \cup ToSet(p) : x # Proceed => l[s] <= x

Ordered ==
    /\ Fine(queue, posted, last)
    /\ \A s \in Session : last[s] <= sent

LEMMA RisingTail ==
  ASSUME NEW T, T \subseteq Nat, NEW q \in Seq(T), q # <<>>, Rising(q)
  PROVE  /\ Rising(Tail(q))
         /\ \A x \in ToSet(q) : Head(q) # Proceed /\ x # Proceed => Head(q) <= x
<1> DEFINE t == Tail(q)
<1>1. Len(q) \in Nat /\ DOMAIN q = 1 .. Len(q) /\ Len(q) # 0
  BY LenProperties, EmptySeq
<1>2. /\ t \in Seq(T) /\ Len(t) = Len(q) - 1
      /\ \A i \in 1 .. Len(t) : t[i] = q[i + 1]
  BY HeadTailProperties
<1>3. DOMAIN t = 1 .. Len(q) - 1
  BY <1>2, LenProperties
<1>4. Head(q) = q[1] /\ 1 \in 1 .. Len(q)
  BY <1>1
<1>5. \A i \in 1 .. Len(q) - 1 : i + 1 \in 1 .. Len(q) /\ i \in Nat
  BY <1>1
<1> HIDE DEF t
<1>6. ASSUME NEW i \in DOMAIN t, NEW j \in DOMAIN t, i <= j, t[i] # Proceed, t[j] # Proceed
      PROVE  t[i] <= t[j]
  <2>1. /\ i + 1 \in DOMAIN q /\ j + 1 \in DOMAIN q
        /\ q[i + 1] = t[i] /\ q[j + 1] = t[j]
    BY <1>1, <1>2, <1>3, <1>5
  <2>2. i + 1 <= j + 1
    BY <1>3, <1>5, <1>6
  <2> QED BY <1>6, <2>1, <2>2 DEF Rising
<1>7. ASSUME NEW x \in ToSet(q), Head(q) # Proceed, x # Proceed
      PROVE  Head(q) <= x
  <2>1. PICK i \in DOMAIN q : x = q[i]
    BY DEF ToSet
  <2>2. 1 \in DOMAIN q /\ 1 <= i
    BY <1>1, <1>4
  <2>3. q[1] <= q[i]
    BY <1>4, <1>7, <2>1, <2>2 DEF Rising
  <2> QED BY <1>4, <2>1, <2>3
<1>8. Rising(t)
  BY <1>6 DEF Rising
<1> QED BY <1>7, <1>8 DEF t

LEMMA RisingAppend ==
  ASSUME NEW T, T \subseteq Nat, NEW q \in Seq(T), NEW x \in T, Rising(q),
         \A y \in ToSet(q) : x # Proceed /\ y # Proceed => y <= x
  PROVE  Rising(Append(q, x))
<1> DEFINE a == Append(q, x)
<1>1. Len(q) \in Nat /\ DOMAIN q = 1 .. Len(q)
  BY LenProperties
<1>2. /\ a \in Seq(T) /\ Len(a) = Len(q) + 1
      /\ \A i \in 1 .. Len(q) : a[i] = q[i]
      /\ a[Len(q) + 1] = x
  BY AppendProperties
<1>3. DOMAIN a = 1 .. Len(q) + 1
  BY <1>2, LenProperties
<1> HIDE DEF a
<1>4. \A i \in DOMAIN a : i \in DOMAIN q \/ i = Len(q) + 1
  BY <1>1, <1>3
<1>5. \A i \in DOMAIN q : q[i] \in ToSet(q) /\ i \in Nat /\ i <= Len(q)
  BY <1>1 DEF ToSet
<1>6. ASSUME NEW i \in DOMAIN a, NEW j \in DOMAIN a, i <= j, a[i] # Proceed, a[j] # Proceed
      PROVE  a[i] <= a[j]
  <2>1. CASE i \in DOMAIN q /\ j \in DOMAIN q
    <3>1. a[i] = q[i] /\ a[j] = q[j]
      BY <1>1, <1>2, <2>1
    <3> QED BY <1>6, <2>1, <3>1 DEF Rising
  <2>2. CASE i \in DOMAIN q /\ j \notin DOMAIN q
    <3>1. a[i] = q[i] /\ a[j] = x
      BY <1>1, <1>2, <1>4, <2>2
    <3> QED BY <1>5, <1>6, <2>2, <3>1
  <2>3. CASE i = Len(q) + 1
    <3>1. j = Len(q) + 1
      BY <1>1, <1>3, <1>6, <2>3
    <3>2. x <= x
      OBVIOUS
    <3> QED BY <1>2, <2>3, <3>1, <3>2
  <2> QED BY <1>4, <2>1, <2>2, <2>3
<1>7. Rising(a)
  BY <1>6 DEF Rising
<1> QED BY <1>7 DEF a

\* A function leaves the strand; the message of strand_write joins the queue.
LEMMA FineTakes ==
  ASSUME Typed, NEW q \in Seq(Sent), NEW p \in Seq(Sent \cup {Proceed}), p # <<>>,
         NEW l, Fine(q, p, l)
  PROVE  /\ Fine(q, Tail(p), l)
         /\ Head(p) # Proceed => Fine(Append(q, Head(p)), Tail(p), l)
<1> DEFINE n == Head(p)
           t == Tail(p)
           T == Sent \cup {Proceed}
<1>1. T \subseteq Nat /\ Sent \subseteq Nat /\ Sent \subseteq T
  BY DEF Sent, Typed, Proceed
<1>2. p \in Seq(T) /\ n \in T /\ t \in Seq(T) /\ ToSet(p) = ToSet(t) \cup {n}
  BY HeadTailProperties, TailSet
<1> HIDE DEF T
<1>3. Rising(t) /\ \A x \in ToSet(p) : n # Proceed /\ x # Proceed => n <= x
  BY <1>1, <1>2, RisingTail DEF Fine
<1> HIDE DEF n, t
<1>4. Fine(q, t, l)
  BY <1>2, <1>3 DEF Fine
<1>5. ASSUME n # Proceed
      PROVE  Fine(Append(q, n), t, l)
  <2>1. n \in Sent
    BY <1>2, <1>5 DEF T
  <2>2. ToSet(Append(q, n)) = ToSet(q) \cup {n}
    BY <2>1, AppendSet
  <2>3. Rising(Append(q, n))
    <3>1. \A y \in ToSet(q) : y <= n
      BY <1>2, <1>5 DEF Fine
    <3>2. Rising(q)
      BY DEF Fine
    <3> QED BY <1>1, <2>1, <3>1, <3>2, RisingAppend
  <2> QED BY <1>2, <1>3, <1>5, <2>2, <2>3 DEF Fine
<1> QED BY <1>4, <1>5 DEF n, t

\* The head leaves the queue, or all of it does.
LEMMA FineLeaves ==
  ASSUME Typed, NEW q \in Seq(Sent), NEW p, NEW l, Fine(q, p, l)
  PROVE  Fine(<<>>, p, l) /\ (q # <<>> => Fine(Tail(q), p, l))
<1>1. Sent \subseteq Nat
  BY DEF Sent, Typed
<1>2. Fine(<<>>, p, l)
  <2>1. ToSet(<<>>) = {}
    BY EmptySet
  <2>2. Rising(<<>>)
    BY <2>1 DEF Rising, ToSet
  <2> QED BY <2>1, <2>2 DEF Fine
<1>3. ASSUME q # <<>>
      PROVE  Fine(Tail(q), p, l)
  <2>1. ToSet(q) = ToSet(Tail(q)) \cup {Head(q)}
    BY <1>3, TailSet
  <2>2. Rising(Tail(q))
    BY <1>1, <1>3, RisingTail DEF Fine
  <2> QED BY <2>1, <2>2 DEF Fine
<1> QED BY <1>2, <1>3

\* The head of the queue is written on session s.
LEMMA FineWrites ==
  ASSUME Typed, NEW q \in Seq(Sent), q # <<>>, NEW p \in Seq(Sent \cup {Proceed}),
         NEW l \in [Session -> Nat], Fine(q, p, l), NEW s \in Session
  PROVE  l[s] <= Head(q) /\ Fine(q, p, [l EXCEPT ![s] = Head(q)])
<1> DEFINE n == Head(q)
           k == [l EXCEPT ![s] = n]
<1>1. Sent \subseteq Nat /\ Proceed \notin Sent
  BY DEF Sent, Typed, Proceed
<1>2. ToSet(q) = ToSet(Tail(q)) \cup {n} /\ n \in Sent
  BY TailSet, HeadTailProperties
<1>3. \A x \in ToSet(q) : n # Proceed /\ x # Proceed => n <= x
  BY <1>1, RisingTail DEF Fine
<1> HIDE DEF n
<1>4. l[s] <= n
  BY <1>1, <1>2 DEF Fine
<1>5. ASSUME NEW r \in Session, NEW x \in ToSet(q) \cup ToSet(p), x # Proceed
      PROVE  k[r] <= x
  <2>1. k[r] = IF r = s THEN n ELSE l[r]
    OBVIOUS
  <2>2. l[r] <= x
    BY <1>5 DEF Fine
  <2>3. n <= x
    BY <1>1, <1>2, <1>3, <1>5 DEF Fine
  <2> QED BY <2>1, <2>2, <2>3
<1> HIDE DEF k
<1>6. Fine(q, p, k)
  BY <1>5 DEF Fine
<1> QED BY <1>4, <1>6 DEF n, k

\* Something is posted that is strand_proceed or comes after all the others.
LEMMA FinePosts ==
  ASSUME NEW T, T \subseteq Nat, NEW q, NEW p \in Seq(T), NEW x \in T, NEW l,
         Fine(q, p, l),
         x = Proceed \/ \A y \in ToSet(q) \cup ToSet(p) : y <= x,
         x = Proceed \/ \A s \in Session : l[s] <= x
  PROVE  Fine(q, Append(p, x), l)
<1>1. ToSet(Append(p, x)) = ToSet(p) \cup {x}
  BY AppendSet
<1>2. Rising(Append(p, x))
  <2>1. Rising(p)
    BY DEF Fine
  <2>2. \A y \in ToSet(p) : x # Proceed /\ y # Proceed => y <= x
    OBVIOUS
  <2> QED BY <2>1, <2>2, RisingAppend
<1> QED BY <1>1, <1>2 DEF Fine

\* What a step of the strand or a completion does: what is left is in order, and
\* what is written is the head of the queue.
Orderly ==
    /\ Fine(queue', posted', last)
    /\ UNCHANGED <<wire, last>> \/ (queue' # <<>> /\ Puts(Head(queue')))

LEMMA StartsOrderly ==
  ASSUME Typed, NEW q \in Seq(Sent), q # <<>>, Fine(q, posted', last), NEW pending,
         Starts(q, pending) \/ Drains(pending)
  PROVE  Orderly
<1>1. CASE Starts(q, pending)
  BY <1>1 DEF Orderly, Starts
<1>2. CASE Drains(pending)
  <2> PICK p : p = posted'
    OBVIOUS
  <2>1. Fine(<<>>, p, last)
    BY FineLeaves
  <2> QED BY <1>2, <2>1 DEF Orderly, Drains
<1> QED BY <1>1, <1>2

LEMMA RunPostedOrderly ==
  ASSUME Typed, Ordered, RunPosted
  PROVE  Orderly
<1>1. posted # <<>> /\ posted' = Tail(posted)
  BY RunPostedCases
<1>2. queue \in Seq(Sent) /\ posted \in Seq(Sent \cup {Proceed})
  BY DEF Typed
<1>3. Fine(queue, posted, last)
  BY DEF Ordered
<1>4. /\ Fine(queue, posted', last)
      /\ Head(posted) # Proceed => Fine(Append(queue, Head(posted)), posted', last)
  BY <1>1, <1>2, <1>3, FineTakes
<1>5. CASE Head(posted) = Proceed /\ queue = <<>>
  BY <1>4, <1>5, RunPostedCases DEF Orderly
<1>6. CASE Head(posted) = Proceed /\ queue # <<>>
  BY <1>2, <1>4, <1>6, RunPostedCases, StartsOrderly
<1>7. CASE Head(posted) # Proceed /\ queue # <<>>
  BY <1>4, <1>7, RunPostedCases DEF Orderly
<1>8. CASE Head(posted) # Proceed /\ queue = <<>>
  <2> DEFINE q == <<Head(posted)>>
  <2>1. Starts(q, writing) \/ Drains(writing)
    BY <1>8, RunPostedCases
  <2>2. q \in Seq(Sent) /\ q # <<>>
    BY <1>1, <1>8, PostedHead
  <2>3. Append(queue, Head(posted)) = q
    BY <1>8
  <2>4. Fine(q, posted', last)
    BY <1>4, <1>8, <2>3
  <2> HIDE DEF q
  <2> QED BY <2>1, <2>2, <2>4, StartsOrderly
<1> QED BY <1>5, <1>6, <1>7, <1>8

LEMMA HandleWriteOrderly ==
  ASSUME Typed, Ordered, NEW ok \in BOOLEAN, HandleWrite(ok)
  PROVE  Orderly
<1>1. posted' = posted
  BY HandleWriteCases
<1>2. queue \in Seq(Sent)
  BY DEF Typed
<1>3. Fine(queue, posted', last)
  BY <1>1 DEF Ordered
<1>4. Fine(<<>>, posted', last) /\ (queue # <<>> => Fine(Tail(queue), posted', last))
  <2> PICK p : p = posted'
    OBVIOUS
  <2> QED BY <1>2, <1>3, FineLeaves
<1>5. CASE /\ queue' = queue \/ queue' = <<>> \/ (queue # <<>> /\ queue' = Tail(queue))
           /\ UNCHANGED <<wire, last>>
  BY <1>3, <1>4, <1>5 DEF Orderly
<1>6. CASE /\ Len(queue) > 1
           /\ Starts(Tail(queue), Tail(writing)) \/ Drains(Tail(writing))
  <2>1. Tail(queue) \in Seq(Sent) /\ Tail(queue) # <<>> /\ queue # <<>>
    BY <1>6, TailLeft, EmptySeq
  <2> DEFINE q == Tail(queue)
             rest == Tail(writing)
  <2> HIDE DEF q, rest
  <2>2. /\ q \in Seq(Sent) /\ q # <<>> /\ Fine(q, posted', last)
        /\ Starts(q, rest) \/ Drains(rest)
    BY <1>4, <1>6, <2>1 DEF q, rest
  <2> QED BY <2>2, StartsOrderly
<1> QED BY <1>5, <1>6, HandleWriteCases

LEMMA OrderlyOrdered ==
  ASSUME Typed, Typed', Ordered, Orderly, UNCHANGED sent
  PROVE  /\ Ordered'
         /\ ~ UNCHANGED <<wire, last>> =>
               \E n \in Sent : Puts(n) /\ last[session] <= n
<1> PICK q : q = queue'
  OBVIOUS
<1> PICK p : p = posted'
  OBVIOUS
<1>1. q \in Seq(Sent) /\ p \in Seq(Sent \cup {Proceed}) /\ Fine(q, p, last)
  BY DEF Typed, Orderly, Sent
<1>2. last \in [Session -> Nat]
  BY ScriptLength DEF Typed
<1>3. \A s \in Session : last[s] <= sent
  BY DEF Ordered
<1>4. CASE UNCHANGED <<wire, last>>
  BY <1>1, <1>3, <1>4 DEF Ordered
<1>5. CASE q # <<>> /\ Puts(Head(q))
  <2> DEFINE n == Head(q)
  <2>1. n \in Sent
    BY <1>1, <1>5, HeadTailProperties
  <2>2. session \in Session /\ last' = [last EXCEPT ![session] = n]
    BY <1>5 DEF Puts
  <2>3. last[session] <= n /\ Fine(q, p, last')
    BY <1>1, <1>2, <1>5, <2>2, FineWrites
  <2> HIDE DEF n
  <2>4. n <= sent
    BY <2>1 DEF Sent, Typed
  <2>5. \A s \in Session : last'[s] <= sent'
    BY <1>2, <1>3, <2>2, <2>4
  <2>6. Puts(n)
    BY <1>5 DEF n
  <2> QED BY <2>1, <2>3, <2>5, <2>6 DEF Ordered
<1> QED BY <1>4, <1>5 DEF Orderly

LEMMA PostOrdered ==
  ASSUME Typed, Typed', Ordered, Post
  PROVE  Ordered'
<1>1. /\ sent' = sent + 1 /\ sent \in Nat /\ UNCHANGED <<queue, last>>
      /\ posted' = IF link = "down" THEN posted ELSE Append(posted, sent')
  BY DEF Post, Typed
<1>2. \A s \in Session : last[s] \in Nat /\ last[s] <= sent
  BY ScriptLength DEF Ordered, Typed
<1>3. \A s \in Session : last[s] <= sent'
  BY <1>1, <1>2
<1>4. Fine(queue, posted, last)
  BY DEF Ordered
<1>5. CASE posted' = Append(posted, sent')
  <2>1. posted \in Seq(Nat) /\ sent' \in Nat
    <3> DEFINE S == Sent \cup {Proceed}
    <3>1. S \subseteq Nat /\ posted \in Seq(S)
      BY DEF Typed, Sent, Proceed
    <3> HIDE DEF S
    <3>2. posted \in Seq(Nat)
      BY <3>1, SeqMonotonic
    <3>3. sent' \in Nat
      BY <1>1
    <3> QED BY <3>2, <3>3
  <2>2. \A y \in ToSet(queue) \cup ToSet(posted) : y <= sent'
    <3>1. queue \in Seq(Sent) /\ posted \in Seq(Sent \cup {Proceed})
      BY DEF Typed
    <3>2. ToSet(queue) \subseteq Sent /\ ToSet(posted) \subseteq Sent \cup {Proceed}
      BY <3>1, LenProperties DEF ToSet
    <3>3. \A y \in Sent \cup {Proceed} : y <= sent'
      BY <1>1 DEF Sent, Proceed
    <3> QED BY <3>2, <3>3
  <2> DEFINE x == sent'
  <2>3. x \in Nat
    BY <2>1
  <2> HIDE DEF x
  <2>4. Fine(queue, Append(posted, x), last)
    <3>1. \A y \in ToSet(queue) \cup ToSet(posted) : y <= x
      BY <2>2 DEF x
    <3>2. \A s \in Session : last[s] <= x
      BY <1>3 DEF x
    <3> QED BY <1>4, <2>1, <2>3, <3>1, <3>2, FinePosts
  <2> QED BY <1>1, <1>3, <1>5, <2>4 DEF Ordered, x
<1>6. CASE posted' = posted
  BY <1>1, <1>3, <1>4, <1>6 DEF Ordered
<1> QED BY <1>1, <1>5, <1>6

LEMMA ConnectedOrdered ==
  ASSUME Typed, Ordered, Connected
  PROVE  Ordered'
<1>1. posted' = Append(posted, Proceed) /\ UNCHANGED <<sent, queue, last>>
  BY DEF Connected
<1>2. posted \in Seq(Nat) /\ Proceed \in Nat
  <2>1. Sent \cup {Proceed} \subseteq Nat
    BY DEF Typed, Sent, Proceed
  <2> QED BY <2>1, SeqMonotonic DEF Typed
<1>3. Fine(queue, Append(posted, Proceed), last)
  BY <1>2, FinePosts DEF Ordered
<1> QED BY <1>1, <1>3 DEF Ordered

LEMMA StepOrdered ==
  ASSUME Typed, Typed', Ordered, [Next]_vars
  PROVE  Ordered'
<1>1. CASE Post
  BY <1>1, PostOrdered
<1>2. CASE RunPosted
  BY <1>2, RunPostedOrderly, OrderlyOrdered, RunPostedCases
<1>3. ASSUME NEW ok \in BOOLEAN, HandleWrite(ok)
      PROVE  Ordered'
  BY <1>3, HandleWriteOrderly, OrderlyOrdered, HandleWriteCases
<1>4. CASE Connected
  BY <1>4, ConnectedOrdered
<1>5. CASE UNCHANGED <<sent, posted, queue, last>>
  BY <1>5 DEF Ordered
<1>6. CASE Connect \/ NotConnected
  BY <1>5, <1>6 DEF Connect, NotConnected
<1>7. ASSUME NEW s \in Session, Break(s) \/ Read(s)
      PROVE  Ordered'
  BY <1>5, <1>7 DEF Break, Read, writer
<1>8. CASE HandleNext
  BY <1>5, <1>8 DEF HandleNext, writer
<1>9. CASE UNCHANGED vars
  BY <1>5, <1>9 DEF vars
<1> QED BY <1>1, <1>2, <1>3, <1>4, <1>6, <1>7, <1>8, <1>9 DEF Next

LEMMA InitOrdered == Init => Ordered
<1> SUFFICES ASSUME Init PROVE Ordered
  OBVIOUS
<1>1. /\ sent = 0 /\ posted = <<>> /\ queue = <<>>
      /\ last = [s \in Session |-> 0]
  BY DEF Init
<1>2. ToSet(<<>>) = {} /\ Rising(<<>>)
  BY EmptySet DEF Rising, ToSet
<1> QED BY <1>1, <1>2 DEF Ordered, Fine

-----------------------------------------------------------------------------
(***************************************************************************)
(* The link is a channel.                                                  *)
(***************************************************************************)

\* Half of the tokens end a message.
LEMMA Halves ==
  \A k \in Nat : /\ k \div 2 \in Nat
                 /\ \A i \in 1 .. k \div 2 : i \in Nat \ {0} /\ 2 * i \in 1 .. k
                 /\ (k + 2) \div 2 = k \div 2 + 1
                 /\ k % 2 = 0 => 2 * (k \div 2) = k
                 /\ \A m \in Nat : m <= k => m \div 2 <= k \div 2
OBVIOUS

LEMMA CompleteTyped ==
  ASSUME NEW q \in Seq(Token)
  PROVE  /\ Len(q) \in Nat /\ Len(q) \div 2 \in Nat
         /\ Complete(q) \in Seq(Sent) /\ Len(Complete(q)) = Len(q) \div 2
         /\ \A i \in 1 .. Len(q) \div 2 : Complete(q)[i] = q[2 * i][1]
<1> DEFINE h == Len(q) \div 2
<1>1. Len(q) \in Nat
  BY LenProperties
<1>2. h \in Nat /\ \A i \in 1 .. h : 2 * i \in 1 .. Len(q)
  BY <1>1, Halves
<1>3. \A t \in Token : t[1] \in Sent
  BY TokenParts DEF Token
<1>4. \A i \in 1 .. h : q[2 * i][1] \in Sent
  BY <1>2, <1>3, ElementOfSeq
<1>5. Complete(q) = [i \in 1 .. h |-> q[2 * i][1]]
  BY DEF Complete
<1> HIDE DEF h
<1>6. Complete(q) \in [1 .. h -> Sent] /\ DOMAIN Complete(q) = 1 .. h
  BY <1>4, <1>5
<1>7. Complete(q) \in Seq(Sent) /\ Len(Complete(q)) = h
  BY <1>2, <1>6
<1>8. \A i \in 1 .. h : Complete(q)[i] = q[2 * i][1]
  BY <1>5
<1> QED BY <1>1, <1>2, <1>7, <1>8 DEF h

LEMMA CompleteAdded ==
  ASSUME NEW p \in Seq(Token), NEW q \in Seq(Token), NEW n \in Sent,
         Added(p, q, n), Len(q) % 2 = 0
  PROVE  Complete(p) = Append(Complete(q), n)
<1> DEFINE h == Len(q) \div 2
           c == Complete(q)
           d == Complete(p)
           a == Append(c, n)
<1>1. /\ Len(q) \in Nat /\ h \in Nat /\ c \in Seq(Sent) /\ Len(c) = h
      /\ \A i \in 1 .. h : c[i] = q[2 * i][1]
  BY CompleteTyped
<1>2. /\ d \in Seq(Sent) /\ Len(d) = Len(p) \div 2
      /\ \A i \in 1 .. Len(p) \div 2 : d[i] = p[2 * i][1]
  BY CompleteTyped
<1>3. Len(p) \div 2 = h + 1
  BY <1>1, Halves DEF Added
<1>4. /\ 2 * h = Len(q)
      /\ \A i \in 1 .. h : 2 * i \in 1 .. Len(q)
  BY <1>1, Halves
<1> HIDE DEF h, c, d
<1>5. /\ a \in Seq(Sent) /\ Len(a) = h + 1
      /\ \A i \in 1 .. h : a[i] = c[i]
      /\ a[h + 1] = n
  BY <1>1, AppendProperties
<1> HIDE DEF a
<1>6. \A i \in 1 .. h : p[2 * i] = q[2 * i]
  BY <1>4 DEF Added
<1>7. p[2 * (h + 1)][1] = n
  <2>1. 2 * (h + 1) = Len(q) + 2
    <3>1. \A x \in Nat : 2 * (x + 1) = 2 * x + 2
      OBVIOUS
    <3> QED BY <1>1, <1>4, <3>1
  <2> QED BY <2>1, TokenParts DEF Added
<1>8. \A i \in 1 .. h + 1 : d[i] = a[i]
  <2> SUFFICES ASSUME NEW i \in 1 .. h + 1 PROVE d[i] = a[i]
    OBVIOUS
  <2>1. d[i] = p[2 * i][1]
    BY <1>2, <1>3
  <2>2. CASE i \in 1 .. h
    BY <1>1, <1>5, <1>6, <2>1, <2>2
  <2>3. CASE i = h + 1
    BY <1>5, <1>7, <2>1, <2>3
  <2>4. i \in 1 .. h \/ i = h + 1
    BY <1>1
  <2> QED BY <2>2, <2>3, <2>4
<1>9. Len(d) = Len(a)
  BY <1>2, <1>3, <1>5
<1>10. d = a
  BY <1>2, <1>3, <1>5, <1>8, <1>9, SeqEqual
<1> QED BY <1>10 DEF d, a, c

LEMMA CompleteCut ==
  ASSUME NEW p \in Seq(Token), NEW q \in Seq(Token), Cut(p, q)
  PROVE  /\ Len(p) \div 2 \in 0 .. Len(Complete(q))
         /\ Complete(p) = SubSeq(Complete(q), 1, Len(p) \div 2)
<1> DEFINE h == Len(q) \div 2
           k == Len(p) \div 2
           c == Complete(q)
           d == Complete(p)
           e == SubSeq(c, 1, k)
<1>1. /\ Len(q) \in Nat /\ h \in Nat /\ c \in Seq(Sent) /\ Len(c) = h
      /\ \A i \in 1 .. h : c[i] = q[2 * i][1]
  BY CompleteTyped
<1>2. /\ Len(p) \in Nat /\ k \in Nat /\ d \in Seq(Sent) /\ Len(d) = k
      /\ \A i \in 1 .. k : d[i] = p[2 * i][1]
  BY CompleteTyped
<1>3. k <= h /\ \A i \in 1 .. k : 2 * i \in 1 .. Len(p)
  BY <1>1, <1>2, Halves DEF Cut
<1> HIDE DEF h, k, c, d
<1>4. k \in 0 .. Len(c) /\ \A i \in 1 .. k : i \in 1 .. h
  BY <1>1, <1>2, <1>3
<1>5. e \in Seq(Sent) /\ Len(e) = k /\ \A i \in 1 .. k : e[i] = c[i]
  BY <1>1, <1>4, FirstOnes
<1> HIDE DEF e
<1>6. \A i \in 1 .. k : p[2 * i] = q[2 * i]
  BY <1>3 DEF Cut
<1>7. \A i \in 1 .. k : d[i] = e[i]
  BY <1>1, <1>2, <1>4, <1>5, <1>6
<1>8. d = e
  BY <1>2, <1>5, <1>7, SeqEqual
<1> QED BY <1>4, <1>8 DEF c, d, e, k

LEMMA CompleteDropped ==
  ASSUME NEW p \in Seq(Token), NEW q \in Seq(Token), Dropped(p, q), Paired(q)
  PROVE  /\ Complete(q) # <<>> /\ Complete(p) = Tail(Complete(q))
         /\ Head(Complete(q)) = q[1][1]
<1> DEFINE h == Len(q) \div 2
           k == Len(p) \div 2
           c == Complete(q)
           d == Complete(p)
           t == Tail(c)
<1>1. /\ Len(q) \in Nat /\ h \in Nat /\ c \in Seq(Sent) /\ Len(c) = h
      /\ \A i \in 1 .. h : c[i] = q[2 * i][1]
  BY CompleteTyped
<1>2. /\ Len(p) \in Nat /\ k \in Nat /\ d \in Seq(Sent) /\ Len(d) = k
      /\ \A i \in 1 .. k : d[i] = p[2 * i][1]
  BY CompleteTyped
<1>3. h = k + 1 /\ \A i \in 1 .. k : 2 * i \in 1 .. Len(p)
  BY <1>2, Halves DEF Dropped
<1>4. Len(q) = Len(p) + 2
  BY DEF Dropped
<1> HIDE DEF h, k, c, d
<1>5. c # <<>>
  <2>1. Len(c) # 0
    BY <1>1, <1>2, <1>3
  <2> QED BY <2>1, EmptySeq
<1>6. t \in Seq(Sent) /\ Len(t) = k /\ \A i \in 1 .. k : t[i] = c[i + 1]
  <2>1. t \in Seq(Sent) /\ Len(t) = Len(c) - 1 /\ \A i \in 1 .. Len(t) : t[i] = c[i + 1]
    BY <1>1, <1>5, HeadTailProperties
  <2>2. Len(t) = k
    BY <1>1, <1>2, <1>3, <2>1
  <2> QED BY <2>1, <2>2
<1> HIDE DEF t
<1>7. \A i \in 1 .. k : d[i] = t[i]
  <2> SUFFICES ASSUME NEW i \in 1 .. k PROVE d[i] = t[i]
    OBVIOUS
  <2>1. p[2 * i] = q[2 * i + 2]
    BY <1>3 DEF Dropped
  <2>2. i + 1 \in 1 .. h /\ 2 * (i + 1) = 2 * i + 2
    BY <1>2, <1>3
  <2>3. c[i + 1] = q[2 * (i + 1)][1]
    BY <1>1, <2>2
  <2> QED BY <1>2, <1>6, <2>1, <2>2, <2>3
<1>8. d = t
  BY <1>2, <1>6, <1>7, SeqEqual
<1>9. Head(c) = q[1][1]
  <2>1. Head(c) = c[1]
    BY <1>1, <1>5
  <2>2. 1 \in 1 .. h /\ 2 * 1 = 2
    BY <1>2, <1>3
  <2>3. c[1] = q[2][1]
    BY <1>1, <2>2
  <2>4. q[1][1] = q[2][1]
    <3>1. 1 \in 1 .. Len(q) /\ 1 + 1 <= Len(q) /\ 1 % 2 = 1 /\ 1 + 1 = 2
      BY <1>2, <1>4
    <3>2. q[1][1] = q[1 + 1][1]
      BY <3>1 DEF Paired
    <3> QED BY <3>1, <3>2
  <2> QED BY <2>1, <2>3, <2>4
<1> QED BY <1>5, <1>8, <1>9 DEF c, d, t

\* The messages on their way.
Cargo == [s \in Session |-> Complete(Stream(s))]

LEMMA CargoChanges ==
  ASSUME NEW s \in Session, \A r \in Session : r # s => Stream(r)' = Stream(r),
         NEW c, Complete(Stream(s)') = c
  PROVE  Cargo' = [Cargo EXCEPT ![s] = c]
<1>1. \A r \in Session : Cargo'[r] = Complete(Stream(r)') /\ Cargo[r] = Complete(Stream(r))
  BY DEF Cargo, Complete
<1>2. Cargo' = [r \in Session |-> Complete(Stream(r)')]
  BY DEF Cargo, Complete
<1>3. [Cargo EXCEPT ![s] = c] = [r \in Session |-> IF r = s THEN c ELSE Cargo[r]]
  BY DEF Cargo
<1>4. \A r \in Session : r # s => Complete(Stream(r)') = Cargo[r]
  BY <1>1
<1> HIDE DEF Cargo
<1> QED BY <1>2, <1>3, <1>4

LEMMA CargoSame ==
  ASSUME \A r \in Session : Stream(r)' = Stream(r)
  PROVE  Cargo' = Cargo
BY DEF Cargo, Complete

\* The actions of Channel over Cargo.
LEMMA CargoActions ==
  ASSUME NEW s \in Session
  PROVE  /\ Abstract!Send(s) <=>
              /\ s \notin broken
              /\ \E n \in DOMAIN Script :
                   /\ n >= last[s]
                   /\ Cargo' = [Cargo EXCEPT ![s] = Append(@, n)]
                   /\ last' = [last EXCEPT ![s] = n]
              /\ UNCHANGED <<broken, passed, handled>>
         /\ Abstract!Break(s) <=>
              /\ s \notin broken
              /\ broken' = broken \cup {s}
              /\ \E k \in 0 .. Len(Cargo[s]) :
                   Cargo' = [Cargo EXCEPT ![s] = SubSeq(@, 1, k)]
              /\ UNCHANGED <<last, passed, handled>>
         /\ Abstract!Receive(s) <=>
              /\ Cargo[s] # <<>>
              /\ Key(Head(Cargo[s])) \notin passed[s]
              /\ passed' = [passed EXCEPT ![s] = @ \cup {Key(Head(Cargo[s]))}]
              /\ handled' = Append(handled, Head(Cargo[s]))
              /\ Cargo' = [Cargo EXCEPT ![s] = Tail(@)]
              /\ UNCHANGED <<last, broken>>
         /\ Abstract!Omit(s) <=>
              /\ Cargo[s] # <<>>
              /\ Len(Cargo[s]) > 1 \/ s \in broken
              /\ Key(Head(Cargo[s])) \in passed[s]
              /\ Cargo' = [Cargo EXCEPT ![s] = Tail(@)]
              /\ UNCHANGED <<last, broken, passed, handled>>
         /\ Abstract!Forget(s) <=>
              /\ passed' = [passed EXCEPT ![s] = {}]
              /\ UNCHANGED <<Cargo, last, broken, handled>>
<1>1. Cargo = [r \in Session |-> Complete(buffer[r] \o wire[r])]
  BY DEF Cargo, Stream
<1>2. Cargo' = [r \in Session |-> Complete(buffer'[r] \o wire'[r])]
  BY DEF Cargo, Stream, Complete
<1> QED BY <1>1, <1>2 DEF Abstract!Send, Abstract!Break, Abstract!Receive, Abstract!Omit,
           Abstract!Forget, Cargo, Stream

\* A step that Channel does not see.
Unseen == UNCHANGED <<last, broken, passed, handled>>

LEMMA StuttersMap ==
  ASSUME Unseen, \A r \in Session : Stream(r)' = Stream(r)
  PROVE  UNCHANGED Abstract!vars
<1>1. Cargo' = Cargo
  BY CargoSame
<1> QED BY <1>1 DEF Abstract!vars, Unseen, Cargo, Stream, Complete

LEMMA StreamTyped ==
  ASSUME Typed', UNCHANGED sent, NEW s \in Session
  PROVE  Stream(s)' \in Seq(Token)
<1>1. Token' = Token
  BY DEF Token, Sent
<1>2. buffer' \in [Session -> Seq(Token)] /\ wire' \in [Session -> Seq(Token)]
  BY <1>1 DEF Typed
<1>3. buffer'[s] \in Seq(Token) /\ wire'[s] \in Seq(Token)
  BY <1>2
<1>4. \A b \in Seq(Token), w \in Seq(Token) : b \o w \in Seq(Token)
  BY ConcatProperties
<1> QED BY <1>3, <1>4 DEF Stream

\* What is written is sent ...
LEMMA PutsMap ==
  ASSUME Typed, Typed', Framed, NEW n \in Sent, Puts(n), last[session] <= n,
         UNCHANGED <<sent, buffer, broken, passed, handled>>
  PROVE  Abstract!Send(session)
<1>1. session \in Session /\ session \notin broken /\ last' = [last EXCEPT ![session] = n]
  BY DEF Puts
<1>2. n \in DOMAIN Script
  BY ScriptLength DEF Sent, Typed
<1> PICK s \in Session : s = session
  BY <1>1
<1> DEFINE p == Stream(s)'
           q == Stream(s)
<1>3. Added(p, q, n) /\ \A r \in Session : r # s => Stream(r)' = Stream(r)
  BY PutsStream
<1>4. q \in Seq(Token)
  BY StreamParts
<1>5. p \in Seq(Token)
  BY StreamTyped
<1>6. Len(q) % 2 = 0
  BY <1>1 DEF Framed
<1>7. Cargo[s] = Complete(q)
  BY DEF Cargo
<1> HIDE DEF p, q
<1>8. Complete(p) = Append(Complete(q), n)
  BY <1>3, <1>4, <1>5, <1>6, CompleteAdded
<1>9. Cargo' = [Cargo EXCEPT ![s] = Append(Cargo[s], n)]
  <2>1. Complete(Stream(s)') = Append(Cargo[s], n)
    BY <1>7, <1>8 DEF p
  <2> HIDE DEF Cargo
  <2> QED BY <1>3, <2>1, CargoChanges
<1>10. n >= last[s]
  <2>1. n \in Nat /\ last[s] \in Nat
    BY <1>2, ScriptLength DEF Typed
  <2> QED BY <2>1
<1> QED BY <1>1, <1>2, <1>9, <1>10, CargoActions

LEMMA StrandMaps ==
  ASSUME Typed, Typed', Framed, Ordered, Orderly,
         UNCHANGED <<sent, buffer, broken, passed, handled>>
  PROVE  [Abstract!Next]_Abstract!vars
<1>1. CASE UNCHANGED <<wire, last>>
  <2>1. \A r \in Session : Stream(r)' = Stream(r)
    BY <1>1 DEF Stream
  <2> QED BY <1>1, <2>1, StuttersMap DEF Unseen
<1>2. CASE ~ UNCHANGED <<wire, last>>
  <2>1. PICK n \in Sent : Puts(n) /\ last[session] <= n
    BY <1>2, OrderlyOrdered
  <2>2. Abstract!Send(session)
    BY <2>1, PutsMap
  <2>3. session \in Session
    BY <2>1 DEF Puts
  <2> QED BY <2>2, <2>3 DEF Abstract!Next
<1> QED BY <1>1, <1>2

\* ... and a session that breaks loses a tail of its messages.
LEMMA BreakMaps ==
  ASSUME Typed, Typed', NEW s \in Session, Break(s)
  PROVE  Abstract!Break(s)
<1> DEFINE p == Stream(s)'
           q == Stream(s)
<1>1. Cut(p, q) /\ \A r \in Session : r # s => Stream(r)' = Stream(r)
  BY BreakStream
<1>2. s \notin broken /\ broken' = broken \cup {s} /\ UNCHANGED <<sent, last, passed, handled>>
  BY DEF Break, reader
<1>3. q \in Seq(Token)
  BY StreamParts
<1>4. p \in Seq(Token)
  BY <1>2, StreamTyped
<1>5. Cargo[s] = Complete(q)
  BY DEF Cargo
<1> HIDE DEF p, q
<1> DEFINE k == Len(p) \div 2
<1>6. k \in 0 .. Len(Complete(q)) /\ Complete(p) = SubSeq(Complete(q), 1, k)
  BY <1>1, <1>3, <1>4, CompleteCut
<1> HIDE DEF k
<1>7. Cargo' = [Cargo EXCEPT ![s] = SubSeq(Cargo[s], 1, k)]
  <2>1. Complete(Stream(s)') = SubSeq(Cargo[s], 1, k)
    BY <1>5, <1>6 DEF p
  <2> HIDE DEF Cargo
  <2> QED BY <1>1, <2>1, CargoChanges
<1>8. k \in 0 .. Len(Cargo[s])
  BY <1>5, <1>6
<1> QED BY <1>2, <1>7, <1>8, CargoActions

LEMMA ReadMaps ==
  ASSUME Typed, Framed, NEW s \in Session, Read(s)
  PROVE  Abstract!Forget(s)
<1>1. Alternating(Stream(s))
  BY DEF Framed
<1>2. \A r \in Session : Stream(r)' = Stream(r)
  BY <1>1, ReadStream
<1>3. passed' = [passed EXCEPT ![s] = {}] /\ UNCHANGED <<last, broken, handled>>
  BY <1>1, ReadStream DEF writer
<1>4. Cargo' = Cargo
  BY <1>2, CargoSame
<1> QED BY <1>3, <1>4, CargoActions

\* A message is handled when its key is new, and otherwise left out unless it is
\* the last of the session.
LEMMA HandleNextMaps ==
  ASSUME Typed, Typed', Framed, HandleNext
  PROVE  [Abstract!Next]_Abstract!vars
<1> PICK b : b = buffer[reading]
  OBVIOUS
<1> PICK n : n = b[1][1]
  OBVIOUS
<1>1. /\ reading \in Session /\ UNCHANGED wire
      /\ UNCHANGED <<sent, last, broken>>
  BY HandleNextCases DEF writer
<1>2. CASE UNCHANGED <<buffer, passed, handled>>
  <2>1. \A r \in Session : Stream(r)' = Stream(r)
    BY <1>1, <1>2 DEF Stream
  <2> QED BY <1>1, <1>2, <2>1, StuttersMap DEF Unseen
<1>3. CASE /\ Len(b) >= 2
           /\ buffer' = [buffer EXCEPT ![reading] = SubSeq(b, 3, Len(b))]
           /\ \/ /\ Len(b) > 2 /\ Key(n) \in passed[reading]
                 /\ UNCHANGED <<passed, handled>>
              \/ /\ Key(n) \notin passed[reading]
                 /\ passed' = [passed EXCEPT ![reading] = @ \cup {Key(n)}]
                 /\ handled' = Append(handled, n)
  <2> PICK s \in Session : s = reading
    BY <1>1
  <2> DEFINE p == Stream(s)'
             q == Stream(s)
  <2>1. /\ Dropped(p, q) /\ b[1] = q[1]
        /\ \A r \in Session : r # s => Stream(r)' = Stream(r)
    BY <1>1, <1>3, HandledStream
  <2>2. q \in Seq(Token) /\ Len(q) \in Nat
    BY StreamParts
  <2>3. p \in Seq(Token)
    BY <1>1, StreamTyped
  <2>4. Paired(q) /\ (s \notin broken => Len(q) % 2 = 0)
    BY DEF Framed
  <2>5. Cargo[s] = Complete(q)
    BY DEF Cargo
  <2>6. Len(q) >= Len(b)
    <3>1. b \in Seq(Token) /\ wire[s] \in Seq(Token) /\ q = b \o wire[s]
      BY StreamParts DEF Stream
    <3> PICK w : w = wire[s]
      OBVIOUS
    <3>2. Len(b) \in Nat /\ Len(w) \in Nat
      BY <3>1, LenProperties
    <3>3. Len(b \o w) = Len(b) + Len(w)
      BY <3>1, ConcatProperties
    <3>4. q = b \o w
      BY <3>1
    <3> HIDE DEF q
    <3>5. Len(q) = Len(b) + Len(w)
      BY <3>3, <3>4
    <3>6. \A x \in Nat, y \in Nat : x + y >= x
      OBVIOUS
    <3> QED BY <3>2, <3>5, <3>6
  <2> HIDE DEF p, q
  <2>7. Complete(q) # <<>> /\ Complete(p) = Tail(Complete(q)) /\ Head(Complete(q)) = n
    BY <2>1, <2>2, <2>3, <2>4, CompleteDropped
  <2>8. Cargo' = [Cargo EXCEPT ![s] = Tail(Cargo[s])]
    <3>1. Complete(Stream(s)') = Tail(Cargo[s])
      BY <2>5, <2>7 DEF p
    <3> HIDE DEF Cargo
    <3> QED BY <2>1, <3>1, CargoChanges
  <2>9. Cargo[s] # <<>> /\ Head(Cargo[s]) = n
    BY <2>5, <2>7
  <2>10. CASE /\ Key(n) \notin passed[s]
              /\ passed' = [passed EXCEPT ![s] = @ \cup {Key(n)}]
              /\ handled' = Append(handled, n)
    <3>1. Abstract!Receive(s)
      BY <1>1, <2>8, <2>9, <2>10, CargoActions
    <3> QED BY <3>1 DEF Abstract!Next
  <2>11. CASE /\ Len(b) > 2 /\ Key(n) \in passed[s]
              /\ UNCHANGED <<passed, handled>>
    <3>1. s \notin broken => Len(Cargo[s]) > 1
      <4>1. Len(b) \in Nat
        BY <1>1, LenProperties DEF Typed
      <4>2. \A x \in Nat : x > 2 /\ x % 2 = 0 => x \div 2 > 1
        OBVIOUS
      <4>3. Len(q) > 2
        BY <2>2, <2>6, <2>11, <4>1
      <4>4. Len(Cargo[s]) = Len(q) \div 2
        BY <2>2, <2>5, CompleteTyped
      <4> QED BY <2>2, <2>4, <4>2, <4>3, <4>4
    <3>2. Abstract!Omit(s)
      BY <1>1, <2>8, <2>9, <2>11, <3>1, CargoActions
    <3> QED BY <3>2 DEF Abstract!Next
  <2> QED BY <1>3, <2>10, <2>11
<1>4. Len(b) \in Nat
  BY <1>1, LenProperties DEF Typed
<1>5. Len(b) > 2 => Len(b) >= 2
  BY <1>4
<1> QED BY <1>2, <1>3, <1>5, HandleNextCases

LEMMA StepMaps ==
  ASSUME Typed, Typed', Framed, Ordered, [Next]_vars
  PROVE  [Abstract!Next]_Abstract!vars
<1>1. CASE RunPosted
  BY <1>1, RunPostedCases, RunPostedOrderly, StrandMaps
<1>2. ASSUME NEW ok \in BOOLEAN, HandleWrite(ok)
      PROVE  [Abstract!Next]_Abstract!vars
  BY <1>2, HandleWriteCases, HandleWriteOrderly, StrandMaps
<1>3. ASSUME NEW s \in Session, Break(s)
      PROVE  Abstract!Next
  BY <1>3, BreakMaps DEF Abstract!Next
<1>4. ASSUME NEW s \in Session, Read(s)
      PROVE  Abstract!Next
  BY <1>4, ReadMaps DEF Abstract!Next
<1>5. CASE HandleNext
  BY <1>5, HandleNextMaps
<1>6. CASE UNCHANGED <<wire, buffer, last, broken, passed, handled>>
  <2>1. \A r \in Session : Stream(r)' = Stream(r)
    BY <1>6 DEF Stream
  <2> QED BY <1>6, <2>1, StuttersMap DEF Unseen
<1>7. CASE Post \/ Connect \/ Connected \/ NotConnected \/ UNCHANGED vars
  BY <1>6, <1>7 DEF Post, Connect, Connected, NotConnected, vars, reader
<1> QED BY <1>1, <1>2, <1>3, <1>4, <1>5, <1>7 DEF Next

LEMMA InitMaps == Init => Abstract!Init
<1> SUFFICES ASSUME Init PROVE Abstract!Init
  OBVIOUS
<1>1. \A s \in Session : Complete(buffer[s] \o wire[s]) = <<>>
  <2> SUFFICES ASSUME NEW s \in Session
               PROVE  Complete(buffer[s] \o wire[s]) = <<>>
    OBVIOUS
  <2>1. buffer[s] \o wire[s] = <<>> \o <<>>
    BY DEF Init
  <2>2. <<>> \in Seq(Token) /\ Len(<<>>) = 0
    BY EmptySeq
  <2>3. <<>> \o <<>> = <<>>
    BY <2>2, ConcatEmptySeq
  <2>4. Complete(<<>>) \in Seq(Sent) /\ Len(Complete(<<>>)) = 0
    <3>1. 0 \div 2 = 0
      OBVIOUS
    <3> QED BY <2>2, <3>1, CompleteTyped
  <2> QED BY <2>1, <2>3, <2>4, EmptySeq
<1> QED BY <1>1 DEF Init, Abstract!Init

\* The link keeps the promises of Channel: every session delivers in order what
\* was written on it, but for what a break cuts off and for messages whose key
\* the same call of process_buffer has met.
THEOREM LinkIsChannel == Spec => IsChannel
<1>1. Init => Ordered
  BY InitOrdered
<1>2. Typed /\ Typed' /\ Ordered /\ [Next]_vars => Ordered'
  BY StepOrdered
<1>3. Spec => [](Typed /\ Framed /\ Ordered)
  BY <1>1, <1>2, AlwaysFramed, PTL DEF Spec
<1>4. Typed /\ Typed' /\ Framed /\ Ordered /\ [Next]_vars => [Abstract!Next]_Abstract!vars
  BY StepMaps
<1> QED BY <1>3, <1>4, InitMaps, PTL DEF Spec, IsChannel, Abstract!Spec
=============================================================================
