--------------------------- MODULE ProvidersProofs ---------------------------
(***************************************************************************)
(* A call that came to its end has handed out all that was said, whatever  *)
(* the server sends and however long it goes on.                           *)
(***************************************************************************)
EXTENDS Providers, FiniteSets, FunctionTheorems, FiniteSetTheorems, SequenceTheorems, TLAPS

(* The lines with content among those that have arrived.                    *)
ContentOf(lines) == {i \in 1 .. Len(lines) : lines[i] = "content"}
Unread(lines) == Cardinality(ContentOf(lines))

Typed ==
    /\ class \in Class /\ op \in {"complete", "stream"}
    /\ pc \in AtWork \cup Over
    /\ wire \in Seq(Line) /\ Len(wire) <= sent /\ sent \in 0 .. MaxLines
    /\ server \in {"sending", "closed"}
    /\ text \in 0 .. MaxText /\ out \in Nat /\ said \in Nat /\ reported \in BOOLEAN

(* Nothing comes after the last line.                                       *)
DoneIsLast == \A i \in 1 .. Len(wire) : wire[i] = "done" => i = Len(wire) /\ server = "closed"

(* What has been said is out, or still on its way.                          *)
Accounts ==
    /\ pc \in {"calling", "opening"} => out = 0 /\ said = 0 /\ wire = <<>>
    /\ pc = "chunking" => said = text /\ out <= text
    /\ pc = "reading" => said = out + Unread(wire)
    /\ pc \in {"returned", "ended"} => out = said

IInv == Typed /\ DoneIsLast /\ Accounts

------------------------------------------------------------------------------
LEMMA ContentIsFinite ==
  ASSUME NEW s \in Seq(Line)
  PROVE  IsFiniteSet(ContentOf(s)) /\ Unread(s) \in Nat
<1>1. Len(s) \in Nat
  BY LenProperties
<1>2. IsFiniteSet(1 .. Len(s))
  BY <1>1, FS_Interval
<1>3. ContentOf(s) \in SUBSET (1 .. Len(s))
  BY DEF ContentOf
<1>. QED
  BY <1>2, <1>3, FS_Subset, FS_CardinalityType DEF Unread

LEMMA NothingUnread == Unread(<<>>) = 0
<1>1. ContentOf(<<>>) = {}
  BY EmptySeq DEF ContentOf
<1>. QED
  BY <1>1, FS_EmptySet DEF Unread

LEMMA OneMoreLine ==
  ASSUME NEW s \in Seq(Line), NEW line \in Line
  PROVE  Unread(Append(s, line)) = IF line = "content" THEN Unread(s) + 1 ELSE Unread(s)
<1> DEFINE a == Append(s, line)
<1>1. /\ Len(s) \in Nat /\ Len(a) = Len(s) + 1
      /\ \A i \in 1 .. Len(s) : a[i] = s[i]
      /\ a[Len(s) + 1] = line
  BY AppendProperties, LenProperties
<1> HIDE DEF a
<1>2. CASE line = "content"
  <2>1. ContentOf(a) = ContentOf(s) \cup {Len(s) + 1}
    BY <1>1, <1>2 DEF ContentOf
  <2>2. Len(s) + 1 \notin ContentOf(s)
    BY <1>1 DEF ContentOf
  <2>3. Cardinality(ContentOf(s) \cup {Len(s) + 1}) = Cardinality(ContentOf(s)) + 1
    BY <2>2, ContentIsFinite, FS_AddElement
  <2>. QED
    BY <1>2, <2>1, <2>3 DEF Unread, a
<1>3. CASE line # "content"
  <2>1. ContentOf(a) = ContentOf(s)
    BY <1>1, <1>3 DEF ContentOf
  <2>. QED
    BY <1>3, <2>1 DEF Unread, a
<1>. QED
  BY <1>2, <1>3

LEMMA OneLineLess ==
  ASSUME NEW s \in Seq(Line), s # <<>>
  PROVE  Unread(s) = IF Head(s) = "content" THEN Unread(Tail(s)) + 1 ELSE Unread(Tail(s))
<1> DEFINE t == Tail(s)
           f == [i \in ContentOf(t) |-> i + 1]
           g == [i \in ContentOf(s) \ {1} |-> i - 1]
<1>1. /\ Len(s) \in Nat /\ Len(t) = Len(s) - 1 /\ t \in Seq(Line)
      /\ \A i \in 1 .. Len(t) : t[i] = s[i + 1]
      /\ Len(s) >= 1 /\ Head(s) = s[1]
  BY HeadTailProperties, LenProperties, EmptySeq
<1> HIDE DEF t
<1>2. f \in Injection(ContentOf(t), ContentOf(s) \ {1})
  <2>1. f \in [ContentOf(t) -> ContentOf(s) \ {1}]
    BY <1>1 DEF ContentOf
  <2>2. \A a, b \in ContentOf(t) : f[a] = f[b] => a = b
    BY <1>1 DEF ContentOf
  <2>. QED
    BY <2>1, <2>2, Fun_IsInj
<1>3. g \in Injection(ContentOf(s) \ {1}, ContentOf(t))
  <2>1. g \in [ContentOf(s) \ {1} -> ContentOf(t)]
    BY <1>1 DEF ContentOf
  <2>2. \A a, b \in ContentOf(s) \ {1} : g[a] = g[b] => a = b
    BY <1>1 DEF ContentOf
  <2>. QED
    BY <2>1, <2>2, Fun_IsInj
<1>4. /\ IsFiniteSet(ContentOf(s)) /\ IsFiniteSet(ContentOf(t)) /\ IsFiniteSet(ContentOf(s) \ {1})
      /\ Cardinality(ContentOf(s)) \in Nat /\ Cardinality(ContentOf(t)) \in Nat
      /\ Cardinality(ContentOf(s) \ {1}) \in Nat
  BY <1>1, ContentIsFinite, FS_RemoveElement, FS_CardinalityType
<1>5. Cardinality(ContentOf(s) \ {1}) = Cardinality(ContentOf(t))
  <2>1. Cardinality(ContentOf(t)) <= Cardinality(ContentOf(s) \ {1})
    BY <1>2, <1>4, FS_Injection
  <2>2. Cardinality(ContentOf(s) \ {1}) <= Cardinality(ContentOf(t))
    BY <1>3, <1>4, FS_Injection
  <2>. QED
    BY <1>4, <2>1, <2>2
<1>6. 1 \in ContentOf(s) <=> Head(s) = "content"
  BY <1>1 DEF ContentOf
<1>7. Cardinality(ContentOf(s) \ {1}) =
         IF 1 \in ContentOf(s) THEN Cardinality(ContentOf(s)) - 1 ELSE Cardinality(ContentOf(s))
  BY <1>4, FS_RemoveElement
<1>. QED
  BY <1>4, <1>5, <1>6, <1>7 DEF Unread, t

(* A tail, too, ends with the last line.                                    *)
LEMMA TailEndsWithDone ==
  ASSUME NEW s \in Seq(Line), s # <<>>, NEW closed \in BOOLEAN,
         \A i \in 1 .. Len(s) : s[i] = "done" => i = Len(s) /\ closed
  PROVE  \A i \in 1 .. Len(Tail(s)) : Tail(s)[i] = "done" => i = Len(Tail(s)) /\ closed
<1> DEFINE t == Tail(s)
<1>1. /\ Len(s) \in Nat /\ Len(t) = Len(s) - 1
      /\ \A i \in 1 .. Len(t) : t[i] = s[i + 1]
  BY HeadTailProperties, LenProperties
<1> HIDE DEF t
<1>2. ASSUME NEW i \in 1 .. Len(t), t[i] = "done" PROVE i = Len(t) /\ closed
  <2>1. i + 1 \in 1 .. Len(s) /\ s[i + 1] = "done"
    BY <1>1, <1>2
  <2>2. i + 1 = Len(s) /\ closed
    BY <2>1, Zenon
  <2>. QED
    BY <1>1, <2>2
<1>. QED
  BY <1>2 DEF t

------------------------------------------------------------------------------
LEMMA InitIInv == Init => IInv
<1> SUFFICES ASSUME Init PROVE IInv
  OBVIOUS
<1>1. Typed
  <2>1. <<>> \in Seq(Line) /\ Len(<<>>) = 0 /\ 0 \in 0 .. MaxLines /\ 0 \in 0 .. MaxText
    BY SizeAssumption, EmptySeq
  <2>2. pc \in AtWork \cup Over
    BY DEF Init, AtWork, Over
  <2>3. wire = <<>> /\ sent = 0 /\ text = 0 /\ out = 0 /\ said = 0
    BY DEF Init
  <2>4. wire \in Seq(Line) /\ Len(wire) <= sent
    BY <2>1, <2>3
  <2>5. class \in Class /\ op \in {"complete", "stream"} /\ server = "sending" /\ reported = FALSE
    BY DEF Init
  <2>6. sent \in 0 .. MaxLines /\ text \in 0 .. MaxText /\ out \in Nat /\ said \in Nat
    BY <2>1, <2>3
  <2>. QED
    BY <2>2, <2>4, <2>5, <2>6 DEF Typed
<1>2. DoneIsLast
  BY EmptySeq DEF Init, DoneIsLast
<1>3. Accounts
  BY DEF Init, Accounts
<1>. QED
  BY <1>1, <1>2, <1>3 DEF IInv

LEMMA StepKeepsIInv == IInv /\ [Next]_vars => IInv'
<1> SUFFICES ASSUME IInv, [Next]_vars PROVE IInv'
  OBVIOUS
<1>0. Typed /\ DoneIsLast /\ Accounts
  BY DEF IInv
<1>e. <<>> \in Seq(Line) /\ Len(<<>>) = 0 /\ Unread(<<>>) = 0
  BY EmptySeq, NothingUnread
<1> USE DEF AtWork, Over, call
<1>1. ASSUME NEW n \in 0 .. MaxText, Answers(n) PROVE IInv'
  <2>1. Typed'
    BY <1>0, <1>1, SizeAssumption DEF Answers, Got, Typed
  <2>2. DoneIsLast' /\ Accounts'
    BY <1>0, <1>1, SizeAssumption DEF Answers, Got, Typed, DoneIsLast, Accounts
  <2>. QED
    BY <2>1, <2>2 DEF IInv
<1>2. CASE AnswersWithError
  <2>1. Typed'
    BY <1>0, <1>2, SizeAssumption DEF AnswersWithError, Got, Typed
  <2>2. DoneIsLast' /\ Accounts'
    BY <1>0, <1>2 DEF AnswersWithError, Got, Typed, DoneIsLast, Accounts
  <2>. QED
    BY <2>1, <2>2 DEF IInv
<1>3. CASE Fails \/ LastPieceIsOut \/ Closes \/ TimesOut
  <2>1. Typed'
    BY <1>0, <1>3 DEF Fails, LastPieceIsOut, Closes, TimesOut, Typed
  <2>2. DoneIsLast' /\ Accounts'
    BY <1>0, <1>3 DEF Fails, LastPieceIsOut, PiecesLeft, Closes, TimesOut, Typed, DoneIsLast, Accounts
  <2>. QED
    BY <2>1, <2>2 DEF IInv
<1>4. CASE NextPiece
  <2>1. PieceEnd(out) \in Nat /\ PieceEnd(out) <= text
    BY <1>0, <1>4, SizeAssumption DEF NextPiece, PieceEnd, Typed, Accounts
  <2>. QED
    BY <1>0, <1>4, <2>1 DEF NextPiece, IInv, Typed, DoneIsLast, Accounts
<1>5. CASE Opens
  BY <1>0, <1>5, <1>e DEF Opens, IInv, Typed, DoneIsLast, Accounts
<1>6. ASSUME NEW line \in Line, Sends(line) PROVE IInv'
  <2>1. /\ wire' \in Seq(Line) /\ Len(wire') = Len(wire) + 1 /\ Len(wire) \in Nat
        /\ \A i \in 1 .. Len(wire) : wire'[i] = wire[i]
        /\ wire'[Len(wire) + 1] = line
    BY <1>0, <1>6, AppendProperties, LenProperties DEF Sends, Typed
  <2>2. Typed'
    BY <1>0, <1>6, <2>1, SizeAssumption DEF Sends, Typed
  <2>3. DoneIsLast'
    BY <1>0, <1>6, <2>1 DEF Sends, DoneIsLast
  <2>4. /\ Unread(wire) \in Nat
        /\ Unread(wire') = IF line = "content" THEN Unread(wire) + 1 ELSE Unread(wire)
    BY <1>0, <1>6, OneMoreLine, ContentIsFinite DEF Sends, Typed
  <2>5. Accounts'
    BY <1>0, <1>6, <2>4 DEF Sends, Typed, Accounts
  <2>. QED
    BY <2>2, <2>3, <2>5 DEF IInv
<1>7. CASE Yields \/ Skips
  <2>1. /\ wire # <<>> /\ wire \in Seq(Line) /\ wire' = Tail(wire) /\ Len(wire) \in Nat
        /\ Tail(wire) \in Seq(Line) /\ Len(Tail(wire)) = Len(wire) - 1
    BY <1>0, <1>7, HeadTailProperties, LenProperties DEF Yields, Skips, Typed
  <2>2. Typed'
    BY <1>0, <1>7, <2>1, SizeAssumption DEF Yields, Skips, Typed
  <2>3. DoneIsLast'
    <3>1. \A i \in 1 .. Len(wire) : wire[i] = "done" => i = Len(wire) /\ (server = "closed")
      BY <1>0 DEF DoneIsLast
    <3>2. \A i \in 1 .. Len(Tail(wire)) :
             Tail(wire)[i] = "done" => i = Len(Tail(wire)) /\ (server = "closed")
      BY <2>1, <3>1, TailEndsWithDone
    <3>. QED
      BY <1>7, <2>1, <3>2 DEF Yields, Skips, DoneIsLast
  <2>4. /\ Unread(wire) = IF Head(wire) = "content" THEN Unread(Tail(wire)) + 1
                          ELSE Unread(Tail(wire))
        /\ Unread(wire) \in Nat /\ Unread(Tail(wire)) \in Nat
    BY <2>1, OneLineLess, ContentIsFinite
  <2>5. Accounts'
    <3>1. CASE Yields
      BY <1>0, <2>1, <2>4, <3>1 DEF Yields, Typed, Accounts
    <3>2. CASE Skips
      BY <1>0, <2>1, <2>4, <3>2 DEF Skips, Ignored, Typed, Accounts
    <3>. QED
      BY <1>7, <3>1, <3>2
  <2>. QED
    BY <2>2, <2>3, <2>5 DEF IInv
(* At the last line, or at the end without one, nothing is unread.          *)
<1>8. CASE Ends
  <2>1. Unread(wire) = 0
    <3>1. CASE wire = <<>>
      BY <1>e, <3>1
    <3>2. CASE wire # <<>> /\ Head(wire) = "done"
      <4>1. Len(wire) \in Nat /\ Len(wire) >= 1 /\ wire[1] = "done"
        BY <1>0, <3>2, LenProperties, EmptySeq DEF Typed
      <4>2. Len(wire) = 1
        BY <1>0, <4>1 DEF DoneIsLast
      <4>3. ContentOf(wire) = {}
        BY <4>1, <4>2 DEF ContentOf
      <4>. QED
        BY <4>3, FS_EmptySet DEF Unread
    <3>. QED
      BY <1>8, <3>1, <3>2 DEF Ends, EndMarks
  <2>. QED
    BY <1>0, <1>8, <1>e, <2>1 DEF Ends, IInv, Typed, DoneIsLast, Accounts
<1>9. CASE Chokes \/ Leaves
  <2>1. wire' = <<>> /\ pc' \in {"raised", "left"}
        /\ UNCHANGED <<class, op, server, sent, text, out, said, reported>>
    BY <1>9 DEF Chokes, Leaves
  <2>2. wire' \in Seq(Line) /\ Len(wire') = 0 /\ Len(wire') <= sent'
    BY <1>0, <1>e, <2>1, SizeAssumption DEF Typed
  <2>3. Typed'
    BY <1>0, <2>1, <2>2 DEF Typed
  <2>4. DoneIsLast' /\ Accounts'
    BY <2>1, <2>2 DEF DoneIsLast, Accounts
  <2>. QED
    BY <2>3, <2>4 DEF IInv
<1>10. CASE UNCHANGED vars
  BY <1>0, <1>10 DEF vars, IInv, Typed, DoneIsLast, Accounts
<1>. QED
  BY <1>1, <1>2, <1>3, <1>4, <1>5, <1>6, <1>7, <1>8, <1>9, <1>10 DEF Next, Client

(* The pieces of a whole answer never go past its end (TypeOK).             *)
THEOREM TypeCorrect == Spec => []TypeOK
<1>1. IInv => TypeOK
  BY DEF IInv, Typed, Accounts, TypeOK
<1>. QED
  BY <1>1, InitIInv, StepKeepsIInv, PTL DEF Spec

(* However the lines of a stream come and wherever a whole answer is cut, a *)
(* call that returns or ends has handed out all that was said (the stream   *)
(* and complete methods of the providers).                                  *)
THEOREM NothingIsLost == Spec => []NothingLost
<1>1. IInv => NothingLost
  BY DEF IInv, Accounts, NothingLost
<1>. QED
  BY <1>1, InitIInv, StepKeepsIInv, PTL DEF Spec
==============================================================================
