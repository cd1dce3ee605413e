--------------------------- MODULE GameRoundProofs ---------------------------
(***************************************************************************)
(* Lemmas about GameRound, for every value of the game's constants: what   *)
(* GameRound.start and GameRound.record return, and that record keeps a    *)
(* round within the limits of its mode.                                    *)
(***************************************************************************)
EXTENDS GameRound, FiniteSetTheorems, TLAPS

\* GameRound.start returns a round with an empty log.
LEMMA StartType ==
  ASSUME NEW t \in Nat, NEW fresh \in NewRounds(t)
  PROVE  fresh \in Round /\ fresh.answers = << >>
<1>1. PICK m \in RoundMode, d \in SprintDurations, n \in 1..DAILY_20_ROUND_SIZE :
             fresh = start(m, t, d, n)
  BY DEF NewRounds
<1>2. d \in Nat /\ n \in Nat
  BY RoundConstants
<1>3. QED
  BY <1>1, <1>2 DEF start, Round

LEMMA ImplicitType == ImplicitRound \in Round /\ ImplicitRound.answers = << >>
BY DEF ImplicitRound, start, Round, RoundMode

\* Appending an answer leaves a round a round and changes nothing but its log.
LEMMA RecordType ==
  ASSUME NEW old \in Round, NEW a \in SubmittedAnswer
  PROVE  /\ record(old, a) \in Round
         /\ record(old, a).answers = Append(old.answers, a)
         /\ record(old, a).mode = old.mode
         /\ record(old, a).started_at = old.started_at
         /\ record(old, a).duration_seconds = old.duration_seconds
         /\ record(old, a).daily_size = old.daily_size
BY SMTT(30) DEF record, Round

\* The numbers up to n are n.
LEMMA UpToIsFinite ==
  ASSUME NEW n \in Nat
  PROVE  IsFiniteSet(1..n) /\ Cardinality(1..n) = n
<1>1. 1 \in Int /\ n \in Int
  OBVIOUS
<1>2. IsFiniteSet(1..n) /\ Cardinality(1..n) = IF 1 > n THEN 0 ELSE n - 1 + 1
  BY <1>1, FS_Interval
<1>3. QED
  BY <1>2

\* The INCORRECT entries of a log are finitely many, and appending an answer
\* adds at most one.
LEMMA IncorrectAppend ==
  ASSUME NEW s \in Seq(SubmittedAnswer), NEW a \in SubmittedAnswer
  PROVE  /\ Cardinality(IncorrectAt(s)) \in Nat
         /\ Cardinality(IncorrectAt(Append(s, a))) <= Cardinality(IncorrectAt(s)) + 1
<1>1. IsFiniteSet(1..Len(s))
  <2>1. Len(s) \in Nat
    OBVIOUS
  <2>2. QED
    BY <2>1, UpToIsFinite
<1>2. IncorrectAt(s) \subseteq 1..Len(s)
  BY DEF IncorrectAt
<1>3. IsFiniteSet(IncorrectAt(s))
  BY <1>1, <1>2, FS_Subset
<1>4. IncorrectAt(Append(s, a)) \subseteq IncorrectAt(s) \cup {Len(s) + 1}
  BY DEF IncorrectAt
<1>5. /\ IsFiniteSet(IncorrectAt(s) \cup {Len(s) + 1})
      /\ Cardinality(IncorrectAt(s) \cup {Len(s) + 1}) <= Cardinality(IncorrectAt(s)) + 1
  <2>1. Cardinality(IncorrectAt(s)) \in Nat
    BY <1>3, FS_CardinalityType
  <2>2. /\ IsFiniteSet(IncorrectAt(s) \cup {Len(s) + 1})
        /\ Cardinality(IncorrectAt(s) \cup {Len(s) + 1}) =
             IF Len(s) + 1 \in IncorrectAt(s) THEN Cardinality(IncorrectAt(s))
             ELSE Cardinality(IncorrectAt(s)) + 1
    BY <1>3, FS_AddElement, Zenon
  <2>3. QED
    BY <2>1, <2>2
<1>6. Cardinality(IncorrectAt(Append(s, a)))
        <= Cardinality(IncorrectAt(s) \cup {Len(s) + 1})
  BY <1>4, <1>5, FS_Subset
<1>7. /\ Cardinality(IncorrectAt(s)) \in Nat
      /\ Cardinality(IncorrectAt(s) \cup {Len(s) + 1}) \in Nat
      /\ Cardinality(IncorrectAt(Append(s, a))) \in Nat
  BY <1>3, <1>4, <1>5, FS_Subset, FS_CardinalityType
<1>8. QED
  BY <1>5, <1>6, <1>7

\* GameRound.record keeps a round within its mode's limits, provided it is
\* the round it checked that it extends.
LEMMA RecordLegal ==
  ASSUME NEW old \in Round, LegalRound(old),
         NEW t \in Nat, CanRecord(old, t),
         NEW a \in SubmittedAnswer, a.submitted_at = t
  PROVE  LegalRound(record(old, a))
<1> DEFINE new == record(old, a)
<1>1. /\ new \in Round
      /\ new.answers = Append(old.answers, a)
      /\ new.mode = old.mode /\ new.daily_size = old.daily_size
      /\ new.started_at = old.started_at
      /\ new.duration_seconds = old.duration_seconds
  BY RecordType
<1>2. /\ old.answers \in Seq(SubmittedAnswer)
      /\ Len(new.answers) = Len(old.answers) + 1
      /\ old.started_at \in Nat /\ old.duration_seconds \in Nat /\ old.daily_size \in Nat
  BY <1>1 DEF Round
<1> HIDE DEF new
<1>3. WithinCeiling(new)
  BY <1>2, RoundConstants DEF CanRecord, WithinCeiling
<1>4. WithinSize(new)
  BY <1>1, <1>2, RoundConstants DEF CanRecord, is_over, WithinSize
<1>5. WithinLives(new)
  <2>1. CASE old.mode = "SURVIVAL"
    <3>1. ~(Cardinality(IncorrectAt(old.answers)) >= SURVIVAL_LIVES)
      BY <2>1 DEF CanRecord, is_over, OutOfLives
    <3>2. /\ Cardinality(IncorrectAt(old.answers)) \in Nat
          /\ Cardinality(IncorrectAt(new.answers)) <= Cardinality(IncorrectAt(old.answers)) + 1
      BY <1>1, <1>2, IncorrectAppend
    <3>3. Cardinality(IncorrectAt(new.answers)) \in Nat
      BY <1>1, IncorrectAppend DEF Round
    <3>4. QED
      BY <3>1, <3>2, <3>3, RoundConstants DEF WithinLives
  <2>2. CASE old.mode # "SURVIVAL"
    BY <1>1, <2>2 DEF WithinLives
  <2>3. QED
    BY <2>1, <2>2
<1>6. WithinTime(new)
  <2>1. SUFFICES ASSUME new.mode = "SPRINT", NEW i \in DOMAIN new.answers
                 PROVE  new.answers[i].submitted_at < new.started_at + new.duration_seconds
    BY DEF WithinTime
  <2>2. CASE i \in DOMAIN old.answers
    BY <1>1, <1>2, <2>1, <2>2 DEF LegalRound, WithinTime
  <2>3. CASE i \notin DOMAIN old.answers
    <3>1. new.answers[i] = a
      BY <1>1, <1>2, <2>3
    <3>2. ~(t >= old.started_at + old.duration_seconds)
      BY <1>1, <2>1 DEF CanRecord, is_expired
    <3>3. QED
      BY <1>1, <1>2, <3>1, <3>2
  <2>4. QED
    BY <2>2, <2>3
<1>7. QED
  BY <1>3, <1>4, <1>5, <1>6 DEF LegalRound, new

\* A round with an empty log is within every limit.
LEMMA EmptyLegal ==
  ASSUME NEW old \in Round, old.answers = << >>
  PROVE  LegalRound(old)
<1>1. IncorrectAt(old.answers) = {}
  BY DEF IncorrectAt
<1>2. Cardinality(IncorrectAt(old.answers)) = 0
  BY <1>1, FS_EmptySet
<1>3. QED
  BY <1>2, RoundConstants
     DEF LegalRound, WithinCeiling, WithinSize, WithinLives, WithinTime, Round
=============================================================================
