----------------------------- MODULE CodecProofs -----------------------------
(***************************************************************************)
(* What the decoders of CallCodec compute, for calls with any arguments,   *)
(* batches of any number of calls and extrinsics of any length.            *)
(***************************************************************************)
EXTENDS EventCodec, SequenceTheorems, FiniteSetTheorems, TLAPS

-----------------------------------------------------------------------------
(* Induction over numbers *)

(* A set of numbers that is not empty has a least one. *)
LEMMA LeastMember ==
  ASSUME NEW M, M \subseteq Nat, M # {}
  PROVE  \E m \in M : \A n \in M : m <= n
<1>. DEFINE Below == {1..n : n \in M}
            R == StrictSubsetOrdering(Nat)
            F == FiniteSubsetsOf(Nat)
<1>1. IsWellFoundedOn(R, F)
  BY FS_StrictSubsetOrderingWellFounded
<1>2. Below \subseteq F /\ Below # {}
  <2>1. \A n \in M : 1..n \subseteq Nat /\ IsFiniteSet(1..n)
    BY FS_Interval
  <2>. QED
    BY <2>1 DEF FiniteSubsetsOf
<1>. HIDE DEF R, F, Below
<1>3. PICK x \in Below : \A y \in Below : ~ (<<y, x>> \in R)
  BY <1>1, <1>2, WFMin
<1>4. PICK m \in M : x = 1..m
  BY <1>3 DEF Below
<1>5. ASSUME NEW n \in M, n < m PROVE FALSE
  <2>1. m \in Nat /\ n \in Nat
    OBVIOUS
  <2>2. 1..n \subseteq 1..m /\ 1..n # 1..m /\ 1..n \subseteq Nat /\ 1..m \subseteq Nat
    <3>1. m \in 1..m /\ m \notin 1..n
      BY <1>5, <2>1
    <3>. QED
      BY <1>5, <2>1, <3>1
  <2>3. <<1..n, 1..m>> \in R
    BY <2>2 DEF R, StrictSubsetOrdering
  <2>. QED
    BY <1>3, <1>4, <2>3 DEF Below
<1>. QED
  BY <1>5

(* What holds of 0 and of each successor holds of all numbers. *)
LEMMA Induction ==
  ASSUME NEW S, 0 \in S, \A n \in Nat : n \in S => n + 1 \in S
  PROVE  Nat \subseteq S
<1>1. SUFFICES ASSUME Nat \ S # {} PROVE FALSE
  OBVIOUS
<1>2. PICK m \in Nat \ S : \A n \in Nat \ S : m <= n
  BY <1>1, LeastMember
<1>3. m - 1 \in Nat /\ m - 1 \in S
  BY <1>2
<1>. QED
  BY <1>2, <1>3

-----------------------------------------------------------------------------
(* The recursive functions of the module exist *)

(* read is what the readers make of in, up to the n-th. *)
IsReading(read, readers, in, n) ==
  read = [i \in 0..n |->
            IF i = 0 THEN Ok(<<>>, in)
            ELSE LET before == read[i - 1]
                     next   == readers[i][before.rest]
                 IN  IF before.ok /\ next.ok THEN Ok(Append(before.value, next.value), next.rest)
                     ELSE Err]

LEMMA ReadingExists ==
  ASSUME NEW readers, NEW in, NEW n \in Nat
  PROVE  \E read : IsReading(read, readers, in, n)
<1>. DEFINE S == {k \in Nat : \E read : IsReading(read, readers, in, k)}
<1>1. 0 \in S
  <2>. DEFINE read == [i \in 0..0 |-> Ok(<<>>, in)]
  <2>1. IsReading(read, readers, in, 0)
    BY DEF IsReading
  <2>. QED
    BY <2>1
<1>2. ASSUME NEW k \in Nat, k \in S PROVE k + 1 \in S
  <2>1. PICK old : IsReading(old, readers, in, k)
    BY <1>2
  <2>. DEFINE after == LET before == old[k]
                           next   == readers[k + 1][before.rest]
                       IN  IF before.ok /\ next.ok
                           THEN Ok(Append(before.value, next.value), next.rest) ELSE Err
              read == [i \in 0..k + 1 |-> IF i = k + 1 THEN after ELSE old[i]]
  <2>2. DOMAIN old = 0..k
    BY <2>1 DEF IsReading
  <2>3. ASSUME NEW i \in 0..k + 1
        PROVE  read[i] = IF i = 0 THEN Ok(<<>>, in)
                         ELSE LET before == read[i - 1]
                                  next   == readers[i][before.rest]
                              IN  IF before.ok /\ next.ok
                                  THEN Ok(Append(before.value, next.value), next.rest)
                                  ELSE Err
    <3>1. CASE i = k + 1
      <4>1. read[i] = after /\ read[i - 1] = old[k]
        BY <3>1
      <4>. HIDE DEF read
      <4>2. i # 0
        BY <3>1
      <4>. QED
        BY <3>1, <4>1, <4>2
    <3>2. CASE i # k + 1
      <4>1. i \in 0..k /\ read[i] = old[i] /\ (i # 0 => read[i - 1] = old[i - 1])
        BY <3>2
      <4>2. old[i] = IF i = 0 THEN Ok(<<>>, in)
                     ELSE LET before == old[i - 1]
                              next   == readers[i][before.rest]
                          IN  IF before.ok /\ next.ok
                              THEN Ok(Append(before.value, next.value), next.rest)
                              ELSE Err
        BY <2>1, <4>1 DEF IsReading
      <4>. QED
        BY <4>1, <4>2
    <3>. QED
      BY <3>1, <3>2
  <2>4. IsReading(read, readers, in, k + 1)
    BY <2>3 DEF IsReading
  <2>. QED
    BY <2>4
<1>. HIDE DEF S
<1>3. Nat \subseteq S
  BY <1>1, <1>2, Induction
<1>. QED
  BY <1>3 DEF S

LEMMA ReadAllReads ==
  ASSUME NEW readers, NEW in, Len(readers) \in Nat
  PROVE  \E read : /\ IsReading(read, readers, in, Len(readers))
                   /\ ReadAll(readers, in) = read[Len(readers)]
<1>. DEFINE read == CHOOSE r : IsReading(r, readers, in, Len(readers))
<1>1. IsReading(read, readers, in, Len(readers))
  BY ReadingExists
<1>2. ReadAll(readers, in) = read[Len(readers)]
  BY DEF ReadAll, IsReading
<1>. QED
  BY <1>1, <1>2

(* One more reading: what is read so far, and where that stopped. *)
OneMore(before, reader) ==
  IF before.ok /\ reader[before.rest].ok
  THEN Ok(Append(before.value, reader[before.rest].value), reader[before.rest].rest)
  ELSE Err

(* read[i] is what is read after the i-th reader, for i up to n. *)
IsRead(read, readers, in, n) ==
  /\ read[0] = Ok(<<>>, in)
  /\ \A i \in 1..n : read[i] = OneMore(read[i - 1], readers[i])

(* The first n readers read the first n values, one after the other; tails[i] *)
(* is what the i-th leaves.                                                 *)
Reads(readers, values, tails, n) ==
  \A i \in 1..n : readers[i][tails[i - 1]] = Ok(values[i], tails[i])

LEMMA ReadAllSteps ==
  ASSUME NEW readers, NEW in, Len(readers) \in Nat
  PROVE  \E read : /\ IsRead(read, readers, in, Len(readers))
                   /\ ReadAll(readers, in) = read[Len(readers)]
<1>1. PICK read : /\ IsReading(read, readers, in, Len(readers))
                  /\ ReadAll(readers, in) = read[Len(readers)]
  BY ReadAllReads
<1>2. ASSUME NEW i \in 1..Len(readers) PROVE read[i] = OneMore(read[i - 1], readers[i])
  <2>1. i \in 0..Len(readers) /\ i # 0
    OBVIOUS
  <2>. QED
    BY <1>1, <2>1 DEF IsReading, OneMore
<1>3. read[0] = Ok(<<>>, in)
  BY <1>1 DEF IsReading
<1>. QED
  BY <1>1, <1>2, <1>3 DEF IsRead

LEMMA OneMoreOk ==
  ASSUME NEW v, NEW r, NEW reader, NEW x, NEW t, reader[r] = Ok(x, t)
  PROVE  OneMore(Ok(v, r), reader) = Ok(Append(v, x), t)
<1>1. Ok(v, r).ok /\ Ok(v, r).value = v /\ Ok(v, r).rest = r
  BY DEF Ok
<1>2. reader[r].ok /\ reader[r].value = x /\ reader[r].rest = t
  BY DEF Ok
<1>. QED
  BY <1>1, <1>2 DEF OneMore

(* If the first m readers read the first m values, that is what was read     *)
(* when they are done.                                                      *)
LEMMA PrefixRead ==
  ASSUME NEW readers, NEW read, NEW V, NEW values \in Seq(V), NEW tails, NEW n \in Nat,
         NEW m \in Nat, m <= Len(values), m <= n,
         IsRead(read, readers, tails[0], n), Reads(readers, values, tails, m)
  PROVE  read[m] = Ok(SubSeq(values, 1, m), tails[m])
<1>. DEFINE S == {k \in Nat : k <= m => read[k] = Ok(SubSeq(values, 1, k), tails[k])}
<1>1. 0 \in S
  <2>1. SubSeq(values, 1, 0) = <<>>
    OBVIOUS
  <2>. QED
    BY <2>1 DEF IsRead
<1>2. ASSUME NEW k \in Nat, k \in S PROVE k + 1 \in S
  <2>1. SUFFICES ASSUME k + 1 <= m
                 PROVE  read[k + 1] = Ok(SubSeq(values, 1, k + 1), tails[k + 1])
    OBVIOUS
  <2>2. /\ k + 1 \in 1..m /\ k + 1 \in 1..n /\ k <= m
        /\ (k + 1) - 1 = k /\ k + 1 \in 1..Len(values)
    BY <2>1
  <2>3. read[k] = Ok(SubSeq(values, 1, k), tails[k])
    BY <1>2, <2>2
  <2>4. readers[k + 1][tails[k]] = Ok(values[k + 1], tails[k + 1])
    BY <2>2 DEF Reads
  <2>5. read[k + 1] = OneMore(read[k], readers[k + 1])
    BY <2>2 DEF IsRead
  <2>6. read[k + 1] = Ok(Append(SubSeq(values, 1, k), values[k + 1]), tails[k + 1])
    BY <2>3, <2>4, <2>5, OneMoreOk
  <2>7. Append(SubSeq(values, 1, k), values[k + 1]) = SubSeq(values, 1, k + 1)
    BY <2>2
  <2>. QED
    BY <2>6, <2>7
<1>. HIDE DEF S
<1>3. Nat \subseteq S
  BY <1>1, <1>2, Induction
<1>. QED
  BY <1>3 DEF S

(* Readers that each read their value read them all. *)
LEMMA ReadsEach ==
  ASSUME NEW readers, NEW V, NEW values \in Seq(V), NEW tails, NEW n \in Nat,
         Len(readers) = n, Len(values) = n, Reads(readers, values, tails, n)
  PROVE  ReadAll(readers, tails[0]) = Ok(values, tails[n])
<1>1. PICK read : /\ IsRead(read, readers, tails[0], n)
                  /\ ReadAll(readers, tails[0]) = read[n]
  BY ReadAllSteps
<1>2. read[n] = Ok(SubSeq(values, 1, n), tails[n])
  <2>1. n <= Len(values) /\ n <= n
    OBVIOUS
  <2>. QED
    BY <1>1, <2>1, PrefixRead
<1>3. SubSeq(values, 1, n) = values
  OBVIOUS
<1>. QED
  BY <1>1, <1>2, <1>3

(* Where one reader fails, the reading does. *)
LEMMA OneFails ==
  ASSUME NEW readers, NEW V, NEW values \in Seq(V), NEW tails, NEW m \in Nat, NEW n \in Nat,
         Len(readers) = n, m < n, m <= Len(values),
         Reads(readers, values, tails, m), ~ readers[m + 1][tails[m]].ok
  PROVE  ReadAll(readers, tails[0]) = Err
<1>2. PICK read : /\ IsRead(read, readers, tails[0], n)
                  /\ ReadAll(readers, tails[0]) = read[n]
  BY ReadAllSteps
<1>3. read[m] = Ok(SubSeq(values, 1, m), tails[m])
  BY <1>2, PrefixRead
<1>. DEFINE S == {k \in Nat : m + 1 + k <= n => read[m + 1 + k] = Err}
<1>4. 0 \in S
  <2>1. m + 1 \in 1..n /\ (m + 1) - 1 = m /\ m + 1 + 0 = m + 1
    OBVIOUS
  <2>2. read[m + 1] = OneMore(read[m], readers[m + 1])
    BY <1>2, <2>1 DEF IsRead
  <2>3. OneMore(read[m], readers[m + 1]) = Err
    BY <1>3 DEF OneMore, Ok
  <2>. QED
    BY <2>1, <2>2, <2>3
<1>5. ASSUME NEW k \in Nat, k \in S PROVE k + 1 \in S
  <2>1. SUFFICES ASSUME m + 1 + (k + 1) <= n PROVE read[m + 1 + (k + 1)] = Err
    OBVIOUS
  <2>2. m + 1 + (k + 1) \in 1..n /\ (m + 1 + (k + 1)) - 1 = m + 1 + k /\ m + 1 + k <= n
    BY <2>1
  <2>3. read[m + 1 + k] = Err
    BY <1>5, <2>2
  <2>4. read[m + 1 + (k + 1)] = OneMore(Err, readers[m + 1 + (k + 1)])
    BY <1>2, <2>2, <2>3 DEF IsRead
  <2>. QED
    BY <2>4 DEF OneMore, Err
<1>. HIDE DEF S
<1>6. Nat \subseteq S
  BY <1>4, <1>5, Induction
<1>7. n - (m + 1) \in S /\ m + 1 + (n - (m + 1)) = n
  BY <1>6
<1>8. read[n] = Err
  BY <1>7 DEF S
<1>. QED
  BY <1>2, <1>8

(* The sequences of s flattened, up to the n-th. *)
IsFlat(flat, s, n) ==
  flat = [i \in 1..n |-> IF i = 1 THEN s[i] ELSE flat[i - 1] \o s[i]]

LEMMA FlatExists ==
  ASSUME NEW s, NEW n \in Nat
  PROVE  \E flat : IsFlat(flat, s, n)
<1>. DEFINE S == {k \in Nat : \E flat : IsFlat(flat, s, k)}
<1>1. 0 \in S
  <2>. DEFINE flat == [i \in 1..0 |-> s[i]]
  <2>1. IsFlat(flat, s, 0)
    BY DEF IsFlat
  <2>. QED
    BY <2>1
<1>2. ASSUME NEW k \in Nat, k \in S PROVE k + 1 \in S
  <2>1. PICK old : IsFlat(old, s, k)
    BY <1>2
  <2>. DEFINE flat == [i \in 1..k + 1 |-> IF i \in 1..k THEN old[i]
                                          ELSE IF i = 1 THEN s[i] ELSE old[i - 1] \o s[i]]
  <2>2. ASSUME NEW i \in 1..k + 1
        PROVE  flat[i] = IF i = 1 THEN s[i] ELSE flat[i - 1] \o s[i]
    <3>1. CASE i \in 1..k
      <4>1. old[i] = IF i = 1 THEN s[i] ELSE old[i - 1] \o s[i]
        BY <2>1, <3>1 DEF IsFlat
      <4>2. flat[i] = old[i] /\ (i # 1 => flat[i - 1] = old[i - 1])
        BY <3>1
      <4>. QED
        BY <4>1, <4>2
    <3>2. CASE i \notin 1..k
      <4>1. i = k + 1 /\ (i # 1 => i - 1 \in 1..k)
        BY <3>2
      <4>. QED
        BY <3>2, <4>1
    <3>. QED
      BY <3>1, <3>2
  <2>3. IsFlat(flat, s, k + 1)
    BY <2>2 DEF IsFlat
  <2>. QED
    BY <2>3
<1>. HIDE DEF S
<1>3. Nat \subseteq S
  BY <1>1, <1>2, Induction
<1>. QED
  BY <1>3 DEF S

LEMMA FlattenSeqFlat ==
  ASSUME NEW s, Len(s) \in Nat, Len(s) # 0
  PROVE  \E flat : IsFlat(flat, s, Len(s)) /\ FlattenSeq(s) = flat[Len(s)]
<1>. DEFINE flat == CHOOSE f : IsFlat(f, s, Len(s))
<1>1. IsFlat(flat, s, Len(s))
  BY FlatExists
<1>2. FlattenSeq(s) = flat[Len(s)]
  BY DEF FlattenSeq, IsFlat
<1>. QED
  BY <1>1, <1>2

-----------------------------------------------------------------------------
(* Bytes one after the other *)

(* in is the first n sequences of s and then rest; tails[i] is what follows  *)
(* the i-th.                                                                *)
Splits(tails, s, n, in, rest) ==
  /\ tails \in [0..n -> Seq(Nat)]
  /\ tails[0] = in /\ tails[n] = rest
  /\ \A i \in 1..n : tails[i - 1] = s[i] \o tails[i]

LEMMA ConcatShape ==
  ASSUME NEW a \in Seq(Nat), NEW b \in Seq(Nat)
  PROVE  a \o b \in Seq(Nat) /\ Len(a \o b) = Len(a) + Len(b)
OBVIOUS

LEMMA BytesAssociative ==
  ASSUME NEW a \in Seq(Nat), NEW b \in Seq(Nat), NEW c \in Seq(Nat)
  PROVE  (a \o b) \o c = a \o (b \o c)
OBVIOUS

(* A further sequence before the rest. *)
LEMMA SplitOneMore ==
  ASSUME NEW n \in Nat, NEW s, NEW tails, NEW in, NEW rest \in Seq(Nat), s[n + 1] \in Seq(Nat),
         Splits(tails, s, n, in, s[n + 1] \o rest)
  PROVE  \E more : Splits(more, s, n + 1, in, rest)
<1>. DEFINE more == [i \in 0..n + 1 |-> IF i = n + 1 THEN rest ELSE tails[i]]
<1>1. more \in [0..n + 1 -> Seq(Nat)]
  BY DEF Splits
<1>2. more[0] = in /\ more[n + 1] = rest
  BY DEF Splits
<1>3. ASSUME NEW i \in 1..n + 1 PROVE more[i - 1] = s[i] \o more[i]
  <2>1. CASE i = n + 1
    <3>1. more[i] = rest /\ more[i - 1] = tails[n] /\ s[i] = s[n + 1]
      BY <2>1
    <3>. QED
      BY <3>1 DEF Splits
  <2>2. CASE i # n + 1
    <3>1. i \in 1..n /\ more[i] = tails[i] /\ more[i - 1] = tails[i - 1]
      BY <2>2
    <3>. QED
      BY <3>1 DEF Splits
  <2>. QED
    BY <2>1, <2>2
<1>. HIDE DEF more
<1>. QED
  BY <1>1, <1>2, <1>3 DEF Splits

LEMMA FlattenSplits ==
  ASSUME NEW s \in Seq(Seq(Nat)), NEW rest \in Seq(Nat)
  PROVE  /\ FlattenSeq(s) \in Seq(Nat)
         /\ \E tails : Splits(tails, s, Len(s), FlattenSeq(s) \o rest, rest)
<1>1. CASE Len(s) = 0
  <2>. DEFINE tails == [i \in 0..0 |-> rest]
  <2>1. FlattenSeq(s) = s /\ s = <<>> /\ s \in Seq(Nat) /\ s \o rest = rest
    BY <1>1 DEF FlattenSeq
  <2>2. Splits(tails, s, 0, rest, rest)
    BY DEF Splits
  <2>. QED
    BY <1>1, <2>1, <2>2
<1>2. CASE Len(s) # 0
  <2>1. PICK flat : IsFlat(flat, s, Len(s)) /\ FlattenSeq(s) = flat[Len(s)]
    BY <1>2, FlattenSeqFlat
  <2>. DEFINE S == {k \in Nat : k + 1 <= Len(s) =>
                      /\ flat[k + 1] \in Seq(Nat)
                      /\ \A r \in Seq(Nat) : \E tails : Splits(tails, s, k + 1, flat[k + 1] \o r, r)}
  <2>2. 0 \in S
    <3>1. 1 \in 1..Len(s) /\ s[1] \in Seq(Nat)
      BY <1>2
    <3>2. flat[1] = s[1]
      BY <2>1, <3>1 DEF IsFlat
    <3>3. ASSUME NEW r \in Seq(Nat) PROVE \E tails : Splits(tails, s, 1, flat[1] \o r, r)
      <4>. DEFINE first == [i \in 0..0 |-> s[1] \o r]
      <4>1. s[1] \o r \in Seq(Nat)
        BY <3>1, ConcatShape
      <4>4. first \in [0..0 -> Seq(Nat)] /\ first[0] = s[1] \o r
        BY <4>1
      <4>. HIDE DEF first
      <4>2. Splits(first, s, 0, s[1] \o r, s[0 + 1] \o r)
        <5>1. 0 + 1 = 1 /\ 1..0 = {}
          OBVIOUS
        <5>. QED
          BY <4>4, <5>1, Zenon DEF Splits
      <4>3. \E tails : Splits(tails, s, 0 + 1, s[1] \o r, r)
        <5>1. 0 \in Nat /\ s[0 + 1] \in Seq(Nat)
          BY <3>1
        <5>. QED
          BY <4>2, <5>1, SplitOneMore
      <4>. QED
        BY <3>2, <4>3
    <3>. QED
      BY <3>1, <3>2, <3>3
  <2>3. ASSUME NEW k \in Nat, k \in S PROVE k + 1 \in S
    <3>1. SUFFICES ASSUME (k + 1) + 1 <= Len(s)
                   PROVE  /\ flat[(k + 1) + 1] \in Seq(Nat)
                          /\ \A r \in Seq(Nat) : \E tails :
                               Splits(tails, s, (k + 1) + 1, flat[(k + 1) + 1] \o r, r)
      OBVIOUS
    <3>. DEFINE j == k + 1
    <3>2. j \in Nat /\ j + 1 \in 1..Len(s) /\ j + 1 # 1 /\ (j + 1) - 1 = j /\ j <= Len(s)
      BY <3>1
    <3>3. s[j + 1] \in Seq(Nat)
      BY <3>2
    <3>4. flat[j + 1] = flat[j] \o s[j + 1]
      BY <2>1, <3>2 DEF IsFlat
    <3>5. /\ flat[j] \in Seq(Nat)
          /\ \A r \in Seq(Nat) : \E tails : Splits(tails, s, j, flat[j] \o r, r)
      BY <2>3, <3>2
    <3>. HIDE DEF j
    <3>6. flat[j + 1] \in Seq(Nat)
      BY <3>3, <3>4, <3>5, ConcatShape
    <3>7. ASSUME NEW r \in Seq(Nat)
          PROVE  \E tails : Splits(tails, s, j + 1, flat[j + 1] \o r, r)
      <4>1. s[j + 1] \o r \in Seq(Nat)
        BY <3>3, ConcatShape
      <4>2. PICK tails : Splits(tails, s, j, flat[j] \o (s[j + 1] \o r), s[j + 1] \o r)
        BY <3>5, <4>1
      <4>3. flat[j] \o (s[j + 1] \o r) = flat[j + 1] \o r
        <5>1. (flat[j] \o s[j + 1]) \o r = flat[j] \o (s[j + 1] \o r)
          <6>1. flat[j] \in Seq(Nat)
            BY <3>5, Zenon
          <6>. QED
            BY <3>3, <6>1, BytesAssociative, Zenon
        <5>. QED
          BY <3>4, <5>1, Zenon
      <4>. QED
        BY <3>2, <3>3, <4>2, <4>3, SplitOneMore
    <3>. QED
      BY <3>6, <3>7 DEF j
  <2>. HIDE DEF S
  <2>4. Nat \subseteq S
    BY <2>2, <2>3, Induction
  <2>5. Len(s) - 1 \in S /\ (Len(s) - 1) + 1 = Len(s)
    BY <1>2, <2>4
  <2>. QED
    BY <2>1, <2>5 DEF S
<1>. QED
  BY <1>1, <1>2

-----------------------------------------------------------------------------
(* The table of calls *)

Kinds == {"num", "tag", "opt", "role", "addr", "list", "members", "call", "calls", "rtcall"}

(* A kind of field whose decoder stops where the field ends. *)
Bounded == Kinds \ {"call", "calls"}

(* A field that reads the rest of the input is the last one; only AsMulti    *)
(* decodes a RuntimeCall inside.                                            *)
Regular(t) ==
  /\ t.pallet \in Nat /\ t.variant \in Nat
  /\ t.fields \in Seq(Kinds)
  /\ \A i \in 1..Len(t.fields) - 1 : t.fields[i] \in Bounded
  /\ \A i \in 1..Len(t.fields) : t.fields[i] = "rtcall" => t.name = "multisig.AsMulti"

(* The calls of S are of pallet p and have the variants V, each once. *)
Numbered(S, p, V) ==
  /\ \A t \in S : t.pallet = p /\ t.variant \in V
  /\ \A t, u \in S : t.variant = u.variant => t = u

LEMMA NumberedTogether ==
  ASSUME NEW A, NEW B, NEW p, NEW V, NEW W, V \cap W = {}, Numbered(A, p, V), Numbered(B, p, W)
  PROVE  Numbered(A \union B, p, V \union W)
BY DEF Numbered

(* The fields of every call are regular, and no header is used twice, by the *)
(* calls of one pallet or of two.                                           *)
LEMMA TableRegular ==
  /\ \A t \in CallTypes : Regular(t)
  /\ \A t, u \in CallTypes : Header(t) = Header(u) => t = u
<1>1. (\A t \in SystemCalls : Regular(t)) /\ Numbered(SystemCalls, 0, {0, 2, 3, 7})
  BY DEF SystemCalls, T, Regular, Kinds, Bounded, Numbered
<1>2. (\A t \in UtilityCalls : Regular(t)) /\ Numbered(UtilityCalls, 1, {0, 2, 4})
  BY DEF UtilityCalls, T, Regular, Kinds, Bounded, Numbered
<1>3. (\A t \in TimestampCalls : Regular(t)) /\ Numbered(TimestampCalls, 3, {0})
  BY DEF TimestampCalls, T, Regular, Kinds, Bounded, Numbered
<1>4. (\A t \in BalancesCalls : Regular(t)) /\ Numbered(BalancesCalls, 6, {0, 3, 4})
  BY DEF BalancesCalls, T, Regular, Kinds, Bounded, Numbered
<1>5. (\A t \in StakingCalls : Regular(t)) /\ Numbered(StakingCalls, 10, {0, 1, 2, 19, 4, 5})
  BY DEF StakingCalls, T, Regular, Kinds, Bounded, Numbered
<1>6. (\A t \in StakingAccountCalls : Regular(t)) /\ Numbered(StakingAccountCalls, 10, {23, 18, 8, 7, 6, 3})
  BY DEF StakingAccountCalls, T, Regular, Kinds, Bounded, Numbered
<1>7. (\A t \in StakingStashCalls : Regular(t)) /\ Numbered(StakingStashCalls, 10, {20, 21, 24, 26})
  BY DEF StakingStashCalls, T, Regular, Kinds, Bounded, Numbered
<1>8. (\A t \in SessionCalls : Regular(t)) /\ Numbered(SessionCalls, 11, {0, 1})
  BY DEF SessionCalls, T, Regular, Kinds, Bounded, Numbered
<1>9. (\A t \in DataAvailabilityCalls : Regular(t)) /\ Numbered(DataAvailabilityCalls, 29, {0, 1, 5})
  BY DEF DataAvailabilityCalls, T, Regular, Kinds, Bounded, Numbered
<1>10. (\A t \in MultisigCalls : Regular(t)) /\ Numbered(MultisigCalls, 34, {0, 1, 2, 3})
  BY DEF MultisigCalls, T, Regular, Kinds, Bounded, Numbered
<1>11. (\A t \in PoolMemberCalls : Regular(t)) /\ Numbered(PoolMemberCalls, 36, {1, 14, 13, 20, 2, 16, 6, 7})
  BY DEF PoolMemberCalls, T, Regular, Kinds, Bounded, Numbered
<1>12. (\A t \in PoolAdminCalls : Regular(t)) /\ Numbered(PoolAdminCalls, 36, {0, 8, 15, 17, 19, 18, 10})
  BY DEF PoolAdminCalls, T, Regular, Kinds, Bounded, Numbered
<1>13. (\A t \in PoolStateCalls : Regular(t)) /\ Numbered(PoolStateCalls, 36, {9, 3, 12, 5})
  BY DEF PoolStateCalls, T, Regular, Kinds, Bounded, Numbered
<1>14. (\A t \in VectorCalls : Regular(t)) /\ Numbered(VectorCalls, 39, {0, 1, 2, 3, 4, 5, 6})
  BY DEF VectorCalls, T, Regular, Kinds, Bounded, Numbered
<1>15. (\A t \in VectorMoreCalls : Regular(t)) /\ Numbered(VectorMoreCalls, 39, {7, 8, 9, 10, 12, 13})
  BY DEF VectorMoreCalls, T, Regular, Kinds, Bounded, Numbered
<1>16. (\A t \in VectorMockCalls : Regular(t)) /\ Numbered(VectorMockCalls, 39, {14, 15, 16, 17, 11})
  BY DEF VectorMockCalls, T, Regular, Kinds, Bounded, Numbered
<1>17. (\A t \in ProxyCalls : Regular(t)) /\ Numbered(ProxyCalls, 40, {0, 1, 2, 3, 4, 5})
  BY DEF ProxyCalls, T, Regular, Kinds, Bounded, Numbered
<1>. DEFINE Staking == StakingCalls \union StakingAccountCalls \union StakingStashCalls
            Pools   == PoolMemberCalls \union PoolAdminCalls \union PoolStateCalls
            Vector  == VectorCalls \union VectorMoreCalls \union VectorMockCalls
<1>18. \E V : Numbered(Staking, 10, V)
  <2>1. Numbered(StakingCalls \union StakingAccountCalls, 10,
                 {0, 1, 2, 19, 4, 5} \union {23, 18, 8, 7, 6, 3})
    BY <1>5, <1>6, NumberedTogether
  <2>2. Numbered(Staking, 10,
                 {0, 1, 2, 19, 4, 5} \union {23, 18, 8, 7, 6, 3}
                 \union {20, 21, 24, 26})
    BY <1>7, <2>1, NumberedTogether
  <2>. QED
    BY <2>2
<1>19. \E V : Numbered(Pools, 36, V)
  <2>1. Numbered(PoolMemberCalls \union PoolAdminCalls, 36,
                 {1, 14, 13, 20, 2, 16, 6, 7} \union {0, 8, 15, 17, 19, 18, 10})
    BY <1>11, <1>12, NumberedTogether
  <2>2. Numbered(Pools, 36,
                 {1, 14, 13, 20, 2, 16, 6, 7} \union {0, 8, 15, 17, 19, 18, 10}
                 \union {9, 3, 12, 5})
    BY <1>13, <2>1, NumberedTogether
  <2>. QED
    BY <2>2
<1>20. \E V : Numbered(Vector, 39, V)
  <2>1. Numbered(VectorCalls \union VectorMoreCalls, 39,
                 {0, 1, 2, 3, 4, 5, 6} \union {7, 8, 9, 10, 12, 13})
    BY <1>14, <1>15, NumberedTogether
  <2>2. Numbered(Vector, 39,
                 {0, 1, 2, 3, 4, 5, 6} \union {7, 8, 9, 10, 12, 13}
                 \union {14, 15, 16, 17, 11})
    BY <1>16, <2>1, NumberedTogether
  <2>. QED
    BY <2>2
<1>21. \A t \in CallTypes : Regular(t)
  BY <1>1, <1>2, <1>3, <1>4, <1>5, <1>6, <1>7, <1>8,
     <1>9, <1>10, <1>11, <1>12, <1>13, <1>14, <1>15, <1>16, <1>17 DEF CallTypes, RuntimeCalls
<1>22. ASSUME NEW t \in CallTypes, NEW u \in CallTypes, Header(t) = Header(u) PROVE t = u
  <2>1. t.pallet = u.pallet /\ t.variant = u.variant
    BY <1>22 DEF Header
  <2>2. \A c \in CallTypes :
          c \in UNION {SystemCalls, UtilityCalls, TimestampCalls, BalancesCalls, Staking,
                        SessionCalls, DataAvailabilityCalls, MultisigCalls, Pools, Vector,
                        ProxyCalls}
    BY DEF CallTypes, RuntimeCalls
  <2>. HIDE DEF Staking, Pools, Vector
  <2>. QED
    BY <1>1, <1>2, <1>3, <1>4, <1>8, <1>9, <1>10, <1>17,
       <1>18, <1>19, <1>20, <2>1, <2>2 DEF Numbered
<1>. QED
  BY <1>21, <1>22

-----------------------------------------------------------------------------
(* A field reads back *)

(* The bytes of a field, as Encode writes them. *)
WellFormed(kind, v) ==
  /\ v \in Seq(Nat)
  /\ kind \in {"call", "rtcall"} => Len(v) >= 2
  /\ kind \in {"num", "tag"} => Len(v) = 1
  /\ kind \in {"tag", "opt"} => v[1] <= 1
  /\ kind = "role" => v[1] \in {1, 2} /\ Len(v) \in {1, 2} /\ (v[1] = 2 => Len(v) = 1)
  /\ kind = "addr" => Len(v) = 2 /\ v[1] <= 4
  /\ kind \in {"opt", "list", "members"} => Len(v) >= 1 /\ Len(v) = 1 + v[1]

(* The bytes are read as what they were written for. *)
Readable(kind, v) == kind = "role" => v # NoopRole

(* Tag 1 then has an account behind it. *)
LEMMA ReadableRole ==
  ASSUME NEW v, WellFormed("role", v), Readable("role", v)
  PROVE  v \in Seq(Nat) /\ v[1] \in {1, 2} /\ Len(v) = 3 - v[1] /\ v # <<0>>
<1>1. v \in Seq(Nat) /\ v[1] \in {1, 2} /\ Len(v) \in {1, 2} /\ (v[1] = 2 => Len(v) = 1)
  BY DEF WellFormed
<1>2. ASSUME Len(v) = 1, v[1] = 1 PROVE FALSE
  <2>1. v = <<1>>
    BY <1>1, <1>2
  <2>. QED
    BY <2>1 DEF Readable, NoopRole
<1>3. Len(v) = 3 - v[1]
  <2>1. CASE v[1] = 1
    BY <1>1, <1>2, <2>1
  <2>2. CASE v[1] = 2
    BY <1>1, <2>2
  <2>. QED
    BY <1>1, <2>1, <2>2
<1>4. <<0>>[1] = 0
  OBVIOUS
<1>. QED
  BY <1>1, <1>3, <1>4

LEMMA ConcatParts ==
  ASSUME NEW v \in Seq(Nat), NEW rest \in Seq(Nat)
  PROVE  /\ v \o rest \in Seq(Nat)
         /\ Len(v \o rest) = Len(v) + Len(rest)
         /\ SubSeq(v \o rest, 1, Len(v)) = v
         /\ SubSeq(v \o rest, Len(v) + 1, Len(v \o rest)) = rest
         /\ Len(v) >= 1 => (v \o rest)[1] = v[1] /\ v \o rest # <<>>
<1>1. /\ v \o rest \in Seq(Nat) /\ Len(v \o rest) = Len(v) + Len(rest)
      /\ \A i \in 1..Len(v) : (v \o rest)[i] = v[i]
      /\ \A i \in 1..Len(rest) : (v \o rest)[Len(v) + i] = rest[i]
  OBVIOUS
<1>2. SubSeq(v \o rest, 1, Len(v)) = v
  OBVIOUS
<1>3. SubSeq(v \o rest, Len(v) + 1, Len(v \o rest)) = rest
  OBVIOUS
<1>4. Len(v) >= 1 => (v \o rest)[1] = v[1] /\ v \o rest # <<>>
  BY <1>1
<1>. QED
  BY <1>1, <1>2, <1>3, <1>4

(* Where a field begins, its decoder takes it and no more. *)
LEMMA WidthOfField ==
  ASSUME NEW kind \in Bounded \ {"rtcall"}, NEW v, WellFormed(kind, v), Readable(kind, v),
         NEW rest \in Seq(Nat)
  PROVE  Width(kind, v \o rest) = Len(v)
<1>1. v \in Seq(Nat) /\ Len(v) >= 1 /\ v[1] \in Nat
  BY ReadableRole DEF WellFormed, Bounded, Kinds
<1>2. (v \o rest)[1] = v[1] /\ v \o rest # <<>>
  BY <1>1, ConcatParts
<1>3. CASE kind = "num"
  BY <1>2, <1>3 DEF Width, WellFormed
<1>4. CASE kind = "tag"
  BY <1>2, <1>4 DEF Width, WellFormed
<1>5. CASE kind = "opt"
  BY <1>2, <1>5 DEF Width, WellFormed
<1>6. CASE kind = "addr"
  BY <1>2, <1>6 DEF Width, WellFormed
<1>7. CASE kind \in {"list", "members"}
  BY <1>2, <1>7 DEF Width, WellFormed
<1>8. CASE kind = "role"
  <2>1. v[1] \in {1, 2} /\ Len(v) = 3 - v[1]
    BY <1>8, ReadableRole
  <2>2. <<1, 2, 1>>[v[1] + 1] = 3 - v[1]
    BY <2>1
  <2>3. Width("role", v \o rest) = IF v[1] <= 2 THEN <<1, 2, 1>>[v[1] + 1] ELSE -1
    BY <1>2 DEF Width
  <2>. QED
    BY <1>8, <2>1, <2>2, <2>3
<1>. QED
  BY <1>3, <1>4, <1>5, <1>6, <1>7, <1>8 DEF Bounded, Kinds

LEMMA FieldReads ==
  ASSUME NEW kind \in Bounded \ {"rtcall"}, NEW v, WellFormed(kind, v), Readable(kind, v),
         NEW rest \in Seq(Nat)
  PROVE  ReadPlain(kind, v \o rest) = Ok(v, rest)
<1>1. v \in Seq(Nat) /\ Len(v) \in Nat
  BY DEF WellFormed
<1>2. Width(kind, v \o rest) = Len(v)
  BY WidthOfField
<1>3. Len(v) \in 0..Len(v \o rest)
  BY <1>1, ConcatParts
<1>4. /\ SubSeq(v \o rest, 1, Len(v)) = v
      /\ SubSeq(v \o rest, Len(v) + 1, Len(v \o rest)) = rest
  BY <1>1, ConcatParts
<1>5. Rewritten(kind, v) = v
  BY ReadableRole DEF Rewritten
<1>. QED
  BY <1>2, <1>3, <1>4, <1>5, Zenon DEF ReadPlain

(* A field without an end takes what follows it for its own. *)
LEMMA GreedyReads ==
  ASSUME NEW kind \in {"call", "calls"}, NEW v, WellFormed(kind, v), NEW rest \in Seq(Nat)
  PROVE  ReadPlain(kind, v \o rest) = Ok(v \o rest, <<>>)
<1>. DEFINE x == v \o rest
<1>1. v \in Seq(Nat) /\ (kind = "call" => Len(v) >= 2)
  BY DEF WellFormed
<1>2. x \in Seq(Nat) /\ Len(x) \in Nat /\ Len(x) >= Len(v)
  BY <1>1, ConcatShape
<1>. HIDE DEF x
<1>3. Width(kind, x) = Len(x)
  BY <1>1, <1>2 DEF Width
<1>4. SubSeq(x, 1, Len(x)) = x /\ SubSeq(x, Len(x) + 1, Len(x)) = <<>> /\ Len(x) \in 0..Len(x)
  BY <1>2
<1>5. Rewritten(kind, x) = x
  BY DEF Rewritten
<1>6. ReadPlain(kind, x) = Ok(x, <<>>)
  BY <1>3, <1>4, <1>5, Zenon DEF ReadPlain
<1>. QED
  BY <1>6 DEF x

-----------------------------------------------------------------------------
(* A call reads back *)

(* A call with its fields encoded. *)
IsCall(c) ==
  /\ c.type \in CallTypes /\ c.args \in Seq(Seq(Nat))
  /\ c = [type |-> c.type, args |-> c.args]
  /\ Len(c.args) = Len(c.type.fields)
  /\ \A i \in 1..Len(c.args) : WellFormed(c.type.fields[i], c.args[i])

(* What a reader makes of a call followed by rest: the call, and rest is     *)
(* left, unless the call has a last field without an end, which takes rest. *)
Takes(result, c, rest) ==
  \E v : /\ Greedy(c) /\ rest = <<>> => v = c
         /\ ~ Greedy(c) => v = c
         /\ result = Ok(v, IF Greedy(c) THEN <<>> ELSE rest)

LEMMA TakesNothing ==
  ASSUME NEW result, NEW c, NEW rest, rest = <<>>, Takes(result, c, rest)
  PROVE  result = Ok(c, <<>>)
<1>1. PICK v : /\ Greedy(c) /\ rest = <<>> => v = c
               /\ ~ Greedy(c) => v = c
               /\ result = Ok(v, IF Greedy(c) THEN <<>> ELSE rest)
  BY Zenon DEF Takes
<1>2. v = c
  BY <1>1, Zenon
<1>3. (IF Greedy(c) THEN <<>> ELSE rest) = <<>>
  OBVIOUS
<1>. QED
  BY <1>1, <1>2, <1>3, Zenon

(* The fields of a call are read in that way. *)
LEMMA FieldsRead ==
  ASSUME NEW c, IsCall(c), Exact(c), NEW rest \in Seq(Nat), NEW nested
  PROVE  /\ FieldBytes(c) \in Seq(Nat)
         /\ Takes(ReadAs(c.type, FieldBytes(c) \o rest, nested), c, rest)
<1>. DEFINE fields == c.type.fields
            n == Len(c.args)
            readers == [i \in 1..n |-> FieldReader(fields[i], nested)]
            values == [i \in 1..n |-> IF i = n /\ Greedy(c) THEN c.args[i] \o rest ELSE c.args[i]]
            left == IF Greedy(c) THEN <<>> ELSE rest
<1>1. /\ c.args \in Seq(Seq(Nat)) /\ n \in Nat /\ Len(fields) = n
      /\ fields \in Seq(Kinds)
      /\ \A i \in 1..n : /\ fields[i] \in Kinds \ {"rtcall"}
                         /\ WellFormed(fields[i], c.args[i]) /\ Readable(fields[i], c.args[i])
      /\ \A i \in 1..n - 1 : fields[i] \in Bounded
  BY TableRegular DEF IsCall, Regular, Exact, Readable
<1>2. /\ n # 0 => (fields[n] \notin Bounded <=> Greedy(c))
      /\ Greedy(c) => n # 0
  BY <1>1 DEF Greedy, Last, Bounded
<1>3. FieldBytes(c) \in Seq(Nat)
  BY <1>1, FlattenSplits DEF FieldBytes
<1>4. PICK old : Splits(old, c.args, n, FieldBytes(c) \o rest, rest)
  BY <1>1, FlattenSplits DEF FieldBytes
<1>. DEFINE tails == [i \in 0..n |-> IF i = n THEN left ELSE old[i]]
<1>5. ASSUME NEW i \in 1..n
      PROVE  readers[i][tails[i - 1]] = Ok(values[i], tails[i])
  <2>1. /\ old[i - 1] \in Seq(Nat) /\ old[i] \in Seq(Nat)
        /\ old[i - 1] = c.args[i] \o old[i] /\ old[n] = rest
    <3>1. i - 1 \in 0..n /\ i \in 0..n
      BY <1>1
    <3>. QED
      BY <1>4, <3>1 DEF Splits
  <2>2. tails[i - 1] = old[i - 1]
    BY <1>1
  <2>3. readers[i][old[i - 1]] = ReadPlain(fields[i], old[i - 1])
    <3>1. fields[i] # "rtcall"
      BY <1>1
    <3>. QED
      BY <2>1, <3>1 DEF FieldReader
  <2>4. CASE i = n /\ Greedy(c)
    <3>1. fields[i] \in {"call", "calls"} /\ old[i] = rest
      BY <1>1, <1>2, <2>1, <2>4 DEF Bounded
    <3>2. values[i] = c.args[i] \o rest /\ tails[i] = <<>>
      <4>1. i \in 0..n /\ i = n /\ Greedy(c)
        BY <1>1, <2>4
      <4>2. values[i] = c.args[i] \o rest
        BY <4>1
      <4>3. tails[i] = left /\ left = <<>>
        BY <4>1
      <4>. QED
        BY <4>2, <4>3
    <3>3. ReadPlain(fields[i], c.args[i] \o rest) = Ok(c.args[i] \o rest, <<>>)
      BY <1>1, <3>1, GreedyReads
    <3>. QED
      BY <2>1, <2>2, <2>3, <3>1, <3>2, <3>3
  <2>5. CASE ~ (i = n /\ Greedy(c))
    <3>1. fields[i] \in Bounded \ {"rtcall"}
      <4>1. fields[i] # "rtcall"
        BY <1>1
      <4>2. CASE i = n
        <5>1. ~ Greedy(c) /\ n # 0
          BY <2>5, <4>2
        <5>. QED
          BY <1>2, <4>1, <4>2, <5>1
      <4>3. CASE i # n
        <5>1. i \in 1..n - 1
          BY <1>1, <4>3
        <5>. QED
          BY <1>1, <4>1, <5>1
      <4>. QED
        BY <4>2, <4>3
    <3>2. values[i] = c.args[i] /\ tails[i] = old[i]
      BY <1>1, <2>1, <2>5
    <3>3. ReadPlain(fields[i], c.args[i] \o old[i]) = Ok(c.args[i], old[i])
      BY <1>1, <2>1, <3>1, FieldReads
    <3>. QED
      BY <2>1, <2>2, <2>3, <3>2, <3>3
  <2>. QED
    BY <2>4, <2>5
<1>6. Len(readers) = n /\ tails[0] = FieldBytes(c) \o rest /\ tails[n] = left
  <2>1. n = 0 => left = rest
    BY <1>2
  <2>2. old[0] = FieldBytes(c) \o rest /\ old[n] = rest
    BY <1>4 DEF Splits
  <2>3. tails[0] = IF 0 = n THEN left ELSE old[0]
    BY <1>1
  <2>4. tails[n] = left /\ Len(readers) = n
    BY <1>1
  <2>. HIDE DEF n, tails, left, readers
  <2>. QED
    BY <2>1, <2>2, <2>3, <2>4, Zenon
<1>7. values \in Seq(Seq(Nat)) /\ Len(values) = n
  <2>1. \A i \in 1..n : c.args[i] \in Seq(Nat) /\ c.args[i] \o rest \in Seq(Nat)
    BY <1>1, ConcatShape
  <2>. QED
    BY <1>1, <2>1
<1>8. Greedy(c) /\ rest = <<>> => values = c.args
  BY <1>1
<1>9. ~ Greedy(c) => values = c.args
  BY <1>1
<1>. HIDE DEF readers, values, tails, left
<1>10. ReadAll(readers, tails[0]) = Ok(values, tails[n])
  <2>1. Reads(readers, values, tails, n)
    BY <1>5 DEF Reads
  <2>2. n \in Nat
    BY <1>1
  <2>. HIDE DEF n
  <2>3. Len(readers) = n /\ Len(values) = n
    BY <1>6, <1>7
  <2>. QED
    BY <1>7, <2>1, <2>2, <2>3, ReadsEach
<1>11. ReadAs(c.type, FieldBytes(c) \o rest, nested)
        = Ok([type |-> c.type, args |-> values], left)
  <2>1. readers = [i \in 1..Len(c.type.fields) |-> FieldReader(c.type.fields[i], nested)]
    BY <1>1 DEF readers
  <2>2. ReadAll(readers, FieldBytes(c) \o rest) = Ok(values, left)
    BY <1>6, <1>10
  <2>3. Ok(values, left).ok /\ Ok(values, left).value = values /\ Ok(values, left).rest = left
    BY DEF Ok
  <2>. QED
    BY <2>1, <2>2, <2>3, Zenon DEF ReadAs
<1>. DEFINE v == [type |-> c.type, args |-> values]
<1>12. (Greedy(c) /\ rest = <<>> => v = c) /\ (~ Greedy(c) => v = c)
  BY <1>8, <1>9 DEF IsCall
<1>. QED
  BY <1>3, <1>11, <1>12 DEF left, Takes

(* The header of a call tells its type. *)
LEMMA HeaderRead ==
  ASSUME NEW c, c.type \in CallTypes, FieldBytes(c) \in Seq(Nat), NEW rest \in Seq(Nat)
  PROVE  /\ Bytes(c) \in Seq(Nat) /\ Len(Bytes(c)) >= 2
         /\ Len(Bytes(c) \o rest) >= 2
         /\ \A t \in CallTypes : HasHeader(t, Bytes(c) \o rest) <=> t = c.type
         /\ SubSeq(Bytes(c) \o rest, 3, Len(Bytes(c) \o rest)) = FieldBytes(c) \o rest
<1>. DEFINE h == Header(c.type)
            x == FieldBytes(c) \o rest
<1>1. h \in Seq(Nat) /\ Len(h) = 2
  BY TableRegular DEF Header, Regular
<1>2. x \in Seq(Nat) /\ Bytes(c) \in Seq(Nat) /\ Len(Bytes(c)) >= 2
  <2>1. h \o FieldBytes(c) \in Seq(Nat) /\ Len(h \o FieldBytes(c)) = Len(h) + Len(FieldBytes(c))
    BY <1>1, ConcatShape
  <2>2. x \in Seq(Nat) /\ Len(FieldBytes(c)) \in Nat
    BY ConcatShape
  <2>. QED
    BY <1>1, <2>1, <2>2 DEF Bytes
<1>3. Bytes(c) \o rest = h \o x
  BY <1>1, BytesAssociative DEF Bytes
<1>. HIDE DEF h, x
<1>4. /\ SubSeq(h \o x, 1, 2) = h /\ SubSeq(h \o x, 3, Len(h \o x)) = x
      /\ Len(h \o x) >= 2
  <2>1. /\ SubSeq(h \o x, 1, Len(h)) = h /\ SubSeq(h \o x, Len(h) + 1, Len(h \o x)) = x
        /\ Len(h \o x) = Len(h) + Len(x)
    BY <1>1, <1>2, ConcatParts, Zenon
  <2>2. Len(x) \in Nat
    BY <1>2
  <2>. QED
    BY <1>1, <2>1, <2>2
<1>5. \A t \in CallTypes : HasHeader(t, Bytes(c) \o rest) <=> t = c.type
  BY <1>3, <1>4, TableRegular DEF HasHeader, h
<1>. QED
  BY <1>2, <1>3, <1>4, <1>5 DEF x

-----------------------------------------------------------------------------
(* RuntimeCall::decode *)

(* reader[depth] reads calls that hold fewer than depth calls. *)
IsReader(reader, n) ==
  reader = [depth \in 0..n |->
              [bytes \in Seq(Nat) |->
                 IF depth = 0 THEN Err ELSE ReadVariant(bytes, reader[depth - 1])]]

LEMMA ReaderExists ==
  ASSUME NEW n \in Nat
  PROVE  \E reader : IsReader(reader, n)
<1>. DEFINE S == {k \in Nat : \E reader : IsReader(reader, k)}
<1>1. 0 \in S
  <2>. DEFINE reader == [depth \in 0..0 |-> [bytes \in Seq(Nat) |-> Err]]
  <2>1. IsReader(reader, 0)
    BY DEF IsReader
  <2>. QED
    BY <2>1
<1>2. ASSUME NEW k \in Nat, k \in S PROVE k + 1 \in S
  <2>1. PICK old : IsReader(old, k)
    BY <1>2
  <2>. DEFINE deeper == [bytes \in Seq(Nat) |-> ReadVariant(bytes, old[k])]
              reader == [depth \in 0..k + 1 |-> IF depth = k + 1 THEN deeper ELSE old[depth]]
  <2>2. ASSUME NEW d \in 0..k + 1
        PROVE  reader[d] = [bytes \in Seq(Nat) |->
                              IF d = 0 THEN Err ELSE ReadVariant(bytes, reader[d - 1])]
    <3>1. CASE d = k + 1
      <4>1. reader[d] = deeper /\ reader[d - 1] = old[k] /\ d # 0
        BY <3>1
      <4>. QED
        BY <4>1
    <3>2. CASE d # k + 1
      <4>1. d \in 0..k /\ reader[d] = old[d] /\ (d # 0 => reader[d - 1] = old[d - 1])
        BY <3>2
      <4>2. old[d] = [bytes \in Seq(Nat) |->
                        IF d = 0 THEN Err ELSE ReadVariant(bytes, old[d - 1])]
        BY <2>1, <4>1 DEF IsReader
      <4>. QED
        BY <4>1, <4>2
    <3>. QED
      BY <3>1, <3>2
  <2>3. IsReader(reader, k + 1)
    BY <2>2 DEF IsReader
  <2>. QED
    BY <2>3
<1>. HIDE DEF S
<1>3. Nat \subseteq S
  BY <1>1, <1>2, Induction
<1>. QED
  BY <1>3 DEF S

LEMMA RuntimeReaderReads ==
  ASSUME NEW in \in Seq(Nat)
  PROVE  IF in = <<>> THEN RuntimeReader[in] = Err
         ELSE \E nested : RuntimeReader[in] = ReadVariant(in, nested)
<1>. DEFINE n == Len(in)
            reader == CHOOSE r : IsReader(r, n)
<1>1. n \in Nat /\ (n = 0 <=> in = <<>>)
  OBVIOUS
<1>2. IsReader(reader, n)
  BY <1>1, ReaderExists
<1>3. RuntimeReader[in] = reader[n][in]
  BY DEF RuntimeReader, IsReader
<1>. HIDE DEF reader, n
<1>4. reader[n] = [bytes \in Seq(Nat) |->
                     IF n = 0 THEN Err ELSE ReadVariant(bytes, reader[n - 1])]
  <2>1. n \in 0..n
    BY <1>1
  <2>. QED
    BY <1>2, <2>1, Zenon DEF IsReader
<1>5. reader[n][in] = IF n = 0 THEN Err ELSE ReadVariant(in, reader[n - 1])
  BY <1>4
<1>. QED
  BY <1>1, <1>3, <1>5

(* The header chooses the type that wrote it, if it is one of RuntimeCall. *)
LEMMA RuntimeCallReads ==
  ASSUME NEW c, IsCall(c), Exact(c), NEW rest \in Seq(Nat)
  PROVE  /\ c.type \notin RuntimeCalls => RuntimeReader[Bytes(c) \o rest] = Err
         /\ c.type \in RuntimeCalls => Takes(RuntimeReader[Bytes(c) \o rest], c, rest)
<1>. DEFINE in == Bytes(c) \o rest
<1>1. c.type \in CallTypes /\ FieldBytes(c) \in Seq(Nat)
  BY FieldsRead DEF IsCall
<1>2. /\ in \in Seq(Nat) /\ in # <<>>
      /\ \A t \in CallTypes : HasHeader(t, in) <=> t = c.type
      /\ SubSeq(in, 3, Len(in)) = FieldBytes(c) \o rest
  <2>1. /\ Bytes(c) \in Seq(Nat) /\ Len(in) >= 2
        /\ \A t \in CallTypes : HasHeader(t, in) <=> t = c.type
        /\ SubSeq(in, 3, Len(in)) = FieldBytes(c) \o rest
    BY <1>1, HeaderRead, Zenon
  <2>2. in \in Seq(Nat)
    BY <2>1, ConcatShape
  <2>. HIDE DEF in
  <2>3. in # <<>>
    BY <2>1, <2>2
  <2>. QED
    BY <2>1, <2>2, <2>3
<1>. HIDE DEF in
<1>3. PICK nested : RuntimeReader[in] = ReadVariant(in, nested)
  BY <1>2, RuntimeReaderReads
<1>4. RuntimeCalls \subseteq CallTypes
  BY DEF CallTypes
<1>5. CASE c.type \notin RuntimeCalls
  BY <1>2, <1>3, <1>4, <1>5 DEF ReadVariant, in
<1>6. CASE c.type \in RuntimeCalls
  <2>1. (CHOOSE t \in RuntimeCalls : HasHeader(t, in)) = c.type
    BY <1>2, <1>4, <1>6
  <2>2. RuntimeReader[in] = ReadAs(c.type, FieldBytes(c) \o rest, nested)
    BY <1>2, <1>3, <1>4, <1>6, <2>1 DEF ReadVariant
  <2>. QED
    BY <1>6, <2>2, FieldsRead DEF in
<1>. QED
  BY <1>5, <1>6

(* T::from_call reads what T wrote, and no other type's. *)
LEMMA FromCallReads ==
  ASSUME NEW c, IsCall(c), Exact(c), NEW t \in CallTypes
  PROVE  FromCall(t, Bytes(c)) = IF t = c.type THEN Ok(c, <<>>) ELSE Err
<1>1. c.type \in CallTypes /\ <<>> \in Seq(Nat)
  BY DEF IsCall
<1>2. Takes(ReadAs(c.type, FieldBytes(c) \o <<>>, RuntimeReader), c, <<>>)
  BY <1>1, FieldsRead, Zenon
<1>3. FieldBytes(c) \in Seq(Nat)
  BY <1>1, FieldsRead, Zenon
<1>4. /\ Bytes(c) \in Seq(Nat)
      /\ HasHeader(t, Bytes(c) \o <<>>) <=> t = c.type
      /\ SubSeq(Bytes(c) \o <<>>, 3, Len(Bytes(c) \o <<>>)) = FieldBytes(c) \o <<>>
  BY <1>1, <1>3, HeaderRead, Zenon
<1>5. Bytes(c) \o <<>> = Bytes(c)
  BY <1>4
<1>6. ReadAs(c.type, FieldBytes(c) \o <<>>, RuntimeReader) = Ok(c, <<>>)
  BY <1>2, TakesNothing
<1>7. ReadAs(c.type, SubSeq(Bytes(c), 3, Len(Bytes(c))), RuntimeReader) = Ok(c, <<>>)
  BY <1>4, <1>5, <1>6
<1>. QED
  BY <1>4, <1>5, <1>7, Zenon DEF FromCall

-----------------------------------------------------------------------------
(* The fields the program fills in *)

LEMMA SortedShape ==
  ASSUME NEW s \in {<<>>, <<10, 6>>, <<6, 10>>}
  PROVE  Sorted(s) \in Seq(Nat) /\ Len(Sorted(s)) = Len(s)
<1>. DEFINE D == DOMAIN s
            Orders == {[i \in D |-> s[p[i]]] : p \in Bijection(D, D)}
            InOrder(q) == \A i, j \in D : i < j => q[i] <= q[j]
<1>1. \E q \in Orders : InOrder(q)
  <2>1. CASE s = <<10, 6>>
    <3>. DEFINE p == [i \in D |-> 3 - i]
    <3>1. D = {1, 2}
      BY <2>1
    <3>. HIDE DEF D
    <3>2. p \in Bijection(D, D)
      BY <3>1 DEF Bijection, Injection, Surjection, IsInjective
    <3>3. InOrder([i \in D |-> s[p[i]]])
      BY <2>1, <3>1
    <3>. HIDE DEF p, InOrder
    <3>. QED
      BY <3>2, <3>3
  <2>2. CASE s # <<10, 6>>
    <3>. DEFINE p == [i \in D |-> i]
    <3>1. p \in Bijection(D, D)
      BY DEF Bijection, Injection, Surjection, IsInjective
    <3>2. InOrder([i \in D |-> s[p[i]]])
      BY <2>2
    <3>. QED
      BY <3>1, <3>2
  <2>. QED
    BY <2>1, <2>2
<1>2. Sorted(s) = CHOOSE q \in Orders : InOrder(q)
  BY DEF Sorted
<1>. HIDE DEF InOrder
<1>3. PICK p \in Bijection(D, D) : Sorted(s) = [i \in D |-> s[p[i]]]
  BY <1>1, <1>2
<1>4. p \in [D -> D]
  BY DEF Bijection, Injection
<1>5. D = 1..Len(s) /\ Len(s) \in Nat /\ \A i \in D : s[i] \in Nat
  OBVIOUS
<1>. HIDE DEF D
<1>6. [i \in D |-> s[p[i]]] \in [1..Len(s) -> Nat]
  BY <1>4, <1>5
<1>. QED
  BY <1>3, <1>5, <1>6

(* A leaf's field holds a well-formed value whichever sample is given. *)
LEMMA FieldWellFormed ==
  ASSUME NEW kind \in Bounded \ {"rtcall"}, NEW v \in Samples(kind)
  PROVE  WellFormed(kind, Field(kind, v))
<1>1. CASE kind = "members"
  <2>1. v \in {<<0>>, <<2, 10, 6>>, <<2, 6, 10>>}
    BY <1>1 DEF Samples
  <2>2. PICK s \in {<<>>, <<10, 6>>, <<6, 10>>} : Tail(v) = s /\ Head(v) = Len(s)
    <3>1. Tail(<<0>>) = <<>> /\ Tail(<<2, 10, 6>>) = <<10, 6>> /\ Tail(<<2, 6, 10>>) = <<6, 10>>
      OBVIOUS
    <3>2. Head(<<0>>) = Len(<<>>) /\ Head(<<2, 10, 6>>) = Len(<<10, 6>>)
          /\ Head(<<2, 6, 10>>) = Len(<<6, 10>>)
      OBVIOUS
    <3>. QED
      BY <2>1, <3>1, <3>2, Zenon
  <2>3. Sorted(s) \in Seq(Nat) /\ Len(Sorted(s)) = Head(v)
    BY <2>2, SortedShape
  <2>. DEFINE f == <<Head(v)>> \o Sorted(s)
  <2>4. Field(kind, v) = f
    BY <1>1, <2>2 DEF Field
  <2>5. Head(v) \in Nat
    BY <2>1
  <2>6. f \in Seq(Nat) /\ Len(f) = 1 + Head(v) /\ f[1] = Head(v)
    BY <2>3, <2>5
  <2>. HIDE DEF f
  <2>7. WellFormed("members", f)
    BY <2>5, <2>6 DEF WellFormed
  <2>. QED
    BY <1>1, <2>4, <2>7
<1>2. CASE kind # "members"
  <2>1. Field(kind, v) = v
    BY <1>2 DEF Field
  <2>2. CASE kind = "num"
    <3>1. v \in {<<6>>, <<10>>}
      BY <2>2 DEF Samples
    <3>2. v \in Seq(Nat) /\ Len(v) = 1
      <4>1. CASE v = <<6>>
        BY <4>1
      <4>2. CASE v = <<10>>
        BY <4>2
      <4>. QED
        BY <3>1, <4>1, <4>2
    <3>3. WellFormed("num", v)
      BY <3>2 DEF WellFormed
    <3>. QED
      BY <2>1, <2>2, <3>3
  <2>3. CASE kind = "tag"
    <3>1. v \in {<<0>>, <<1>>}
      BY <2>3 DEF Samples
    <3>2. v \in Seq(Nat) /\ Len(v) = 1 /\ v[1] <= 1
      <4>1. CASE v = <<0>>
        BY <4>1
      <4>2. CASE v = <<1>>
        BY <4>2
      <4>. QED
        BY <3>1, <4>1, <4>2
    <3>3. WellFormed("tag", v)
      BY <3>2 DEF WellFormed
    <3>. QED
      BY <2>1, <2>3, <3>3
  <2>4. CASE kind = "opt"
    <3>1. v \in {<<0>>, <<1, 6>>}
      BY <2>4 DEF Samples
    <3>2. v \in Seq(Nat) /\ Len(v) = 1 + v[1] /\ v[1] <= 1 /\ v[1] \in Nat
      <4>1. CASE v = <<0>>
        BY <4>1
      <4>2. CASE v = <<1, 6>>
        BY <4>2
      <4>. QED
        BY <3>1, <4>1, <4>2
    <3>3. WellFormed("opt", v)
      BY <3>2 DEF WellFormed
    <3>. QED
      BY <2>1, <2>4, <3>3
  <2>5. CASE kind = "addr"
    <3>1. v \in {<<0, 3>>}
      BY <2>5 DEF Samples
    <3>2. v \in Seq(Nat) /\ Len(v) = 2 /\ v[1] <= 4
      <4>1. CASE v = <<0, 3>>
        BY <4>1
      <4>. QED
        BY <3>1, <4>1
    <3>3. WellFormed("addr", v)
      BY <3>2 DEF WellFormed
    <3>. QED
      BY <2>1, <2>5, <3>3
  <2>6. CASE kind = "list"
    <3>1. v \in {<<0>>, <<2, 10, 6>>}
      BY <2>6 DEF Samples
    <3>2. v \in Seq(Nat) /\ Len(v) = 1 + v[1] /\ v[1] \in Nat
      <4>1. CASE v = <<0>>
        BY <4>1
      <4>2. CASE v = <<2, 10, 6>>
        BY <4>2
      <4>. QED
        BY <3>1, <4>1, <4>2
    <3>3. WellFormed("list", v)
      BY <3>2 DEF WellFormed
    <3>. QED
      BY <2>1, <2>6, <3>3
  <2>7. CASE kind = "role"
    <3>1. v \in {<<1>>, <<1, 6>>, <<2>>}
      BY <2>7 DEF Samples, NoopRole
    <3>2. v \in Seq(Nat) /\ v[1] \in {1, 2} /\ Len(v) \in {1, 2} /\ (v[1] = 2 => Len(v) = 1)
      <4>1. CASE v = <<1>>
        BY <4>1
      <4>2. CASE v = <<1, 6>>
        BY <4>2
      <4>3. CASE v = <<2>>
        BY <4>3
      <4>. QED
        BY <3>1, <4>1, <4>2, <4>3
    <3>3. WellFormed("role", v)
      BY <3>2 DEF WellFormed
    <3>. QED
      BY <2>1, <2>7, <3>3
  <2>. QED
    BY <1>2, <2>2, <2>3, <2>4, <2>5, <2>6, <2>7 DEF Bounded, Kinds
<1>. QED
  BY <1>1, <1>2

LEMMA SampleFilled ==
  ASSUME NEW kind \in Bounded \ {"rtcall"}
  PROVE  Sample(kind) \in Samples(kind)
<1>1. \E v : v \in Samples(kind)
  BY DEF Samples, Bounded, Kinds
<1>. QED
  BY <1>1 DEF Sample

-----------------------------------------------------------------------------
(* The invariant *)

Calls == {c \in [type : CallTypes, args : Seq(Seq(Nat))] : IsCall(c)}

(* What the extrinsic of a call is, before anything happens to it. *)
IsSealed(sealed, c) ==
  \E version \in {Unsigned, Signed} :
    sealed = <<Len(version \o Bytes(c))>> \o (version \o Bytes(c))

BytesOf(calls) == [i \in 1..Len(calls) |-> Bytes(calls[i])]

(* The call in hand is complete. *)
Held == call # None => call \in Calls

(* The batch counts the calls added to it and holds their bytes in order. *)
Collected ==
  /\ added \in Seq(Calls)
  /\ batch = [length |-> batch.length, calls |-> batch.calls]
  /\ batch.length = Len(added)
  /\ \E tails : Splits(tails, BytesOf(added), Len(added), batch.calls, <<>>)

(* An extrinsic is the one of the call in hand, one byte short or long at    *)
(* most.                                                                    *)
Arrived ==
  wire # <<>> =>
    /\ call # None
    /\ \E sealed : IsSealed(sealed, call) /\ wire \in {sealed, Front(sealed), Append(sealed, 0)}

CodecInv == Held /\ Collected /\ Arrived

LEMMA BytesShape ==
  ASSUME NEW c \in Calls
  PROVE  Bytes(c) \in Seq(Nat) /\ FieldBytes(c) \in Seq(Nat) /\ Len(Bytes(c)) >= 2
<1>1. c.type \in CallTypes /\ c.args \in Seq(Seq(Nat)) /\ <<>> \in Seq(Nat)
  BY DEF Calls
<1>2. FieldBytes(c) \in Seq(Nat)
  BY <1>1, FlattenSplits DEF FieldBytes
<1>. QED
  BY <1>1, <1>2, HeaderRead, Zenon

LEMMA MadeCall ==
  ASSUME NEW t \in CallTypes, NEW args \in Seq(Seq(Nat)), Len(args) = Len(t.fields),
         \A i \in 1..Len(args) : WellFormed(t.fields[i], args[i])
  PROVE  [type |-> t, args |-> args] \in Calls
BY DEF Calls, IsCall

AllBytes(s, n) == \A i \in 1..n : s[i] \in Seq(Nat)

(* The same bytes after each of the tails. *)
LEMMA SplitAppend ==
  ASSUME NEW n \in Nat, NEW s, AllBytes(s, n), NEW tails, NEW in,
         NEW rest \in Seq(Nat), NEW v \in Seq(Nat), Splits(tails, s, n, in, rest)
  PROVE  \E more : Splits(more, s, n, in \o v, rest \o v)
<1>. DEFINE more == [i \in 0..n |-> tails[i] \o v]
<1>1. \A i \in 0..n : tails[i] \in Seq(Nat)
  BY DEF Splits
<1>2. more \in [0..n -> Seq(Nat)]
  BY <1>1, ConcatShape
<1>3. more[0] = in \o v /\ more[n] = rest \o v
  <2>1. tails[0] = in /\ tails[n] = rest
    BY DEF Splits
  <2>2. more[0] = tails[0] \o v /\ more[n] = tails[n] \o v
    <3>1. 0 \in 0..n /\ n \in 0..n
      OBVIOUS
    <3>. QED
      BY <3>1, Zenon
  <2>. HIDE DEF more
  <2>. QED
    BY <2>1, <2>2, Zenon
<1>4. ASSUME NEW i \in 1..n PROVE more[i - 1] = s[i] \o more[i]
  <2>1. i - 1 \in 0..n /\ i \in 0..n
    OBVIOUS
  <2>2. tails[i - 1] = s[i] \o tails[i]
    BY DEF Splits
  <2>3. s[i] \in Seq(Nat) /\ tails[i] \in Seq(Nat)
    BY <1>1, <2>1, Zenon DEF AllBytes
  <2>4. tails[i - 1] \o v = s[i] \o (tails[i] \o v)
    <3>1. PICK x \in Seq(Nat), y \in Seq(Nat) : x = s[i] /\ y = tails[i]
      BY <2>3, Zenon
    <3>2. (x \o y) \o v = x \o (y \o v)
      BY BytesAssociative, Zenon
    <3>. QED
      BY <2>2, <3>1, <3>2, Zenon
  <2>5. more[i - 1] = tails[i - 1] \o v /\ more[i] = tails[i] \o v
    BY <2>1, Zenon
  <2>. HIDE DEF more
  <2>. QED
    BY <2>4, <2>5, Zenon
<1>. HIDE DEF more
<1>. QED
  BY <1>2, <1>3, <1>4 DEF Splits

LEMMA SplitsSame ==
  ASSUME NEW n \in Nat, NEW s, NEW u, NEW tails, NEW in, NEW rest,
         \A i \in 1..n : s[i] = u[i], Splits(tails, s, n, in, rest)
  PROVE  Splits(tails, u, n, in, rest)
BY DEF Splits

LEMMA InitCodecInv == CodecInit => CodecInv
<1>1. SUFFICES ASSUME CodecInit PROVE CodecInv
  OBVIOUS
<1>2. call = <<>> /\ added = <<>> /\ wire = <<>> /\ batch = [length |-> 0, calls |-> <<>>]
  BY <1>1 DEF CodecInit, None, NoBatch
<1>3. Splits([i \in 0..0 |-> <<>>], BytesOf(added), 0, <<>>, <<>>)
  BY DEF Splits
<1>. HIDE DEF Calls
<1>. QED
  BY <1>2, <1>3 DEF CodecInv, Held, Collected, Arrived, None

(* The fields of a leaf are filled with samples. *)
LEMMA ComposeCodecInv ==
  ASSUME CodecInv, NEW pallet, pallet \subseteq CallTypes, Compose(pallet)
  PROVE  CodecInv'
<1>1. wire = <<>> /\ batch' = batch /\ added' = added /\ wire' = wire
  BY DEF Compose
<1>2. PICK t \in {u \in pallet : Leaf(u)} :
        \E given \in [DOMAIN t.fields -> UNION {Samples(t.fields[i]) : i \in DOMAIN t.fields}] :
          /\ \A i \in DOMAIN t.fields : given[i] \in Samples(t.fields[i])
          /\ call' = [type |-> t, args |-> [i \in DOMAIN t.fields |-> Field(t.fields[i], given[i])]]
  BY DEF Compose
<1>3. PICK given :
        /\ \A i \in DOMAIN t.fields : given[i] \in Samples(t.fields[i])
        /\ call' = [type |-> t, args |-> [i \in DOMAIN t.fields |-> Field(t.fields[i], given[i])]]
  BY <1>2
<1>. DEFINE args == [i \in DOMAIN t.fields |-> Field(t.fields[i], given[i])]
<1>4. /\ t \in CallTypes /\ t.fields \in Seq(Kinds)
      /\ \A i \in DOMAIN t.fields : t.fields[i] \in Bounded \ {"rtcall"}
  BY TableRegular DEF Regular, Leaf, Bounded
<1>5. \A i \in DOMAIN t.fields : WellFormed(t.fields[i], args[i])
  BY <1>3, <1>4, FieldWellFormed
<1>6. \A i \in DOMAIN t.fields : args[i] \in Seq(Nat)
  BY <1>5 DEF WellFormed
<1>7. args \in Seq(Seq(Nat)) /\ Len(args) = Len(t.fields) /\ DOMAIN t.fields = 1..Len(args)
  <2>1. DOMAIN t.fields = 1..Len(t.fields) /\ Len(t.fields) \in Nat
    BY <1>4
  <2>2. DOMAIN args = DOMAIN t.fields
    OBVIOUS
  <2>. HIDE DEF args
  <2>3. args \in [1..Len(t.fields) -> Seq(Nat)]
    <3>1. args = [i \in DOMAIN t.fields |-> args[i]]
      BY DEF args
    <3>. QED
      BY <1>6, <2>1, <3>1
  <2>. QED
    BY <2>1, <2>3
<1>. HIDE DEF args
<1>8. call' \in Calls
  BY <1>3, <1>4, <1>5, <1>7, MadeCall DEF args
<1>. QED
  BY <1>1, <1>8 DEF CodecInv, Held, Collected, Arrived

(* A call that takes another holds its bytes where they belong. *)
LEMMA WrapCodecInv ==
  ASSUME CodecInv, NEW pallet, pallet \subseteq ProxyCalls \union MultisigCalls, Wrap(pallet)
  PROVE  CodecInv'
<1>1. wire = <<>> /\ batch' = batch /\ added' = added /\ wire' = wire /\ call # None
  BY DEF Wrap
<1>2. PICK t \in {u \in pallet : ~ Leaf(u)} :
        call' = [type |-> t,
                 args |-> [i \in DOMAIN t.fields |->
                             IF t.fields[i] \in {"call", "rtcall"} THEN Bytes(call)
                             ELSE Field(t.fields[i], Sample(t.fields[i]))]]
  BY DEF Wrap
<1>. DEFINE args == [i \in DOMAIN t.fields |->
                       IF t.fields[i] \in {"call", "rtcall"} THEN Bytes(call)
                       ELSE Field(t.fields[i], Sample(t.fields[i]))]
<1>3. t \in CallTypes
  BY DEF CallTypes, RuntimeCalls
<1>4. t.fields \in Seq(Kinds)
  BY <1>3, TableRegular DEF Regular
<1>5. \A i \in DOMAIN t.fields : t.fields[i] # "calls"
  BY DEF ProxyCalls, MultisigCalls, T
<1>6. Bytes(call) \in Seq(Nat) /\ Len(Bytes(call)) >= 2
  BY <1>1, BytesShape DEF CodecInv, Held
<1>7. ASSUME NEW i \in DOMAIN t.fields PROVE WellFormed(t.fields[i], args[i])
  <2>1. CASE t.fields[i] \in {"call", "rtcall"}
    <3>1. args[i] = Bytes(call)
      BY <2>1
    <3>. HIDE DEF args
    <3>. QED
      BY <1>6, <2>1, <3>1 DEF WellFormed
  <2>2. CASE t.fields[i] \notin {"call", "rtcall"}
    <3>1. t.fields[i] \in Bounded \ {"rtcall"}
      BY <1>4, <1>5, <2>2 DEF Bounded
    <3>2. args[i] = Field(t.fields[i], Sample(t.fields[i]))
      BY <2>2
    <3>. QED
      BY <3>1, <3>2, SampleFilled, FieldWellFormed
  <2>. QED
    BY <2>1, <2>2
<1>8. \A i \in DOMAIN t.fields : args[i] \in Seq(Nat)
  BY <1>7 DEF WellFormed
<1>. HIDE DEF args
<1>9. args \in Seq(Seq(Nat)) /\ Len(args) = Len(t.fields) /\ DOMAIN t.fields = 1..Len(args)
  BY <1>4, <1>8 DEF args
<1>10. call' \in Calls
  BY <1>2, <1>3, <1>7, <1>9, MadeCall DEF args
<1>. QED
  BY <1>1, <1>10 DEF CodecInv, Held, Collected, Arrived

(* The call added becomes the last: its bytes follow those of the others. *)
LEMMA AddCallCodecInv ==
  ASSUME CodecInv, AddCall
  PROVE  CodecInv'
<1>. DEFINE v == Bytes(call)
            n == Len(added)
<1>1. /\ wire = <<>> /\ wire' = wire /\ call \in Calls /\ call' = None
      /\ batch' = [length |-> batch.length + 1, calls |-> batch.calls \o v]
      /\ added' = Append(added, call)
  BY DEF CodecInv, Held, AddCall
<1>2. added \in Seq(Calls) /\ n \in Nat /\ batch.length = n
  BY DEF CodecInv, Collected
<1>3. PICK old : Splits(old, BytesOf(added), n, batch.calls, <<>>)
  BY DEF CodecInv, Collected
<1>4. /\ added' \in Seq(Calls) /\ Len(added') = n + 1
      /\ \A i \in 1..n : added'[i] = added[i]
      /\ added'[n + 1] = call
  BY <1>1, <1>2
<1>5. v \in Seq(Nat) /\ <<>> \in Seq(Nat) /\ <<>> \o v = v /\ v \o <<>> = v
  <2>1. v \in Seq(Nat)
    BY <1>1, BytesShape
  <2>. HIDE DEF v
  <2>. QED
    BY <2>1
<1>6. \A i \in 1..n : added[i] \in Calls
  BY <1>2
<1>7. \A i \in 1..n : BytesOf(added)[i] = Bytes(added[i]) /\ BytesOf(added)[i] \in Seq(Nat)
  BY <1>6, BytesShape DEF BytesOf
<1>. DEFINE s == BytesOf(added')
<1>8. \A i \in 1..n : BytesOf(added)[i] = s[i]
  BY <1>2, <1>4, <1>7 DEF BytesOf
<1>9. s[n + 1] = v
  BY <1>2, <1>4 DEF BytesOf
<1>. HIDE DEF s, v, n
<1>10. \E more : Splits(more, BytesOf(added), n, batch.calls \o v, <<>> \o v)
  <2>1. AllBytes(BytesOf(added), n)
    BY <1>7, Zenon DEF AllBytes
  <2>. QED
    BY <1>2, <1>3, <1>5, <2>1, SplitAppend
<1>11. PICK more : Splits(more, BytesOf(added), n, batch.calls \o v, v)
  BY <1>5, <1>10
<1>12. Splits(more, s, n, batch.calls \o v, v)
  BY <1>2, <1>8, <1>11, SplitsSame
<1>13. \E last : Splits(last, s, n + 1, batch.calls \o v, <<>>)
  BY <1>2, <1>5, <1>9, <1>12, SplitOneMore
<1>14. Collected'
  BY <1>1, <1>2, <1>4, <1>13 DEF Collected, s
<1>. QED
  BY <1>1, <1>14 DEF CodecInv, Held, Arrived

(* The calls of a batch are the bytes of its last field. *)
LEMMA FinishBatchCodecInv ==
  ASSUME CodecInv, FinishBatch
  PROVE  CodecInv'
<1>1. wire = <<>> /\ wire' = wire /\ added' = <<>> /\ batch' = NoBatch
  BY DEF CodecInv, Arrived, FinishBatch
<1>2. PICK t \in UtilityCalls : call' = [type |-> t, args |-> <<<<batch.length>>, batch.calls>>]
  BY DEF FinishBatch
<1>3. batch.length \in Nat /\ batch.calls \in Seq(Nat)
  BY DEF CodecInv, Collected, Splits
<1>. DEFINE args == <<<<batch.length>>, batch.calls>>
<1>4. t \in CallTypes /\ t.fields = <<"num", "calls">>
  BY DEF CallTypes, RuntimeCalls, UtilityCalls, T
<1>5. <<batch.length>> \in Seq(Nat) /\ Len(<<batch.length>>) = 1
  BY <1>3
<1>6. WellFormed("num", <<batch.length>>) /\ WellFormed("calls", batch.calls)
  BY <1>3, <1>5 DEF WellFormed
<1>7. args \in Seq(Seq(Nat)) /\ Len(args) = 2 /\ args[1] = <<batch.length>> /\ args[2] = batch.calls
  BY <1>3, <1>5
<1>. HIDE DEF args
<1>8. Len(args) = Len(t.fields) /\ \A i \in 1..Len(args) : WellFormed(t.fields[i], args[i])
  <2>1. Len(t.fields) = 2 /\ t.fields[1] = "num" /\ t.fields[2] = "calls"
    BY <1>4
  <2>2. 1..Len(args) = {1, 2}
    BY <1>7
  <2>3. \A i \in {1, 2} : WellFormed(t.fields[i], args[i])
    BY <1>6, <1>7, <2>1
  <2>. QED
    BY <1>7, <2>1, <2>2, <2>3
<1>9. call' \in Calls
  BY <1>2, <1>4, <1>7, <1>8, MadeCall DEF args
<1>10. Splits([i \in 0..0 |-> <<>>], BytesOf(added'), 0, <<>>, <<>>)
  BY DEF Splits
<1>11. Collected'
  BY <1>1, <1>10 DEF Collected, NoBatch
<1>. QED
  BY <1>1, <1>9, <1>11 DEF CodecInv, Held, Arrived

LEMMA SealCodecInv ==
  ASSUME CodecInv, NEW version \in {Unsigned, Signed}, Seal(version)
  PROVE  CodecInv'
<1>1. call # None /\ call' = call /\ batch' = batch /\ added' = added
  BY DEF Seal
<1>2. IsSealed(wire', call')
  BY <1>1 DEF Seal, IsSealed
<1>. QED
  BY <1>1, <1>2 DEF CodecInv, Held, Collected, Arrived

(* The length of an extrinsic and what it says its length is. *)
LEMMA SealedShape ==
  ASSUME NEW c \in Calls, NEW sealed, IsSealed(sealed, c)
  PROVE  sealed \in Seq(Nat) /\ Len(sealed) >= 4 /\ sealed[1] = Len(sealed) - 1
<1>1. PICK version \in {Unsigned, Signed} :
        sealed = <<Len(version \o Bytes(c))>> \o (version \o Bytes(c))
  BY DEF IsSealed
<1>. DEFINE inner == version \o Bytes(c)
<1>2. version \in Seq(Nat) /\ Len(version) >= 1
  <2>1. Unsigned \in Seq(Nat) /\ Len(Unsigned) = 1 /\ Signed \in Seq(Nat) /\ Len(Signed) = 2
    BY DEF Unsigned, Signed
  <2>. QED
    BY <2>1
<1>3. inner \in Seq(Nat) /\ Len(inner) >= 3
  <2>1. Bytes(c) \in Seq(Nat) /\ Len(Bytes(c)) >= 2
    BY BytesShape
  <2>2. inner \in Seq(Nat) /\ Len(inner) = Len(version) + Len(Bytes(c))
    BY <1>2, <2>1, ConcatShape
  <2>3. Len(version) \in Nat /\ Len(Bytes(c)) \in Nat
    BY <1>2, <2>1
  <2>. HIDE DEF inner
  <2>. QED
    BY <1>2, <2>1, <2>2, <2>3
<1>. HIDE DEF inner
<1>4. <<Len(inner)>> \o inner \in Seq(Nat) /\ Len(<<Len(inner)>> \o inner) = 1 + Len(inner)
      /\ (<<Len(inner)>> \o inner)[1] = Len(inner)
  BY <1>3
<1>. QED
  BY <1>1, <1>3, <1>4 DEF inner

(* What is damaged is no longer as long as it says, and is damaged once. *)
LEMMA IntactIsSealed ==
  ASSUME NEW c \in Calls, NEW sealed, IsSealed(sealed, c),
         NEW w \in {sealed, Front(sealed), Append(sealed, 0)}
  PROVE  Len(w) - 1 = w[1] <=> w = sealed
<1>1. sealed \in Seq(Nat) /\ Len(sealed) >= 4 /\ sealed[1] = Len(sealed) - 1
  BY SealedShape
<1>2. Len(Front(sealed)) = Len(sealed) - 1 /\ Front(sealed)[1] = sealed[1]
  BY <1>1 DEF Front
<1>3. Len(Append(sealed, 0)) = Len(sealed) + 1 /\ Append(sealed, 0)[1] = sealed[1]
  BY <1>1
<1>4. Len(sealed) \in Nat
  BY <1>1
<1>5. CASE w = sealed
  BY <1>1, <1>5
<1>6. CASE w = Front(sealed)
  <2>1. Len(w) - 1 # w[1]
    BY <1>1, <1>2, <1>4, <1>6
  <2>. QED
    BY <1>1, <2>1
<1>7. CASE w = Append(sealed, 0)
  <2>1. Len(w) - 1 # w[1]
    BY <1>1, <1>3, <1>4, <1>7
  <2>. QED
    BY <1>1, <2>1
<1>. QED
  BY <1>5, <1>6, <1>7

LEMMA DamageCodecInv ==
  ASSUME CodecInv, Damage
  PROVE  CodecInv'
<1>1. /\ wire # <<>> /\ Len(wire) - 1 = wire[1] /\ wire' \in {Front(wire), Append(wire, 0)}
      /\ call' = call /\ batch' = batch /\ added' = added
  BY DEF Damage
<1>2. PICK sealed : /\ IsSealed(sealed, call)
                    /\ wire \in {sealed, Front(sealed), Append(sealed, 0)}
  BY <1>1 DEF CodecInv, Arrived
<1>3. call # None /\ call \in Calls
  BY <1>1 DEF CodecInv, Held, Arrived
<1>4. wire = sealed
  BY <1>1, <1>2, <1>3, IntactIsSealed
<1>5. Held' /\ Collected'
  BY <1>1 DEF CodecInv, Held, Collected
<1>6. Arrived'
  BY <1>1, <1>2, <1>3, <1>4 DEF Arrived
<1>. QED
  BY <1>5, <1>6 DEF CodecInv

LEMMA NextCodecInv == CodecInv /\ [CodecNext]_codecVars => CodecInv'
<1>1. SUFFICES ASSUME CodecInv, [CodecNext]_codecVars PROVE CodecInv'
  OBVIOUS
<1>2. CASE ComposeSystem \/ ComposeTimestamp \/ ComposeBalances \/ ComposeSession
           \/ ComposeDataAvailability \/ ComposeMultisig \/ ComposeProxy
  <2>1. PICK pallet \in {SystemCalls, TimestampCalls, BalancesCalls, SessionCalls,
                          DataAvailabilityCalls, MultisigCalls, ProxyCalls} : Compose(pallet)
    BY <1>2 DEF ComposeSystem, ComposeTimestamp, ComposeBalances, ComposeSession,
                ComposeDataAvailability, ComposeMultisig, ComposeProxy
  <2>2. pallet \subseteq CallTypes
    BY DEF CallTypes, RuntimeCalls
  <2>. QED
    BY <1>1, <2>1, <2>2, ComposeCodecInv
<1>3. CASE ComposeStaking \/ ComposeStakingAccount \/ ComposeStakingStash
           \/ ComposePoolMember \/ ComposePoolAdmin \/ ComposePoolState
           \/ ComposeVector \/ ComposeVectorMore \/ ComposeVectorMock
  <2>1. PICK pallet \in {StakingCalls, StakingAccountCalls, StakingStashCalls,
                          PoolMemberCalls, PoolAdminCalls, PoolStateCalls,
                          VectorCalls, VectorMoreCalls, VectorMockCalls} : Compose(pallet)
    BY <1>3 DEF ComposeStaking, ComposeStakingAccount, ComposeStakingStash,
                ComposePoolMember, ComposePoolAdmin, ComposePoolState,
                ComposeVector, ComposeVectorMore, ComposeVectorMock
  <2>2. pallet \subseteq CallTypes
    BY DEF CallTypes, RuntimeCalls
  <2>. QED
    BY <1>1, <2>1, <2>2, ComposeCodecInv
<1>4. CASE WrapProxy \/ WrapMultisig
  BY <1>1, <1>4, WrapCodecInv DEF WrapProxy, WrapMultisig
<1>5. CASE AddCall
  BY <1>1, <1>5, AddCallCodecInv
<1>6. CASE FinishBatch
  BY <1>1, <1>6, FinishBatchCodecInv
<1>7. CASE Seal(Unsigned) \/ Seal(Signed)
  BY <1>1, <1>7, SealCodecInv
<1>8. CASE Damage
  BY <1>1, <1>8, DamageCodecInv
<1>9. CASE UNCHANGED codecVars
  BY <1>1, <1>9 DEF codecVars, CodecInv, Held, Collected, Arrived
<1>. QED
  BY <1>1, <1>2, <1>3, <1>4, <1>5, <1>6, <1>7, <1>8, <1>9 DEF CodecNext

(* CodecInv holds in every state. *)
LEMMA CodecInvariant == CodecSpec => []CodecInv
BY InitCodecInv, NextCodecInv, PTL DEF CodecSpec

-----------------------------------------------------------------------------
(* What a program that reads a call gets *)

LEMMA CallsAreCalls ==
  ASSUME NEW c \in Calls
  PROVE  IsCall(c) /\ c.type \in CallTypes
BY DEF Calls

LEMMA OkAndErr ==
  /\ \A v, r : Ok(v, r).ok /\ Ok(v, r).value = v /\ Ok(v, r).rest = r /\ Ok(v, r) # Err
  /\ ~ Err.ok
BY DEF Ok, Err

LEMMA ReadBack ==
  ASSUME CodecInv
  PROVE  RoundTrip
<1>1. SUFFICES ASSUME call # None, Exact(call)
               PROVE  /\ \A t \in CallTypes :
                           IF t = call.type THEN FromCall(t, Bytes(call)) = Ok(call, <<>>)
                           ELSE ~ FromCall(t, Bytes(call)).ok
                      /\ IF call.type \in RuntimeCalls
                         THEN ReadRuntimeCall(Bytes(call)) = Ok(call, <<>>)
                         ELSE ~ ReadRuntimeCall(Bytes(call)).ok
  BY DEF RoundTrip
<1>2. call \in Calls /\ IsCall(call)
  BY <1>1, CallsAreCalls DEF CodecInv, Held
<1>3. ASSUME NEW t \in CallTypes
      PROVE  IF t = call.type THEN FromCall(t, Bytes(call)) = Ok(call, <<>>)
             ELSE ~ FromCall(t, Bytes(call)).ok
  <2>1. FromCall(t, Bytes(call)) = IF t = call.type THEN Ok(call, <<>>) ELSE Err
    BY <1>1, <1>2, FromCallReads
  <2>. QED
    BY <2>1, OkAndErr, Zenon
<1>4. Bytes(call) \o <<>> = Bytes(call) /\ <<>> \in Seq(Nat)
  BY <1>2, BytesShape
<1>5. /\ call.type \notin RuntimeCalls => RuntimeReader[Bytes(call) \o <<>>] = Err
      /\ call.type \in RuntimeCalls => Takes(RuntimeReader[Bytes(call) \o <<>>], call, <<>>)
  BY <1>1, <1>2, <1>4, RuntimeCallReads, Zenon
<1>6. /\ call.type \notin RuntimeCalls => ReadRuntimeCall(Bytes(call)) = Err
      /\ call.type \in RuntimeCalls => ReadRuntimeCall(Bytes(call)) = Ok(call, <<>>)
  BY <1>4, <1>5, TakesNothing DEF ReadRuntimeCall
<1>. QED
  BY <1>3, <1>6, OkAndErr, Zenon

(* The envelope of an extrinsic gives the bytes of its call, and no envelope *)
(* that is not as long as it says gives anything.                           *)
LEMMA EnvelopeReads ==
  ASSUME NEW c \in Calls, NEW sealed, IsSealed(sealed, c)
  PROVE  ReadEnvelope(sealed) = Ok(Bytes(c), <<>>)
<1>1. PICK version \in {Unsigned, Signed} :
        sealed = <<Len(version \o Bytes(c))>> \o (version \o Bytes(c))
  BY DEF IsSealed
<1>. DEFINE b == Bytes(c)
            L == Len(version \o b)
            prefix == <<L>> \o version
<1>2. b \in Seq(Nat) /\ Len(b) >= 2 /\ Len(b) \in Nat
  BY BytesShape
<1>3. /\ version \in Seq(Nat) /\ version[1] \in {4, 132}
      /\ Len(version) = IF version[1] = 132 THEN 2 ELSE 1
  <2>1. Unsigned \in Seq(Nat) /\ Len(Unsigned) = 1 /\ Unsigned[1] = 4
    BY DEF Unsigned
  <2>2. Signed \in Seq(Nat) /\ Len(Signed) = 2 /\ Signed[1] = 132
    BY DEF Signed
  <2>3. CASE version = Unsigned
    BY <2>1, <2>3
  <2>4. CASE version = Signed
    BY <2>2, <2>4
  <2>. QED
    BY <2>3, <2>4
<1>. HIDE DEF b
<1>4. L = Len(version) + Len(b) /\ version \o b \in Seq(Nat)
  <2>1. version \in Seq(Nat) /\ b \in Seq(Nat)
    BY <1>2, <1>3, Zenon
  <2>. QED
    BY <2>1, ConcatShape, Zenon
<1>5. L \in Nat
  BY <1>4
<1>. HIDE DEF L
<1>6. <<L>> \in Seq(Nat) /\ Len(<<L>>) = 1 /\ <<L>>[1] = L
  BY <1>5
<1>7. sealed = prefix \o b
  BY <1>1, <1>2, <1>3, <1>6, BytesAssociative DEF b, L
<1>8. Len(prefix) = 1 + Len(version) /\ Len(version) \in {1, 2}
  <2>1. Len(version) \in {1, 2}
    BY <1>3
  <2>2. Len(<<L>> \o version) = Len(<<L>>) + Len(version)
    BY <1>3, <1>6, ConcatShape, Zenon
  <2>. QED
    BY <1>6, <2>1, <2>2, Zenon
<1>9. /\ prefix \in Seq(Nat) /\ prefix[1] = L /\ prefix[2] \in {4, 132}
      /\ Len(prefix) = IF prefix[2] = 132 THEN 3 ELSE 2
  <2>1. prefix \in Seq(Nat)
    BY <1>3, <1>6, ConcatShape
  <2>2. prefix[1] = L /\ prefix[2] = version[1]
    <3>1. ASSUME NEW u \in Seq(Nat), Len(u) >= 1
          PROVE  (<<L>> \o u)[1] = L /\ (<<L>> \o u)[2] = u[1]
      BY <1>5, <3>1
    <3>2. Len(version) >= 1
      BY <1>8
    <3>. QED
      BY <1>3, <3>1, <3>2, Zenon
  <2>. HIDE DEF prefix
  <2>3. Len(version) + 1 = IF version[1] = 132 THEN 3 ELSE 2
    <3>1. CASE version[1] = 132
      BY <1>3, <3>1
    <3>2. CASE version[1] # 132
      BY <1>3, <3>2
    <3>. QED
      BY <3>1, <3>2
  <2>. QED
    BY <1>3, <1>8, <2>1, <2>2, <2>3
<1>. HIDE DEF prefix
<1>10. /\ Len(sealed) = Len(prefix) + Len(b)
       /\ \A i \in 1..Len(prefix) : sealed[i] = prefix[i]
       /\ SubSeq(sealed, Len(prefix) + 1, Len(sealed)) = b
  <2>1. \A i \in 1..Len(prefix) : (prefix \o b)[i] = prefix[i]
    BY <1>2, <1>9
  <2>4. prefix \in Seq(Nat) /\ b \in Seq(Nat)
    BY <1>2, <1>9, Zenon
  <2>2. Len(prefix \o b) = Len(prefix) + Len(b)
    BY <2>4, ConcatParts, Zenon
  <2>3. SubSeq(prefix \o b, Len(prefix) + 1, Len(prefix \o b)) = b
    BY <2>4, ConcatParts, Zenon
  <2>. QED
    BY <1>7, <2>1, <2>2, <2>3, Zenon
<1>11. sealed[1] = L /\ sealed[2] = prefix[2]
  <2>1. 1 \in 1..Len(prefix) /\ 2 \in 1..Len(prefix)
    BY <1>9
  <2>. QED
    BY <1>9, <1>10, <2>1
<1>. DEFINE start == IF sealed[2] = 132 THEN 4 ELSE 3
            size == Len(sealed)
<1>12. start = Len(prefix) + 1
  BY <1>9, <1>11
<1>13. size = start - 1 + Len(b) /\ start \in {3, 4} /\ size - 1 = L
  <2>1. start - 1 = Len(prefix) /\ start \in {3, 4}
    BY <1>8, <1>12
  <2>2. size = Len(prefix) + Len(b) /\ Len(prefix) = 1 + Len(version)
    BY <1>8, <1>10
  <2>. QED
    BY <1>2, <1>4, <1>8, <2>1, <2>2
<1>14. SubSeq(sealed, start, size) = b /\ sealed[2] \in {4, 132} /\ sealed[1] = L
  BY <1>9, <1>10, <1>11, <1>12
<1>. HIDE DEF start, size
<1>15. ~ (size < 2) /\ ~ (size + 1 < start)
  BY <1>2, <1>13
<1>. QED
  BY <1>13, <1>14, <1>15, Zenon DEF ReadEnvelope, b, start, size

LEMMA DamageSeen ==
  ASSUME CodecInv
  PROVE  DamageRefused
<1>1. SUFFICES ASSUME wire # <<>>, Exact(call)
      PROVE  LET intact == Len(wire) - 1 = wire[1]
             IN  /\ ReadExtrinsic(call.type, wire) = IF intact THEN Ok(call, <<>>) ELSE Err
                 /\ ReadSigned(call.type, wire)
                      = IF intact /\ wire[2] = 132 THEN Ok(call, <<>>) ELSE Err
  BY DEF DamageRefused
<1>2. call \in Calls /\ IsCall(call) /\ call.type \in CallTypes
  BY <1>1, CallsAreCalls DEF CodecInv, Held, Arrived
<1>3. PICK sealed : /\ IsSealed(sealed, call)
                    /\ wire \in {sealed, Front(sealed), Append(sealed, 0)}
  BY <1>1 DEF CodecInv, Arrived
<1>4. CASE Len(wire) - 1 = wire[1]
  <2>1. wire = sealed
    BY <1>2, <1>3, <1>4, IntactIsSealed
  <2>2. ReadEnvelope(wire) = Ok(Bytes(call), <<>>)
    BY <1>2, <1>3, <2>1, EnvelopeReads
  <2>3. FromCall(call.type, Bytes(call)) = Ok(call, <<>>)
    <3>1. FromCall(call.type, Bytes(call))
            = IF call.type = call.type THEN Ok(call, <<>>) ELSE Err
      BY <1>1, <1>2, FromCallReads
    <3>. QED
      BY <3>1
  <2>4. ReadEnvelope(wire).ok /\ ReadEnvelope(wire).value = Bytes(call)
    BY <2>2, OkAndErr
  <2>. QED
    BY <1>4, <2>3, <2>4, Zenon DEF ReadExtrinsic, ReadSigned
<1>5. CASE Len(wire) - 1 # wire[1]
  <2>1. ReadEnvelope(wire) = Err
    BY <1>5, Zenon DEF ReadEnvelope
  <2>2. ~ ReadEnvelope(wire).ok
    BY <2>1, OkAndErr
  <2>. QED
    BY <1>5, <2>2, Zenon DEF ReadExtrinsic, ReadSigned
<1>. QED
  BY <1>4, <1>5

-----------------------------------------------------------------------------
(* What a program that reads a batch gets *)

(* A call of a batch that stands where it can be read. *)
Stands(calls, i) ==
  calls[i].type \in RuntimeCalls /\ (i # Len(calls) => ~ Greedy(calls[i]))

LEMMA TailsFollow ==
  ASSUME NEW calls, Len(calls) \in Nat, NEW tails, NEW in,
         Splits(tails, BytesOf(calls), Len(calls), in, <<>>), NEW i \in 1..Len(calls)
  PROVE  /\ tails[i - 1] = Bytes(calls[i]) \o tails[i] /\ tails[i] \in Seq(Nat)
         /\ i = Len(calls) => tails[i] = <<>>
<1>. DEFINE n == Len(calls)
<1>1. tails[i - 1] = BytesOf(calls)[i] \o tails[i] /\ tails[n] = <<>>
  BY DEF Splits
<1>2. BytesOf(calls)[i] = Bytes(calls[i])
  BY DEF BytesOf
<1>3. tails \in [0..n -> Seq(Nat)] /\ n \in Nat
  BY DEF Splits
<1>. HIDE DEF n
<1>4. tails[i] \in Seq(Nat)
  <2>1. i \in 0..n
    BY <1>3 DEF n
  <2>. QED
    BY <1>3, <2>1
<1>. QED
  BY <1>1, <1>2, <1>4 DEF n

LEMMA StandingRead ==
  ASSUME NEW calls \in Seq(Calls), NEW tails, NEW in,
         Splits(tails, BytesOf(calls), Len(calls), in, <<>>),
         NEW i \in 1..Len(calls), Exact(calls[i]), Stands(calls, i)
  PROVE  RuntimeReader[tails[i - 1]] = Ok(calls[i], tails[i])
<1>1. calls[i] \in Calls /\ IsCall(calls[i])
  BY CallsAreCalls
<1>2. /\ tails[i - 1] = Bytes(calls[i]) \o tails[i] /\ tails[i] \in Seq(Nat)
      /\ i = Len(calls) => tails[i] = <<>>
  <2>1. Len(calls) \in Nat
    OBVIOUS
  <2>. QED
    BY <2>1, TailsFollow, Zenon
<1>3. Takes(RuntimeReader[Bytes(calls[i]) \o tails[i]], calls[i], tails[i])
  BY <1>1, <1>2, RuntimeCallReads, Zenon DEF Stands
<1>4. CASE i = Len(calls)
  <2>1. RuntimeReader[Bytes(calls[i]) \o tails[i]] = Ok(calls[i], <<>>)
    BY <1>2, <1>3, <1>4, TakesNothing
  <2>. QED
    BY <1>2, <1>4, <2>1
<1>5. CASE i # Len(calls)
  <2>1. ~ Greedy(calls[i])
    BY <1>5 DEF Stands
  <2>2. RuntimeReader[Bytes(calls[i]) \o tails[i]] = Ok(calls[i], tails[i])
    BY <1>3, <2>1, Zenon DEF Takes
  <2>. QED
    BY <1>2, <2>2
<1>. QED
  BY <1>4, <1>5

(* The first call that does not stand ends the reading: by an error of its   *)
(* own, or because it leaves nothing for the next.                          *)
LEMMA FallenRead ==
  ASSUME NEW calls \in Seq(Calls), NEW tails, NEW in,
         Splits(tails, BytesOf(calls), Len(calls), in, <<>>),
         \A i \in 1..Len(calls) : Exact(calls[i]),
         NEW k \in 1..Len(calls), ~ Stands(calls, k),
         \A i \in 1..k - 1 : Stands(calls, i)
  PROVE  ReadAll([i \in 1..Len(calls) |-> RuntimeReader], in) = Err
<1>. DEFINE n == Len(calls)
            readers == [i \in 1..n |-> RuntimeReader]
<1>1. n \in Nat /\ Len(readers) = n /\ in = tails[0]
  BY DEF Splits
<1>2. calls[k] \in Calls /\ IsCall(calls[k]) /\ Exact(calls[k])
  BY CallsAreCalls
<1>3. tails[k - 1] = Bytes(calls[k]) \o tails[k] /\ tails[k] \in Seq(Nat)
  BY <1>1, TailsFollow, Zenon
<1>4. ASSUME NEW i \in 1..k - 1
      PROVE  RuntimeReader[tails[i - 1]] = Ok(calls[i], tails[i]) /\ i \in 1..n
  BY StandingRead
<1>5. CASE calls[k].type \notin RuntimeCalls
  <2>1. RuntimeReader[tails[k - 1]] = Err
    BY <1>2, <1>3, <1>5, RuntimeCallReads
  <2>2. k - 1 \in Nat /\ k - 1 < n /\ k - 1 <= Len(calls) /\ (k - 1) + 1 = k
    BY <1>1
  <2>3. Reads(readers, calls, tails, k - 1)
    BY <1>4 DEF Reads
  <2>4. ~ readers[(k - 1) + 1][tails[k - 1]].ok
    <3>1. readers[(k - 1) + 1] = RuntimeReader
      BY <2>2
    <3>. QED
      BY <2>1, <3>1, OkAndErr
  <2>. HIDE DEF readers, n
  <2>5. ReadAll(readers, tails[0]) = Err
    BY <1>1, <2>2, <2>3, <2>4, OneFails
  <2>. QED
    BY <1>1, <2>5 DEF readers, n
<1>6. CASE calls[k].type \in RuntimeCalls
  <2>1. Greedy(calls[k]) /\ k # n
    BY <1>6 DEF Stands
  <2>2. Takes(RuntimeReader[Bytes(calls[k]) \o tails[k]], calls[k], tails[k])
    BY <1>2, <1>3, <1>6, RuntimeCallReads, Zenon
  <2>3. PICK v : RuntimeReader[Bytes(calls[k]) \o tails[k]]
                   = Ok(v, IF Greedy(calls[k]) THEN <<>> ELSE tails[k])
    BY <2>2, Zenon DEF Takes
  <2>4. RuntimeReader[tails[k - 1]] = Ok(v, <<>>)
    BY <1>3, <2>1, <2>3
  <2>. DEFINE V == Calls \union {v}
              values == [i \in 1..k |-> IF i = k THEN v ELSE calls[i]]
              left == [i \in 0..n |-> IF i = k THEN <<>> ELSE tails[i]]
  <2>5. values \in Seq(V) /\ Len(values) = k /\ k \in Nat /\ k < n
    <3>1. \A i \in 1..k : (IF i = k THEN v ELSE calls[i]) \in V
      OBVIOUS
    <3>2. k \in Nat /\ k <= n
      BY <1>1
    <3>. HIDE DEF n, V
    <3>3. values \in [1..k -> V]
      BY <3>1
    <3>. QED
      BY <1>1, <2>1, <3>2, <3>3
  <2>6. ASSUME NEW i \in 1..k PROVE readers[i][left[i - 1]] = Ok(values[i], left[i])
    <3>1. readers[i] = RuntimeReader /\ left[i - 1] = tails[i - 1]
      BY <1>1
    <3>2. CASE i = k
      <4>1. values[i] = v /\ left[i] = <<>>
        BY <3>2
      <4>. QED
        BY <2>4, <3>1, <3>2, <4>1
    <3>3. CASE i # k
      <4>1. i \in 1..k - 1 /\ values[i] = calls[i] /\ left[i] = tails[i]
        BY <3>3
      <4>. QED
        BY <1>4, <3>1, <4>1
    <3>. QED
      BY <3>2, <3>3
  <2>7. Reads(readers, values, left, k)
    BY <2>6 DEF Reads
  <2>8. ~ readers[k + 1][left[k]].ok
    <3>1. readers[k + 1] = RuntimeReader /\ left[k] = <<>> /\ <<>> \in Seq(Nat)
      BY <1>1, <2>5
    <3>2. RuntimeReader[<<>>] = Err
      BY <3>1, RuntimeReaderReads
    <3>. QED
      BY <3>1, <3>2, OkAndErr
  <2>9. left[0] = tails[0]
    BY <1>1
  <2>. HIDE DEF readers, values, left, n, V
  <2>10. ReadAll(readers, left[0]) = Err
    BY <1>1, <2>5, <2>7, <2>8, OneFails
  <2>. QED
    BY <1>1, <2>9, <2>10 DEF readers, n
<1>. QED
  BY <1>5, <1>6

LEMMA BatchRead ==
  ASSUME CodecInv
  PROVE  BatchRecovered
<1>. DEFINE n == Len(added)
            readers == [i \in 1..n |-> RuntimeReader]
            all == ReadAll(readers, batch.calls)
            readable == /\ \A i \in DOMAIN added : added[i].type \in RuntimeCalls
                        /\ \A i \in 1..n - 1 : ~ Greedy(added[i])
<1>1. SUFFICES ASSUME \A i \in DOMAIN added : Exact(added[i])
               PROVE  DecodeCalls(batch) = IF readable THEN Ok(added, <<>>) ELSE Err
  BY DEF BatchRecovered
<1>2. added \in Seq(Calls) /\ n \in Nat /\ batch.length = n /\ DOMAIN added = 1..n
  BY DEF CodecInv, Collected
<1>3. PICK tails : Splits(tails, BytesOf(added), n, batch.calls, <<>>)
  BY DEF CodecInv, Collected
<1>4. DecodeCalls(batch) = IF n = 0 THEN Ok(<<>>, <<>>)
                           ELSE IF all.ok /\ all.rest = <<>> THEN all ELSE Err
  BY <1>2 DEF DecodeCalls
<1>5. readable <=> \A i \in 1..n : Stands(added, i)
  <2>1. ASSUME readable, NEW i \in 1..n PROVE Stands(added, i)
    <3>1. i # n => i \in 1..n - 1
      <4>1. i \in 1..n /\ n \in Nat
        BY <1>2
      <4>. HIDE DEF n
      <4>. QED
        BY <4>1
    <3>. QED
      BY <1>2, <2>1, <3>1 DEF Stands
  <2>2. ASSUME \A i \in 1..n : Stands(added, i) PROVE readable
    <3>1. \A i \in 1..n - 1 : i \in 1..n /\ i # n
      <4>1. n \in Nat
        BY <1>2
      <4>. HIDE DEF n
      <4>. QED
        BY <4>1
    <3>. QED
      BY <1>2, <2>2, <3>1 DEF Stands
  <2>. QED
    BY <2>1, <2>2
<1>. HIDE DEF readable
<1>6. CASE n = 0
  BY <1>2, <1>4, <1>5, <1>6
<1>7. CASE n # 0 /\ \A i \in 1..n : Stands(added, i)
  <2>1. ASSUME NEW i \in 1..n PROVE readers[i][tails[i - 1]] = Ok(added[i], tails[i])
    BY <1>1, <1>2, <1>3, <1>7, StandingRead
  <2>2. Reads(readers, added, tails, n) /\ Len(readers) = n
    BY <1>2, <2>1 DEF Reads
  <2>3. tails[0] = batch.calls /\ tails[n] = <<>>
    BY <1>3 DEF Splits
  <2>. HIDE DEF readers
  <2>4. ReadAll(readers, tails[0]) = Ok(added, tails[n])
    BY <1>2, <2>2, ReadsEach
  <2>5. all = Ok(added, <<>>)
    BY <2>3, <2>4
  <2>6. all.ok /\ all.rest = <<>>
    BY <2>5, OkAndErr
  <2>. HIDE DEF all, n
  <2>. QED
    BY <1>4, <1>5, <1>7, <2>5, <2>6, Zenon
<1>8. CASE ~ \A i \in 1..n : Stands(added, i)
  <2>. DEFINE Fallen == {i \in 1..n : ~ Stands(added, i)}
  <2>1. Fallen \subseteq Nat /\ Fallen # {}
    BY <1>2, <1>8
  <2>2. PICK k \in Fallen : \A i \in Fallen : k <= i
    BY <2>1, LeastMember
  <2>3. k \in 1..n /\ ~ Stands(added, k) /\ \A i \in 1..k - 1 : Stands(added, i)
    BY <1>2, <2>2
  <2>4. \A i \in 1..n : Exact(added[i])
    BY <1>1, <1>2
  <2>5. all = Err
    BY <1>2, <1>3, <2>3, <2>4, FallenRead
  <2>6. ~ all.ok /\ n # 0
    BY <1>2, <2>3, <2>5, OkAndErr
  <2>. HIDE DEF all, n
  <2>. QED
    BY <1>4, <1>5, <1>8, <2>6, Zenon
<1>. QED
  BY <1>6, <1>7, <1>8

-----------------------------------------------------------------------------

(* Whatever calls a program makes and wraps into each other, the type of an  *)
(* exact call reads its own bytes back, RuntimeCall::decode as well, and no *)
(* other of the table's types accepts them.  Exact excepts AsMulti and      *)
(* UpdateRoles with a Noop role.                                            *)
THEOREM RoundTripHolds == CodecSpec => []RoundTrip
<1>1. CodecInv => RoundTrip
  BY ReadBack
<1>. QED
  BY <1>1, CodecInvariant, PTL

(* For batches of any number of exact calls, decode_calls answers these, in  *)
(* the order they were added, or an error, and the error exactly when a call *)
(* is no RuntimeCall or reads what follows it.                              *)
THEOREM BatchRecoveredHolds == CodecSpec => []BatchRecovered
<1>1. CodecInv => BatchRecovered
  BY BatchRead
<1>. QED
  BY <1>1, CodecInvariant, PTL

(* An extrinsic of any length with an exact call reads back as that call, as *)
(* a SignedExtrinsic only if it is signed, and is refused if it arrives cut  *)
(* or extended.                                                             *)
THEOREM DamageRefusedHolds == CodecSpec => []DamageRefused
<1>1. CodecInv => DamageRefused
  BY DamageSeen
<1>. QED
  BY <1>1, CodecInvariant, PTL

-----------------------------------------------------------------------------
(* Events *)

(* The fold of Those over the members of s with index up to n. *)
IsSelection(kept, s, S, n) ==
  kept = [x \in SUBSET (1..n) |->
            IF x = {} THEN <<>>
            ELSE IF s[Max(x)] \in S THEN Append(kept[x \ {Max(x)}], s[Max(x)])
            ELSE kept[x \ {Max(x)}]]

LEMMA GreatestOfRange ==
  ASSUME NEW n \in Nat, NEW x \in SUBSET (1..n + 1), n + 1 \in x
  PROVE  Max(x) = n + 1 /\ x \ {n + 1} \in SUBSET (1..n)
<1>1. \A y \in x : y \in Nat /\ n + 1 >= y
  OBVIOUS
<1>2. \A m \in x : (\A y \in x : m >= y) <=> m = n + 1
  BY <1>1
<1>3. Max(x) = n + 1
  BY <1>2 DEF Max
<1>. QED
  BY <1>3

LEMMA SelectionExists ==
  ASSUME NEW s, NEW S, NEW n \in Nat
  PROVE  \E kept : IsSelection(kept, s, S, n)
<1>. DEFINE P == {k \in Nat : \E kept : IsSelection(kept, s, S, k)}
<1>1. 0 \in P
  <2>. DEFINE kept == [x \in SUBSET (1..0) |-> <<>>]
  <2>1. \A x \in SUBSET (1..0) : x = {}
    OBVIOUS
  <2>2. IsSelection(kept, s, S, 0)
    BY <2>1 DEF IsSelection
  <2>. QED
    BY <2>2
<1>2. ASSUME NEW k \in Nat, k \in P PROVE k + 1 \in P
  <2>1. PICK old : IsSelection(old, s, S, k)
    BY <1>2
  <2>. DEFINE with(x) == IF s[k + 1] \in S THEN Append(old[x \ {k + 1}], s[k + 1])
                         ELSE old[x \ {k + 1}]
              kept == [x \in SUBSET (1..k + 1) |-> IF k + 1 \in x THEN with(x) ELSE old[x]]
  <2>2. ASSUME NEW x \in SUBSET (1..k + 1)
        PROVE  kept[x] = IF x = {} THEN <<>>
                         ELSE IF s[Max(x)] \in S THEN Append(kept[x \ {Max(x)}], s[Max(x)])
                         ELSE kept[x \ {Max(x)}]
    <3>1. CASE k + 1 \in x
      <4>1. Max(x) = k + 1 /\ x \ {k + 1} \in SUBSET (1..k) /\ x # {}
        BY <3>1, GreatestOfRange
      <4>2. kept[x \ {k + 1}] = old[x \ {k + 1}]
        <5>1. x \ {k + 1} \in SUBSET (1..k + 1) /\ k + 1 \notin x \ {k + 1}
          OBVIOUS
        <5>. QED
          BY <5>1
      <4>3. kept[x] = with(x)
        BY <3>1
      <4>. HIDE DEF kept
      <4>. QED
        BY <4>1, <4>2, <4>3
    <3>2. CASE k + 1 \notin x
      <4>1. x \in SUBSET (1..k) /\ kept[x] = old[x]
        BY <3>2
      <4>2. old[x] = IF x = {} THEN <<>>
                     ELSE IF s[Max(x)] \in S THEN Append(old[x \ {Max(x)}], s[Max(x)])
                     ELSE old[x \ {Max(x)}]
        BY <2>1, <4>1, Zenon DEF IsSelection
      <4>3. kept[x \ {Max(x)}] = old[x \ {Max(x)}]
        <5>1. x \ {Max(x)} \in SUBSET (1..k + 1) /\ k + 1 \notin x \ {Max(x)}
          BY <3>2
        <5>. QED
          BY <5>1
      <4>. HIDE DEF kept
      <4>. QED
        BY <4>1, <4>2, <4>3
    <3>. QED
      BY <3>1, <3>2
  <2>3. kept = [x \in SUBSET (1..k + 1) |-> kept[x]]
    OBVIOUS
  <2>. HIDE DEF kept
  <2>4. IsSelection(kept, s, S, k + 1)
    BY <2>2, <2>3 DEF IsSelection
  <2>. QED
    BY <2>4
<1>. HIDE DEF P
<1>3. Nat \subseteq P
  BY <1>1, <1>2, Induction
<1>. QED
  BY <1>3 DEF P

(* The members of s up to index n that are in S, each once and in order. *)
Selects(those, s, S, n) ==
  \E at \in [1..Len(those) -> {i \in 1..n : s[i] \in S}] :
    /\ \A j \in 1..Len(those) : those[j] = s[at[j]]
    /\ \A j, l \in 1..Len(those) : j < l => at[j] < at[l]
    /\ \A i \in 1..n : s[i] \in S => \E j \in 1..Len(those) : at[j] = i

LEMMA SelectsOneMore ==
  ASSUME NEW s, NEW S, NEW n \in Nat, NEW those \in Seq(S), Selects(those, s, S, n),
         s[n + 1] \in S
  PROVE  Append(those, s[n + 1]) \in Seq(S) /\ Selects(Append(those, s[n + 1]), s, S, n + 1)
<1>. DEFINE more == Append(those, s[n + 1])
            m == Len(those)
            In(k) == {i \in 1..k : s[i] \in S}
<1>1. PICK at \in [1..m -> In(n)] :
        /\ \A j \in 1..m : those[j] = s[at[j]]
        /\ \A j, l \in 1..m : j < l => at[j] < at[l]
        /\ \A i \in 1..n : s[i] \in S => \E j \in 1..m : at[j] = i
  BY DEF Selects
<1>2. /\ m \in Nat /\ more \in Seq(S) /\ Len(more) = m + 1
      /\ \A j \in 1..m : more[j] = those[j]
      /\ more[m + 1] = s[n + 1]
  OBVIOUS
<1>. DEFINE upTo == [j \in 1..m + 1 |-> IF j = m + 1 THEN n + 1 ELSE at[j]]
<1>. HIDE DEF more, m
<1>3. /\ \A j \in 1..m : j \in 1..m + 1 /\ upTo[j] = at[j] /\ at[j] \in In(n)
      /\ upTo[m + 1] = n + 1 /\ m + 1 \in 1..m + 1
      /\ \A j \in 1..m + 1 : j = m + 1 \/ j \in 1..m
  BY <1>1, <1>2
<1>4. upTo \in [1..m + 1 -> In(n + 1)]
  <2>1. n + 1 \in In(n + 1) /\ In(n) \subseteq In(n + 1)
    OBVIOUS
  <2>. HIDE DEF In
  <2>2. \A j \in 1..m + 1 : upTo[j] \in In(n + 1)
    BY <1>3, <2>1
  <2>. QED
    BY <2>2
<1>5. \A j \in 1..m + 1 : more[j] = s[upTo[j]]
  <2>. HIDE DEF upTo
  <2>. QED
    BY <1>1, <1>2, <1>3
<1>6. \A j, l \in 1..m + 1 : j < l => upTo[j] < upTo[l]
  <2>. HIDE DEF upTo
  <2>1. \A j \in 1..m : at[j] \in 1..n
    BY <1>3
  <2>. HIDE DEF In
  <2>2. ASSUME NEW j \in 1..m + 1, NEW l \in 1..m + 1, j < l PROVE upTo[j] < upTo[l]
    <3>1. j \in 1..m
      BY <1>2, <2>2
    <3>2. CASE l = m + 1
      BY <1>3, <2>1, <3>1, <3>2
    <3>3. CASE l \in 1..m
      BY <1>1, <1>3, <2>2, <3>1, <3>3
    <3>. QED
      BY <1>3, <3>2, <3>3
  <2>. QED
    BY <2>2
<1>7. \A i \in 1..n + 1 : s[i] \in S => \E j \in 1..m + 1 : upTo[j] = i
  <2>. HIDE DEF upTo, In
  <2>1. ASSUME NEW i \in 1..n + 1, s[i] \in S PROVE \E j \in 1..m + 1 : upTo[j] = i
    <3>1. CASE i = n + 1
      BY <1>3, <3>1
    <3>2. CASE i # n + 1
      <4>1. i \in 1..n
        BY <3>2
      <4>. QED
        BY <1>1, <1>3, <2>1, <4>1
    <3>. QED
      BY <3>1, <3>2
  <2>. QED
    BY <2>1
<1>. HIDE DEF upTo, In
<1>8. \E up \in [1..Len(more) -> In(n + 1)] :
        /\ \A j \in 1..Len(more) : more[j] = s[up[j]]
        /\ \A j, l \in 1..Len(more) : j < l => up[j] < up[l]
        /\ \A i \in 1..n + 1 : s[i] \in S => \E j \in 1..Len(more) : up[j] = i
  <2>1. Len(more) = m + 1
    BY <1>2
  <2>2. /\ upTo \in [1..Len(more) -> In(n + 1)]
        /\ \A j \in 1..Len(more) : more[j] = s[upTo[j]]
        /\ \A j, l \in 1..Len(more) : j < l => upTo[j] < upTo[l]
        /\ \A i \in 1..n + 1 : s[i] \in S => \E j \in 1..Len(more) : upTo[j] = i
    BY <1>4, <1>5, <1>6, <1>7, <2>1
  <2>. QED
    BY <2>2, Zenon
<1>. QED
  BY <1>2, <1>8, Zenon DEF Selects, more, In

LEMMA SelectsNoMore ==
  ASSUME NEW s, NEW S, NEW n \in Nat, NEW those, Selects(those, s, S, n), s[n + 1] \notin S
  PROVE  Selects(those, s, S, n + 1)
<1>. DEFINE In(k) == {i \in 1..k : s[i] \in S}
<1>1. In(n + 1) = In(n)
  <2>1. \A i \in 1..n + 1 : i = n + 1 \/ i \in 1..n
    OBVIOUS
  <2>2. \A i \in 1..n : i \in 1..n + 1
    OBVIOUS
  <2>. QED
    BY <2>1, <2>2
<1>2. \A i \in 1..n + 1 : s[i] \in S => i \in 1..n
  OBVIOUS
<1>3. PICK at \in [1..Len(those) -> In(n)] :
        /\ \A j \in 1..Len(those) : those[j] = s[at[j]]
        /\ \A j, l \in 1..Len(those) : j < l => at[j] < at[l]
        /\ \A i \in 1..n : s[i] \in S => \E j \in 1..Len(those) : at[j] = i
  BY DEF Selects
<1>4. at \in [1..Len(those) -> In(n + 1)]
  BY <1>1
<1>5. \A i \in 1..n + 1 : s[i] \in S => \E j \in 1..Len(those) : at[j] = i
  BY <1>2, <1>3
<1>. QED
  BY <1>3, <1>4, <1>5, Zenon DEF Selects

(* What is selected of s from S: the members of s that are in S, each as     *)
(* often as it is there and in the order of s.                              *)
LEMMA ThoseSelected ==
  ASSUME NEW s, Len(s) \in Nat, DOMAIN s = 1..Len(s), NEW S
  PROVE  Those(s, S) \in Seq(S) /\ Selects(Those(s, S), s, S, Len(s))
<1>. DEFINE n == Len(s)
            kept == CHOOSE k : IsSelection(k, s, S, n)
<1>1. IsSelection(kept, s, S, n)
  BY SelectionExists
<1>2. Those(s, S) = kept[1..n]
  BY DEF Those, FoldLeft, MapThenFoldSet, IsSelection
<1>. HIDE DEF kept
<1>. DEFINE P == {k \in Nat : k <= n => kept[1..k] \in Seq(S) /\ Selects(kept[1..k], s, S, k)}
<1>3. 0 \in P
  <2>1. 1..0 = {} /\ {} \in SUBSET (1..n)
    OBVIOUS
  <2>2. kept[{}] = <<>>
    BY <1>1, <2>1, Zenon DEF IsSelection
  <2>3. kept[1..0] = <<>> /\ <<>> \in Seq(S)
    BY <2>1, <2>2
  <2>4. Selects(<<>>, s, S, 0)
    <3>1. Len(<<>>) = 0
      OBVIOUS
    <3>2. <<>> \in [{} -> {i \in 1..0 : s[i] \in S}]
      OBVIOUS
    <3>. QED
      BY <2>1, <3>1, <3>2, Zenon DEF Selects
  <2>. QED
    BY <2>3, <2>4
<1>4. ASSUME NEW k \in Nat, k \in P PROVE k + 1 \in P
  <2>1. SUFFICES ASSUME k + 1 <= n
                 PROVE  kept[1..k + 1] \in Seq(S) /\ Selects(kept[1..k + 1], s, S, k + 1)
    OBVIOUS
  <2>. DEFINE x == 1..k + 1
  <2>2. x \in SUBSET (1..n) /\ x # {} /\ x \in SUBSET (1..k + 1) /\ k + 1 \in x
    <3>1. n \in Nat
      OBVIOUS
    <3>. HIDE DEF n
    <3>2. \A i \in 1..k + 1 : i \in 1..n
      BY <2>1, <3>1
    <3>3. k + 1 \in 1..k + 1
      OBVIOUS
    <3>. QED
      BY <3>2, <3>3
  <2>3. Max(x) = k + 1
    BY <2>2, GreatestOfRange, Zenon
  <2>4. x \ {k + 1} = 1..k
    OBVIOUS
  <2>5. kept[1..k] \in Seq(S) /\ Selects(kept[1..k], s, S, k)
    BY <1>4, <2>1
  <2>. HIDE DEF x
  <2>6. kept[x] = IF s[Max(x)] \in S THEN Append(kept[x \ {Max(x)}], s[Max(x)])
                  ELSE kept[x \ {Max(x)}]
    BY <1>1, <2>2, Zenon DEF IsSelection
  <2>7. kept[x] \in Seq(S) /\ Selects(kept[x], s, S, k + 1)
    <3>1. CASE s[k + 1] \in S
      <4>1. kept[x] = Append(kept[1..k], s[k + 1])
        BY <2>3, <2>4, <2>6, <3>1
      <4>. QED
        BY <2>5, <3>1, <4>1, SelectsOneMore, Zenon
    <3>2. CASE s[k + 1] \notin S
      <4>1. kept[x] = kept[1..k]
        BY <2>3, <2>4, <2>6, <3>2
      <4>. QED
        BY <2>5, <3>2, <4>1, SelectsNoMore, Zenon
    <3>. QED
      BY <3>1, <3>2
  <2>. QED
    BY <2>7 DEF x
<1>. HIDE DEF P
<1>5. Nat \subseteq P
  BY <1>3, <1>4, Induction
<1>6. kept[1..n] \in Seq(S) /\ Selects(kept[1..n], s, S, n)
  BY <1>5 DEF P
<1>. QED
  BY <1>2, <1>6

(* The fields of events: none has no end, none holds a call. *)
EventKinds == {"num", "tag", "opt", "addr", "list", "error", "result"}

LEMMA EventTableRegular ==
  /\ \A t \in EventTypes : /\ t.pallet \in Nat /\ t.variant \in Nat
                           /\ t.fields \in Seq(EventKinds)
  /\ \A t, u \in EventTypes : Header(t) = Header(u) => t = u
<1>. DEFINE Fits(t) == t.pallet \in Nat /\ t.variant \in Nat /\ t.fields \in Seq(EventKinds)
<1>1. (\A t \in SystemEvents : Fits(t)) /\ Numbered(SystemEvents, 0, {0, 1})
  BY DEF SystemEvents, DispatchInfo, T, EventKinds, Numbered
<1>2. (\A t \in UtilityEvents : Fits(t)) /\ Numbered(UtilityEvents, 1, {0, 1, 2, 3, 4, 5})
  BY DEF UtilityEvents, T, EventKinds, Numbered
<1>3. (\A t \in BalancesEvents : Fits(t)) /\ Numbered(BalancesEvents, 6, {0, 1, 2, 4, 5, 7, 8, 9})
  BY DEF BalancesEvents, T, EventKinds, Numbered
<1>4. (\A t \in LockEvents : Fits(t)) /\ Numbered(LockEvents, 6, {17, 18, 19, 20})
  BY DEF LockEvents, T, EventKinds, Numbered
<1>5. (\A t \in PaymentEvents : Fits(t)) /\ Numbered(PaymentEvents, 7, {0})
  BY DEF PaymentEvents, T, EventKinds, Numbered
<1>6. (\A t \in StakingEvents : Fits(t)) /\ Numbered(StakingEvents, 10, {6, 7, 13, 11, 0, 1})
  BY DEF StakingEvents, T, EventKinds, Numbered
<1>7. (\A t \in StashEvents : Fits(t)) /\ Numbered(StashEvents, 10, {2, 8, 9, 12})
  BY DEF StashEvents, T, EventKinds, Numbered
<1>8. (\A t \in TreasuryEvents : Fits(t)) /\ Numbered(TreasuryEvents, 18, {8})
  BY DEF TreasuryEvents, T, EventKinds, Numbered
<1>9. /\ \A t \in DataAvailabilityEvents : Fits(t)
      /\ Numbered(DataAvailabilityEvents, 29, {0, 1})
  BY DEF DataAvailabilityEvents, T, EventKinds, Numbered
<1>10. (\A t \in MultisigEvents : Fits(t)) /\ Numbered(MultisigEvents, 34, {0, 1, 2, 3})
  BY DEF MultisigEvents, T, EventKinds, Numbered
<1>11. (\A t \in ProxyEvents : Fits(t)) /\ Numbered(ProxyEvents, 40, {0, 1, 2, 3, 4})
  BY DEF ProxyEvents, T, EventKinds, Numbered
<1>. DEFINE Balances == BalancesEvents \union LockEvents
            Staking == StakingEvents \union StashEvents
<1>12. Numbered(Balances, 6, {0, 1, 2, 4, 5, 7, 8, 9} \union {17, 18, 19, 20})
  <2>1. {0, 1, 2, 4, 5, 7, 8, 9} \cap {17, 18, 19, 20} = {}
    OBVIOUS
  <2>. QED
    BY <1>3, <1>4, <2>1, NumberedTogether
<1>13. Numbered(Staking, 10, {6, 7, 13, 11, 0, 1} \union {2, 8, 9, 12})
  <2>1. {6, 7, 13, 11, 0, 1} \cap {2, 8, 9, 12} = {}
    OBVIOUS
  <2>. QED
    BY <1>6, <1>7, <2>1, NumberedTogether
<1>. HIDE DEF Fits
<1>14. \A t \in EventTypes : Fits(t)
  BY <1>1, <1>2, <1>3, <1>4, <1>5, <1>6, <1>7, <1>8, <1>9, <1>10, <1>11 DEF EventTypes
<1>15. ASSUME NEW t \in EventTypes, NEW u \in EventTypes, Header(t) = Header(u) PROVE t = u
  <2>1. t.pallet = u.pallet /\ t.variant = u.variant
    BY <1>15 DEF Header
  <2>2. \A e \in EventTypes :
          e \in UNION {SystemEvents, UtilityEvents, Balances, PaymentEvents, Staking,
                        TreasuryEvents, DataAvailabilityEvents, MultisigEvents, ProxyEvents}
    BY DEF EventTypes
  <2>. HIDE DEF Balances, Staking
  <2>. QED
    BY <1>1, <1>2, <1>5, <1>8, <1>9, <1>10, <1>11, <1>12, <1>13, <2>1, <2>2 DEF Numbered
<1>. QED
  BY <1>14, <1>15 DEF Fits

(* The names that are looked for name one type. *)
LookedFor == {"ExtrinsicSuccess", "ExtrinsicFailed", "ProxyExecuted", "MultisigExecuted"}

LEMMA OneOfName ==
  ASSUME NEW t0 \in EventTypes, \A t \in EventTypes : t.name = t0.name => t = t0
  PROVE  EventType(t0.name) = t0
BY DEF EventType

LEMMA NamedEvents ==
  /\ EventType("ExtrinsicSuccess") = T("ExtrinsicSuccess", 0, 0, DispatchInfo)
  /\ EventType("ExtrinsicFailed") = T("ExtrinsicFailed", 0, 1, <<"error">> \o DispatchInfo)
  /\ EventType("ProxyExecuted") = T("ProxyExecuted", 40, 0, <<"result">>)
  /\ EventType("MultisigExecuted")
       = T("MultisigExecuted", 34, 2, <<"num", "num", "num", "num", "result">>)
  /\ \A name \in LookedFor :
       /\ EventType(name) \in EventTypes
       /\ \A t \in EventTypes : t.name = name <=> t = EventType(name)
<1>. DEFINE success == T("ExtrinsicSuccess", 0, 0, DispatchInfo)
            failed == T("ExtrinsicFailed", 0, 1, <<"error">> \o DispatchInfo)
            proxy == T("ProxyExecuted", 40, 0, <<"result">>)
            multisig == T("MultisigExecuted", 34, 2, <<"num", "num", "num", "num", "result">>)
            Other(S) == \A t \in S : t.name \notin LookedFor
            LookedUp == {success, failed, proxy, multisig}
<1>1. SystemEvents = {success, failed}
  BY DEF SystemEvents
<1>2. Other(UtilityEvents) /\ Other(BalancesEvents) /\ Other(LockEvents) /\ Other(PaymentEvents)
  BY DEF UtilityEvents, BalancesEvents, LockEvents, PaymentEvents, T, LookedFor
<1>3. Other(StakingEvents) /\ Other(StashEvents) /\ Other(TreasuryEvents)
  BY DEF StakingEvents, StashEvents, TreasuryEvents, T, LookedFor
<1>4. Other(DataAvailabilityEvents)
  BY DEF DataAvailabilityEvents, T, LookedFor
<1>5. multisig \in MultisigEvents /\ Other(MultisigEvents \ {multisig})
  BY DEF MultisigEvents, T, LookedFor
<1>6. proxy \in ProxyEvents /\ Other(ProxyEvents \ {proxy})
  BY DEF ProxyEvents, T, LookedFor
<1>7. /\ success.name = "ExtrinsicSuccess" /\ failed.name = "ExtrinsicFailed"
      /\ proxy.name = "ProxyExecuted" /\ multisig.name = "MultisigExecuted"
  BY DEF T
<1>. HIDE DEF success, failed, proxy, multisig
<1>8. Other(EventTypes \ LookedUp) /\ LookedUp \subseteq EventTypes
  BY <1>1, <1>2, <1>3, <1>4, <1>5, <1>6 DEF EventTypes
<1>9. \A t0 \in LookedUp : t0.name \in LookedFor /\ \A t \in EventTypes : t.name = t0.name => t = t0
  BY <1>7, <1>8 DEF LookedFor
<1>10. \A t0 \in LookedUp : EventType(t0.name) = t0
  BY <1>8, <1>9, OneOfName
<1>11. /\ EventType("ExtrinsicSuccess") = success /\ EventType("ExtrinsicFailed") = failed
       /\ EventType("ProxyExecuted") = proxy /\ EventType("MultisigExecuted") = multisig
  BY <1>7, <1>10
<1>12. ASSUME NEW name \in LookedFor
       PROVE  /\ EventType(name) \in EventTypes
              /\ \A t \in EventTypes : t.name = name <=> t = EventType(name)
  <2>1. PICK t0 \in LookedUp : t0.name = name
    BY <1>7 DEF LookedFor
  <2>. QED
    BY <1>8, <1>9, <1>10, <2>1
<1>. QED
  BY <1>11, <1>12 DEF success, failed, proxy, multisig

LEMMA ConcatElements ==
  ASSUME NEW v \in Seq(Nat), NEW rest \in Seq(Nat)
  PROVE  /\ \A i \in 1..Len(v) : (v \o rest)[i] = v[i]
         /\ Len(v \o rest) >= Len(v)
OBVIOUS

LEMMA HeadFirst ==
  ASSUME NEW v \in Seq(Nat), Len(v) >= 1
  PROVE  v = <<Head(v)>> \o Tail(v)
<1>1. Tail(v) \in Seq(Nat) /\ Len(Tail(v)) = Len(v) - 1 /\ <<Head(v)>> \in Seq(Nat)
  OBVIOUS
<1>. DEFINE w == <<Head(v)>> \o Tail(v)
<1>2. w \in Seq(Nat) /\ Len(w) = Len(v)
  BY <1>1, ConcatShape
<1>3. ASSUME NEW i \in 1..Len(v) PROVE w[i] = v[i]
  <2>1. CASE i = 1
    BY <1>1, <2>1
  <2>2. CASE i # 1
    <3>1. w[i] = Tail(v)[i - 1] /\ Tail(v)[i - 1] = v[i]
      BY <1>1, <2>2
    <3>. QED
      BY <3>1
  <2>. QED
    BY <2>1, <2>2
<1>. HIDE DEF w
<1>. QED
  BY <1>2, <1>3 DEF w

(* The values of an event's field. *)
EventFieldReads(kind, v) ==
  /\ v \in Seq(Nat) /\ Len(v) >= 1
  /\ \A rest \in Seq(Nat) : ReadPlain(kind, v \o rest) = Ok(v, rest)

LEMMA ReadOfWidth ==
  ASSUME NEW kind, kind # "role", NEW v \in Seq(Nat), Len(v) >= 1,
         \A rest \in Seq(Nat) : Width(kind, v \o rest) = Len(v)
  PROVE  EventFieldReads(kind, v)
<1>1. ASSUME NEW rest \in Seq(Nat)
      PROVE  ReadPlain(kind, v \o rest) = Ok(v, rest)
  <2>1. Width(kind, v \o rest) = Len(v)
    OBVIOUS
  <2>2. Len(v) \in 0..Len(v \o rest)
    BY ConcatParts
  <2>3. /\ SubSeq(v \o rest, 1, Len(v)) = v
        /\ SubSeq(v \o rest, Len(v) + 1, Len(v \o rest)) = rest
    BY ConcatParts
  <2>4. Rewritten(kind, v) = v
    BY DEF Rewritten
  <2>. QED
    BY <2>1, <2>2, <2>3, <2>4, Zenon DEF ReadPlain
<1>. QED
  BY <1>1 DEF EventFieldReads

(* A DispatchError says by its first bytes where it ends. *)
LEMMA ErrorReads ==
  ASSUME NEW v \in Samples("error")
  PROVE  /\ v \in Seq(Nat) /\ Len(v) >= 1
         /\ \A rest \in Seq(Nat) : ErrorWidth(v \o rest) = Len(v)
<1>1. CASE v = <<2>>
  <2>1. v \in Seq(Nat) /\ Len(v) = 1 /\ v[1] = 2
    BY <1>1
  <2>2. ASSUME NEW rest \in Seq(Nat) PROVE ErrorWidth(v \o rest) = 1
    <3>1. (v \o rest)[1] = 2
      BY <2>1, ConcatParts
    <3>. QED
      BY <3>1 DEF ErrorWidth
  <2>. QED
    BY <2>1, <2>2
<1>2. CASE v = <<3, 10, 6>>
  <2>1. v \in Seq(Nat) /\ Len(v) = 3 /\ v[1] = 3
    BY <1>2
  <2>2. ASSUME NEW rest \in Seq(Nat) PROVE ErrorWidth(v \o rest) = 3
    <3>1. (v \o rest)[1] = 3
      BY <2>1, ConcatParts
    <3>. QED
      BY <3>1 DEF ErrorWidth
  <2>. QED
    BY <2>1, <2>2
<1>3. CASE v = <<7, 1>>
  <2>1. v \in Seq(Nat) /\ Len(v) = 2 /\ v[1] = 7 /\ v[2] = 1
    BY <1>3
  <2>2. ASSUME NEW rest \in Seq(Nat) PROVE ErrorWidth(v \o rest) = 2
    <3>1. (v \o rest)[1] = 7 /\ (v \o rest)[2] = 1 /\ Len(v \o rest) > 1
      <4>1. /\ \A i \in 1..Len(v) : (v \o rest)[i] = v[i]
            /\ Len(v \o rest) >= Len(v)
        BY <2>1, ConcatElements
      <4>. QED
        BY <2>1, <4>1
    <3>2. <<9, 2, 1>>[7 - 6] = 9
      OBVIOUS
    <3>. QED
      BY <3>1, <3>2 DEF ErrorWidth
  <2>. QED
    BY <2>1, <2>2
<1>4. v \in {<<2>>, <<3, 10, 6>>, <<7, 1>>}
  BY DEF Samples
<1>. QED
  BY <1>1, <1>2, <1>3, <1>4

LEMMA SampleReads ==
  ASSUME NEW kind \in EventKinds, NEW v \in Samples(kind)
  PROVE  EventFieldReads(kind, v)
<1>1. CASE kind \in {"num", "tag", "opt", "addr", "list"}
  <2>1. kind \in Bounded \ {"rtcall"} /\ kind # "members"
    BY <1>1 DEF Bounded, Kinds
  <2>2. WellFormed(kind, v)
    BY <2>1, FieldWellFormed DEF Field
  <2>3. v \in Seq(Nat) /\ Len(v) >= 1
    BY <1>1, <2>2 DEF WellFormed
  <2>4. Readable(kind, v)
    BY <1>1 DEF Readable
  <2>. QED
    BY <2>1, <2>2, <2>3, <2>4, FieldReads DEF EventFieldReads
<1>2. CASE kind = "error"
  <2>1. v \in Seq(Nat) /\ Len(v) >= 1
    BY <1>2, ErrorReads
  <2>2. ASSUME NEW rest \in Seq(Nat) PROVE Width(kind, v \o rest) = Len(v)
    <3>1. v \o rest # <<>>
      BY <2>1, ConcatParts
    <3>. QED
      BY <1>2, <3>1, ErrorReads DEF Width
  <2>. QED
    BY <1>2, <2>1, <2>2, ReadOfWidth
<1>3. CASE kind = "result"
  <2>1. CASE v = <<0>>
    <3>1. v \in Seq(Nat) /\ Len(v) = 1 /\ v[1] = 0
      BY <2>1
    <3>2. ASSUME NEW rest \in Seq(Nat) PROVE Width(kind, v \o rest) = Len(v)
      <4>1. v \o rest # <<>> /\ (v \o rest)[1] = 0
        BY <3>1, ConcatParts
      <4>. QED
        BY <1>3, <3>1, <4>1 DEF Width
    <3>3. Len(v) >= 1
      BY <3>1
    <3>. QED
      BY <1>3, <3>1, <3>2, <3>3, ReadOfWidth
  <2>2. ASSUME v \in Seq(Nat), Len(v) >= 2, v[1] = 1, Tail(v) \in Samples("error")
        PROVE  EventFieldReads(kind, v)
    <3>. DEFINE e == Tail(v)
    <3>1. e \in Seq(Nat) /\ Len(e) >= 1 /\ \A rest \in Seq(Nat) : ErrorWidth(e \o rest) = Len(e)
      BY <2>2, ErrorReads
    <3>2. Len(v) = 1 + Len(e) /\ v = <<1>> \o e
      <4>1. Head(v) = 1 /\ Len(v) >= 1 /\ Len(e) = Len(v) - 1
        BY <2>2
      <4>. QED
        BY <2>2, <4>1, HeadFirst
    <3>. HIDE DEF e
    <3>3. ASSUME NEW rest \in Seq(Nat) PROVE Width(kind, v \o rest) = Len(v)
      <4>1. /\ v \o rest \in Seq(Nat) /\ v \o rest # <<>> /\ (v \o rest)[1] = 1
            /\ Len(v \o rest) >= 2
        BY <2>2, ConcatParts
      <4>2. v \o rest = <<1>> \o (e \o rest)
        <5>1. <<1>> \in Seq(Nat)
          OBVIOUS
        <5>. QED
          BY <3>1, <3>2, <5>1, BytesAssociative
      <4>3. Tail(v \o rest) = e \o rest
        <5>. DEFINE x == e \o rest
        <5>1. x \in Seq(Nat)
          BY <3>1, ConcatShape
        <5>. HIDE DEF x
        <5>2. Tail(<<1>> \o x) = x
          BY <5>1
        <5>. QED
          BY <4>2, <5>2 DEF x
      <4>4. ErrorWidth(Tail(v \o rest)) = Len(e)
        BY <3>1, <4>3
      <4>. QED
        BY <1>3, <3>1, <3>2, <4>1, <4>4 DEF Width
    <3>4. Len(v) >= 1
      BY <2>2
    <3>. QED
      BY <1>3, <2>2, <3>3, <3>4, ReadOfWidth
  <2>3. v = <<0>> \/ (v \in Seq(Nat) /\ Len(v) >= 2 /\ v[1] = 1 /\ Tail(v) \in Samples("error"))
    <3>1. v = <<0>> \/ v = <<1, 2>> \/ v = <<1, 3, 10, 6>>
      BY <1>3 DEF Samples
    <3>2. <<2>> \in Samples("error") /\ <<3, 10, 6>> \in Samples("error")
      BY DEF Samples
    <3>3. CASE v = <<1, 2>>
      <4>1. v \in Seq(Nat) /\ Len(v) >= 2 /\ v[1] = 1 /\ Tail(v) = <<2>>
        BY <3>3
      <4>. QED
        BY <3>2, <4>1, Zenon
    <3>4. CASE v = <<1, 3, 10, 6>>
      <4>1. v \in Seq(Nat) /\ Len(v) >= 2 /\ v[1] = 1 /\ Tail(v) = <<3, 10, 6>>
        BY <3>4
      <4>. QED
        BY <3>2, <4>1, Zenon
    <3>. QED
      BY <3>1, <3>3, <3>4
  <2>. QED
    BY <2>1, <2>2, <2>3
<1>. QED
  BY <1>1, <1>2, <1>3 DEF EventKinds

-----------------------------------------------------------------------------
(* An event reads back *)

(* What the runtime writes. *)
Events ==
  {e \in [type : EventTypes, args : Seq(Seq(Nat))] :
     /\ Len(e.args) = Len(e.type.fields)
     /\ \A i \in 1..Len(e.args) : e.args[i] \in Samples(e.type.fields[i])}

LEMMA EventArguments ==
  ASSUME NEW e \in Events
  PROVE  /\ e.type \in EventTypes /\ e = [type |-> e.type, args |-> e.args]
         /\ e.args \in Seq(Seq(Nat)) /\ Len(e.args) = Len(e.type.fields)
         /\ e.type.fields \in Seq(EventKinds)
         /\ \A i \in 1..Len(e.args) : /\ e.args[i] \in Samples(e.type.fields[i])
                                      /\ e.type.fields[i] \in EventKinds
                                      /\ EventFieldReads(e.type.fields[i], e.args[i])
<1>1. /\ e.type \in EventTypes /\ e = [type |-> e.type, args |-> e.args]
      /\ e.args \in Seq(Seq(Nat)) /\ Len(e.args) = Len(e.type.fields)
      /\ \A i \in 1..Len(e.args) : e.args[i] \in Samples(e.type.fields[i])
  BY DEF Events
<1>2. e.type.fields \in Seq(EventKinds)
  BY <1>1, EventTableRegular
<1>3. \A i \in 1..Len(e.args) : e.type.fields[i] \in EventKinds
  BY <1>1, <1>2
<1>. QED
  BY <1>1, <1>2, <1>3, SampleReads

LEMMA EventFieldsRead ==
  ASSUME NEW e \in Events, NEW nested
  PROVE  /\ FieldBytes(e) \in Seq(Nat)
         /\ ReadAs(e.type, FieldBytes(e), nested) = Ok(e, <<>>)
<1>. DEFINE fields == e.type.fields
            n == Len(e.args)
            readers == [i \in 1..n |-> FieldReader(fields[i], nested)]
<1>1. /\ e = [type |-> e.type, args |-> e.args]
      /\ e.args \in Seq(Seq(Nat)) /\ n \in Nat /\ Len(fields) = n
      /\ \A i \in 1..n : fields[i] # "rtcall" /\ EventFieldReads(fields[i], e.args[i])
  <2>1. "rtcall" \notin EventKinds
    BY DEF EventKinds
  <2>. QED
    BY <2>1, EventArguments
<1>2. <<>> \in Seq(Nat)
  OBVIOUS
<1>3. FieldBytes(e) \in Seq(Nat)
  BY <1>1, <1>2, FlattenSplits DEF FieldBytes
<1>4. PICK tails : Splits(tails, e.args, n, FieldBytes(e) \o <<>>, <<>>)
  BY <1>1, <1>2, FlattenSplits DEF FieldBytes
<1>5. FieldBytes(e) \o <<>> = FieldBytes(e)
  BY <1>3
<1>6. ASSUME NEW i \in 1..n
      PROVE  readers[i][tails[i - 1]] = Ok(e.args[i], tails[i])
  <2>1. /\ tails[i - 1] \in Seq(Nat) /\ tails[i] \in Seq(Nat)
        /\ tails[i - 1] = e.args[i] \o tails[i]
    <3>1. i - 1 \in 0..n /\ i \in 0..n
      BY <1>1
    <3>. QED
      BY <1>4, <3>1 DEF Splits
  <2>2. readers[i][tails[i - 1]] = ReadPlain(fields[i], tails[i - 1])
    BY <1>1, <2>1 DEF FieldReader
  <2>3. ReadPlain(fields[i], e.args[i] \o tails[i]) = Ok(e.args[i], tails[i])
    BY <1>1, <2>1 DEF EventFieldReads
  <2>. QED
    BY <2>1, <2>2, <2>3
<1>7. Len(readers) = n /\ tails[0] = FieldBytes(e) /\ tails[n] = <<>>
  BY <1>1, <1>4, <1>5 DEF Splits
<1>8. readers = [i \in 1..Len(e.type.fields) |-> FieldReader(e.type.fields[i], nested)]
  BY <1>1
<1>. HIDE DEF readers
<1>9. ReadAll(readers, FieldBytes(e)) = Ok(e.args, <<>>)
  <2>1. Reads(readers, e.args, tails, n)
    BY <1>6 DEF Reads
  <2>2. n \in Nat /\ Len(e.args) = n /\ e.args \in Seq(Seq(Nat))
    BY <1>1
  <2>. HIDE DEF n
  <2>. QED
    BY <1>7, <2>1, <2>2, ReadsEach
<1>10. ReadAs(e.type, FieldBytes(e), nested) = Ok([type |-> e.type, args |-> e.args], <<>>)
  <2>1. Ok(e.args, <<>>).ok /\ Ok(e.args, <<>>).value = e.args /\ Ok(e.args, <<>>).rest = <<>>
    BY DEF Ok
  <2>. QED
    BY <1>8, <1>9, <2>1, Zenon DEF ReadAs
<1>. QED
  BY <1>1, <1>3, <1>10

LEMMA EventReads ==
  ASSUME NEW e \in Events, NEW t \in EventTypes
  PROVE  FromEvent(t, Bytes(e)) = IF t = e.type THEN Ok(e, <<>>) ELSE Err
<1>. DEFINE h == Header(e.type)
            x == FieldBytes(e)
<1>1. e.type \in EventTypes
  BY EventArguments
<1>2. h \in Seq(Nat) /\ Len(h) = 2
  BY <1>1, EventTableRegular DEF Header
<1>3. x \in Seq(Nat) /\ ReadAs(e.type, x, <<>>) = Ok(e, <<>>)
  BY EventFieldsRead
<1>. HIDE DEF h, x
<1>4. /\ SubSeq(h \o x, 1, 2) = h /\ SubSeq(h \o x, 3, Len(h \o x)) = x
      /\ Len(h \o x) >= 2
  <2>1. /\ SubSeq(h \o x, 1, Len(h)) = h /\ SubSeq(h \o x, Len(h) + 1, Len(h \o x)) = x
        /\ Len(h \o x) = Len(h) + Len(x)
    BY <1>2, <1>3, ConcatParts, Zenon
  <2>2. Len(x) \in Nat
    BY <1>3
  <2>. QED
    BY <1>2, <2>1, <2>2
<1>5. Bytes(e) = h \o x
  BY DEF Bytes, h, x
<1>6. HasHeader(t, Bytes(e)) <=> t = e.type
  BY <1>1, <1>4, <1>5, EventTableRegular DEF HasHeader, h
<1>. QED
  BY <1>3, <1>4, <1>5, <1>6 DEF FromEvent

-----------------------------------------------------------------------------
(* The events of an extrinsic *)

EventsInv == log \in Seq(Events)

LEMMA ChosenSample ==
  ASSUME NEW kind \in EventKinds, NEW pick \in 1..3, NEW values,
         values = SetToSeq(Samples(kind))
  PROVE  values[IF pick > Len(values) THEN Len(values) ELSE pick] \in Samples(kind)
<1>. DEFINE S == Samples(kind)
            m == Cardinality(S)
<1>1. IsFiniteSet(S) /\ S # {}
  <2>1. \A a : IsFiniteSet({a})
    BY FS_Singleton
  <2>2. \/ S = {<<6>>, <<10>>} \/ S = {<<0>>, <<1>>} \/ S = {<<0>>, <<1, 6>>}
        \/ S = {<<0, 3>>} \/ S = {<<0>>, <<2, 10, 6>>}
        \/ S = {<<2>>, <<3, 10, 6>>, <<7, 1>>} \/ S = {<<0>>, <<1, 2>>, <<1, 3, 10, 6>>}
    BY DEF Samples, EventKinds
  <2>. HIDE DEF S
  <2>3. ASSUME NEW a, NEW b PROVE IsFiniteSet({a, b})
    <3>1. IsFiniteSet({a} \cup {b})
      BY <2>1, FS_AddElement
    <3>. QED
      BY <3>1
  <2>4. ASSUME NEW a, NEW b, NEW c PROVE IsFiniteSet({a, b, c})
    <3>1. IsFiniteSet({a, b} \cup {c})
      BY <2>3, FS_AddElement
    <3>2. {a, b} \cup {c} = {a, b, c}
      OBVIOUS
    <3>. QED
      BY <3>1, <3>2
  <2>5. /\ IsFiniteSet({<<6>>, <<10>>}) /\ IsFiniteSet({<<0>>, <<1>>})
        /\ IsFiniteSet({<<0>>, <<1, 6>>}) /\ IsFiniteSet({<<0, 3>>})
        /\ IsFiniteSet({<<0>>, <<2, 10, 6>>})
    BY <2>1, <2>3, Zenon
  <2>6. /\ IsFiniteSet({<<2>>, <<3, 10, 6>>, <<7, 1>>})
        /\ IsFiniteSet({<<0>>, <<1, 2>>, <<1, 3, 10, 6>>})
    BY <2>4, Zenon
  <2>7. IsFiniteSet(S)
    BY <2>2, <2>5, <2>6, Zenon
  <2>8. S # {}
    BY <2>2
  <2>. QED
    BY <2>7, <2>8
<1>. HIDE DEF S
<1>2. m \in Nat /\ m # 0
  BY <1>1, FS_CardinalityType, FS_EmptySet
<1>3. \E f \in [1..m -> S] : IsInjective(f)
  <2>1. ExistsBijection(1..m, S)
    BY <1>1, FS_CardinalityType
  <2>. QED
    BY <2>1 DEF ExistsBijection, Bijection, Injection, IsInjective
<1>4. values \in [1..m -> S]
  BY <1>3 DEF SetToSeq, S
<1>. HIDE DEF m
<1>5. Len(values) = m
  BY <1>2, <1>4
<1>. QED
  BY <1>2, <1>4, <1>5 DEF S

LEMMA EmitEventsInv ==
  ASSUME EventsInv, Emit
  PROVE  EventsInv'
<1>1. PICK t \in EventTypes, pick \in 1..3 :
        log' = Append(log, [type |-> t,
                            args |-> [i \in DOMAIN t.fields |->
                              LET values == SetToSeq(Samples(t.fields[i]))
                              IN  values[IF pick > Len(values) THEN Len(values) ELSE pick]]])
  BY DEF Emit
<1>. DEFINE picked(i) == LET values == SetToSeq(Samples(t.fields[i]))
                         IN  values[IF pick > Len(values) THEN Len(values) ELSE pick]
            args == [i \in DOMAIN t.fields |-> picked(i)]
            e == [type |-> t, args |-> args]
<1>2. t.fields \in Seq(EventKinds)
  BY EventTableRegular
<1>3. ASSUME NEW i \in DOMAIN t.fields PROVE picked(i) \in Samples(t.fields[i])
  <2>1. t.fields[i] \in EventKinds
    BY <1>2
  <2>. QED
    BY <2>1, ChosenSample
<1>4. ASSUME NEW i \in DOMAIN t.fields PROVE picked(i) \in Seq(Nat)
  <2>1. t.fields[i] \in EventKinds
    BY <1>2
  <2>. HIDE DEF picked
  <2>. QED
    BY <1>3, <2>1, SampleReads DEF EventFieldReads
<1>. HIDE DEF picked
<1>5. DOMAIN t.fields = 1..Len(t.fields) /\ Len(t.fields) \in Nat
  BY <1>2
<1>6. args \in Seq(Seq(Nat)) /\ Len(args) = Len(t.fields)
  BY <1>4, <1>5
<1>7. \A i \in 1..Len(args) : args[i] \in Samples(t.fields[i])
  BY <1>3, <1>5, <1>6
<1>. HIDE DEF args
<1>8. e \in Events
  BY <1>6, <1>7 DEF Events
<1>9. log' = Append(log, e)
  BY <1>1 DEF picked, args
<1>. HIDE DEF e
<1>. QED
  BY <1>8, <1>9 DEF EventsInv

LEMMA EventsInvariant == EventsSpec => []EventsInv
<1>1. EventsInit => EventsInv
  BY DEF EventsInit, EventsInv
<1>2. EventsInv /\ [EventsNext]_log => EventsInv'
  <2>1. EventsInv /\ UNCHANGED log => EventsInv'
    BY DEF EventsInv
  <2>. QED
    BY <2>1, EmitEventsInv DEF EventsNext
<1>. QED
  BY <1>1, <1>2, PTL DEF EventsSpec

(* The events that are read for a type are those of the type. *)
OfType(t) == {e \in Range(log) : e.type = t}

LEMMA ReadForType ==
  ASSUME EventsInv, NEW t \in EventTypes
  PROVE  /\ WithHeader(t) = Those(log, OfType(t))
         /\ WithHeader(t) \in Seq(Events)
         /\ \A i \in 1..Len(WithHeader(t)) : WithHeader(t)[i] \in Events
                                             /\ WithHeader(t)[i].type = t
<1>1. \A e \in Range(log) : e \in Events
  BY DEF EventsInv, Range
<1>2. \A e \in Range(log) : Header(e.type) = Header(t) <=> e.type = t
  BY <1>1, EventArguments, EventTableRegular
<1>3. WithHeader(t) = Those(log, OfType(t))
  <2>1. {e \in Range(log) : Header(e.type) = Header(t)} = OfType(t)
    BY <1>2 DEF OfType
  <2>. QED
    BY <2>1 DEF WithHeader
<1>4. Those(log, OfType(t)) \in Seq(OfType(t))
  <2>1. Len(log) \in Nat /\ DOMAIN log = 1..Len(log)
    BY DEF EventsInv
  <2>. QED
    BY <2>1, ThoseSelected
<1>5. \A e \in OfType(t) : e \in Events /\ e.type = t
  BY <1>1 DEF OfType
<1>. QED
  BY <1>3, <1>4, <1>5

LEMMA EventsOfTypeRead ==
  ASSUME EventsInv, NEW t \in EventTypes, NEW those, those = Those(log, OfType(t))
  PROVE  /\ WithHeader(t) = those /\ those \in Seq(Events)
         /\ \A i \in 1..Len(those) : those[i].type = t
         /\ AllEvents(t) = Ok(those, <<>>)
         /\ FirstEvent(t) = IF those = <<>> THEN <<>> ELSE <<Head(those)>>
         /\ LastEvent(t) = IF those = <<>> THEN <<>> ELSE <<Last(those)>>
<1>1. /\ WithHeader(t) = those /\ those \in Seq(Events)
      /\ \A i \in 1..Len(those) : those[i] \in Events /\ those[i].type = t
  BY ReadForType
<1>2. ASSUME NEW i \in 1..Len(those)
      PROVE  FromEvent(t, Bytes(those[i])) = Ok(those[i], <<>>)
  BY <1>1, EventReads
<1>3. AllEvents(t) = Ok(those, <<>>)
  <2>. DEFINE reads == [i \in DOMAIN those |-> FromEvent(t, Bytes(those[i]))]
  <2>1. DOMAIN those = 1..Len(those) /\ DOMAIN reads = DOMAIN those
    BY <1>1
  <2>2. \A i \in DOMAIN reads : reads[i] = Ok(those[i], <<>>)
    BY <1>2, <2>1
  <2>3. AllEvents(t) = IF \E i \in DOMAIN reads : ~ reads[i].ok THEN Err
                       ELSE Ok([i \in DOMAIN reads |-> reads[i].value], <<>>)
    BY <1>1, Zenon DEF AllEvents
  <2>. HIDE DEF reads
  <2>4. \A i \in DOMAIN reads : reads[i].ok /\ reads[i].value = those[i]
    BY <2>2 DEF Ok
  <2>5. [i \in DOMAIN reads |-> reads[i].value] = [i \in DOMAIN reads |-> those[i]]
    BY <2>4
  <2>6. [i \in DOMAIN reads |-> those[i]] = those
    BY <1>1, <2>1
  <2>. QED
    BY <2>3, <2>4, <2>5, <2>6, Zenon
<1>4. those # <<>> => /\ FromEvent(t, Bytes(Head(those))) = Ok(Head(those), <<>>)
                      /\ FromEvent(t, Bytes(Last(those))) = Ok(Last(those), <<>>)
  <2>1. those # <<>> => /\ 1 \in 1..Len(those) /\ Head(those) = those[1]
                        /\ Len(those) \in 1..Len(those)
    BY <1>1
  <2>. QED
    BY <1>2, <2>1 DEF Last
<1>5. \A e : OrNone(Ok(e, <<>>)) = <<e>>
  BY OkAndErr DEF OrNone
<1>6. FirstEvent(t) = IF those = <<>> THEN <<>> ELSE <<Head(those)>>
  BY <1>1, <1>4, <1>5, Zenon DEF FirstEvent
<1>7. LastEvent(t) = IF those = <<>> THEN <<>> ELSE <<Last(those)>>
  BY <1>1, <1>4, <1>5, Zenon DEF LastEvent
<1>. QED
  BY <1>1, <1>3, <1>6, <1>7

(* The last field of the two events that hold a result is the result. *)
LEMMA ResultRead ==
  ASSUME EventsInv, NEW name \in {"ProxyExecuted", "MultisigExecuted"},
         NEW those, those = Those(log, {e \in Range(log) : e.type.name = name})
  PROVE  Executed(name) = IF those = <<>> THEN <<>> ELSE <<Last(Head(those).args) = <<0>>>>
<1>. DEFINE t == EventType(name)
<1>1. t \in EventTypes /\ \A u \in EventTypes : u.name = name <=> u = t
  BY NamedEvents DEF LookedFor
<1>2. t.fields \in Seq(EventKinds) /\ Len(t.fields) >= 1 /\ t.fields[Len(t.fields)] = "result"
  <2>1. t.fields = <<"result">> \/ t.fields = <<"num", "num", "num", "num", "result">>
    BY NamedEvents DEF T
  <2>2. t.fields \in Seq(EventKinds)
    BY <1>1, EventTableRegular
  <2>3. CASE t.fields = <<"result">>
    BY <2>2, <2>3
  <2>4. CASE t.fields = <<"num", "num", "num", "num", "result">>
    BY <2>2, <2>4
  <2>. QED
    BY <2>1, <2>3, <2>4
<1>3. {e \in Range(log) : e.type.name = name} = OfType(t)
  <2>1. \A e \in Range(log) : e.type \in EventTypes
    BY EventArguments DEF EventsInv, Range
  <2>. QED
    BY <1>1, <2>1 DEF OfType
<1>4. /\ those \in Seq(Events) /\ \A i \in 1..Len(those) : those[i].type = t
      /\ FirstEvent(t) = IF those = <<>> THEN <<>> ELSE <<Head(those)>>
  BY <1>1, <1>3, EventsOfTypeRead
<1>5. CASE those = <<>>
  <2>1. FirstEvent(t) = <<>>
    BY <1>4, <1>5
  <2>. QED
    BY <1>5, <2>1 DEF Executed
<1>6. CASE those # <<>>
  <2>. DEFINE e == Head(those)
  <2>1. e \in Events /\ e.type = t
    BY <1>4, <1>6
  <2>2. Last(e.args) \in Samples("result")
    <3>1. /\ e.args \in Seq(Seq(Nat)) /\ Len(e.args) = Len(t.fields)
          /\ \A i \in 1..Len(e.args) : e.args[i] \in Samples(t.fields[i])
      BY <2>1, EventArguments
    <3>2. Len(e.args) \in 1..Len(e.args)
      BY <1>2, <3>1
    <3>. QED
      BY <1>2, <3>1, <3>2 DEF Last
  <2>3. Last(e.args)[1] = 0 <=> Last(e.args) = <<0>>
    <3>1. Last(e.args) \in {<<0>>, <<1, 2>>, <<1, 3, 10, 6>>}
      BY <2>2 DEF Samples
    <3>2. <<0>>[1] = 0 /\ <<1, 2>>[1] = 1 /\ <<1, 3, 10, 6>>[1] = 1
      OBVIOUS
    <3>3. \/ Last(e.args) = <<0>> /\ Last(e.args)[1] = 0
          \/ Last(e.args)[1] = 1
      BY <3>1, <3>2, Zenon
    <3>4. Last(e.args)[1] = 1 => Last(e.args) # <<0>>
      BY <3>2
    <3>5. 1 # 0
      OBVIOUS
    <3>. QED
      BY <3>3, <3>4, <3>5, Zenon
  <2>. HIDE DEF e
  <2>4. FirstEvent(t) = <<e>>
    BY <1>4, <1>6 DEF e
  <2>5. Executed(name) = [i \in DOMAIN <<e>> |-> Last(<<e>>[i].args)[1] = 0]
    BY <2>4 DEF Executed
  <2>6. [i \in DOMAIN <<e>> |-> Last(<<e>>[i].args)[1] = 0] = <<Last(e.args)[1] = 0>>
    OBVIOUS
  <2>7. <<Last(e.args)[1] = 0>> = <<Last(e.args) = <<0>>>>
    BY <2>3
  <2>. QED
    BY <1>6, <2>5, <2>6, <2>7 DEF e
<1>. QED
  BY <1>5, <1>6

(* What each event adds to the weight. *)
WeightOf(e) ==
  IF e.type.name = "ExtrinsicSuccess" THEN e.args[1][1]
  ELSE IF e.type.name = "ExtrinsicFailed" THEN e.args[2][1]
  ELSE 0

LEMMA WeightRead ==
  ASSUME NEW e \in Events
  PROVE  WeightIn(e) = Ok(WeightOf(e), <<>>)
<1>. DEFINE success == EventType("ExtrinsicSuccess")
            failed == EventType("ExtrinsicFailed")
<1>1. /\ success \in EventTypes /\ failed \in EventTypes /\ success # failed
      /\ \A t \in EventTypes : /\ t.name = "ExtrinsicSuccess" <=> t = success
                               /\ t.name = "ExtrinsicFailed" <=> t = failed
  BY NamedEvents DEF LookedFor
<1>2. e.type \in EventTypes
  BY EventArguments
<1>. HIDE DEF success, failed
<1>3. /\ Header(e.type) = Header(success) <=> e.type = success
      /\ Header(e.type) = Header(failed) <=> e.type = failed
  BY <1>1, <1>2, EventTableRegular
<1>4. FromEvent(e.type, Bytes(e)) = Ok(e, <<>>)
  BY <1>2, EventReads
<1>. DEFINE weight(t, field) ==
              LET read == FromEvent(t, Bytes(e))
              IN  IF read.ok THEN Ok(read.value.args[field][1], <<>>) ELSE Err
<1>5. WeightIn(e) = IF Header(e.type) = Header(success) THEN weight(success, 1)
                    ELSE IF Header(e.type) = Header(failed) THEN weight(failed, 2)
                    ELSE Ok(0, <<>>)
  BY DEF WeightIn, success, failed
<1>6. \A field : weight(e.type, field) = Ok(e.args[field][1], <<>>)
  <2>1. FromEvent(e.type, Bytes(e)).ok /\ FromEvent(e.type, Bytes(e)).value = e
    BY <1>4, OkAndErr
  <2>. QED
    BY <2>1
<1>. HIDE DEF weight
<1>7. CASE e.type = success
  <2>1. WeightOf(e) = e.args[1][1]
    BY <1>1, <1>2, <1>7 DEF WeightOf
  <2>. QED
    BY <1>3, <1>5, <1>6, <1>7, <2>1
<1>8. CASE e.type = failed
  <2>1. WeightOf(e) = e.args[2][1]
    BY <1>1, <1>2, <1>8 DEF WeightOf
  <2>. QED
    BY <1>1, <1>3, <1>5, <1>6, <1>8, <2>1
<1>9. CASE e.type # success /\ e.type # failed
  <2>1. WeightOf(e) = 0
    BY <1>1, <1>2, <1>9 DEF WeightOf
  <2>. QED
    BY <1>3, <1>5, <1>9, <2>1
<1>. QED
  BY <1>7, <1>8, <1>9

LEMMA ExtrinsicWeightRead ==
  ASSUME EventsInv
  PROVE  ExtrinsicWeight = Ok(SumFunction([i \in DOMAIN log |-> WeightOf(log[i])]), <<>>)
<1>. DEFINE weights == [i \in DOMAIN log |-> WeightIn(log[i])]
<1>1. ExtrinsicWeight = IF \E i \in DOMAIN weights : ~ weights[i].ok THEN Err
                        ELSE Ok(SumFunction([i \in DOMAIN weights |-> weights[i].value]), <<>>)
  BY DEF ExtrinsicWeight
<1>2. DOMAIN weights = DOMAIN log
  OBVIOUS
<1>3. ASSUME NEW i \in DOMAIN log PROVE weights[i] = Ok(WeightOf(log[i]), <<>>)
  <2>1. log[i] \in Events
    BY DEF EventsInv
  <2>. QED
    BY <2>1, WeightRead
<1>. HIDE DEF weights
<1>4. ASSUME NEW i \in DOMAIN log PROVE weights[i].ok /\ weights[i].value = WeightOf(log[i])
  <2>1. weights[i] = Ok(WeightOf(log[i]), <<>>)
    BY <1>3
  <2>. QED
    BY <2>1, OkAndErr
<1>5. [i \in DOMAIN weights |-> weights[i].value] = [i \in DOMAIN log |-> WeightOf(log[i])]
  BY <1>2, <1>4
<1>. QED
  BY <1>1, <1>2, <1>4, <1>5, Zenon

LEMMA EventsAreRead ==
  ASSUME EventsInv
  PROVE  EventsRead
<1>1. ASSUME NEW t \in EventTypes
      PROVE  LET all == AllEvents(t)
             IN  /\ all = Ok(Those(log, {e \in Range(log) : e.type = t}), <<>>)
                 /\ CountEvents(t) = Len(all.value)
                 /\ FirstEvent(t) = IF all.value = <<>> THEN <<>> ELSE <<Head(all.value)>>
                 /\ LastEvent(t) = IF all.value = <<>> THEN <<>> ELSE <<Last(all.value)>>
  <2>. DEFINE those == Those(log, OfType(t))
  <2>1. /\ WithHeader(t) = those /\ AllEvents(t) = Ok(those, <<>>)
        /\ FirstEvent(t) = IF those = <<>> THEN <<>> ELSE <<Head(those)>>
        /\ LastEvent(t) = IF those = <<>> THEN <<>> ELSE <<Last(those)>>
    BY EventsOfTypeRead
  <2>2. those = Those(log, {e \in Range(log) : e.type = t})
    BY DEF OfType
  <2>. HIDE DEF those
  <2>3. AllEvents(t).value = those
    BY <2>1 DEF Ok
  <2>. QED
    BY <2>1, <2>2, <2>3, Zenon DEF CountEvents
<1>2. ASSUME NEW name \in {"ProxyExecuted", "MultisigExecuted"}
      PROVE  LET those == Those(log, {e \in Range(log) : e.type.name = name})
             IN  Executed(name) = IF those = <<>> THEN <<>> ELSE <<Last(Head(those).args) = <<0>>>>
  BY ResultRead, Zenon
<1>3. ExtrinsicWeight =
        Ok(SumFunction([i \in DOMAIN log |->
                          IF log[i].type.name = "ExtrinsicSuccess" THEN log[i].args[1][1]
                          ELSE IF log[i].type.name = "ExtrinsicFailed" THEN log[i].args[2][1]
                          ELSE 0]), <<>>)
  BY ExtrinsicWeightRead, Zenon DEF WeightOf
<1>. QED
  BY <1>1, <1>2, <1>3, Zenon DEF EventsRead

(* What BlockEvents answers agrees with the events, however many the         *)
(* extrinsic has: first, last, all and count with what was emitted, the      *)
(* success of a proxy or multisig call with its result, and the weight with  *)
(* that of every extrinsic's last event.                                    *)
THEOREM EventsReadHolds == EventsSpec => []EventsRead
<1>1. EventsInv => EventsRead
  BY EventsAreRead
<1>. QED
  BY <1>1, EventsInvariant, PTL
=============================================================================
