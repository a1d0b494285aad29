--------------------------- MODULE SendLockProofs ---------------------------
(***************************************************************************)
(* What the operations of SendLock do to a line in which nobody stands      *)
(* twice: who is in it afterwards, and who sends.  A session's proofs use   *)
(* nothing else about the line.                                             *)
(***************************************************************************)
EXTENDS SendLock, SequenceTheorems, TLAPS

LineTypeOK ==
  /\ line \in Seq(Nat) /\ sending \in BOOLEAN
  /\ IsInjective(line)
  /\ sending => line # <<>>

(* `rest` is the line without those in `gone`, in the same order.           *)
Shortened(rest, gone) ==
  /\ rest \in Seq(Nat)
  /\ IsInjective(rest)
  /\ ToSet(rest) = ToSet(line) \ gone
  /\ line # <<>> /\ Head(line) \notin gone => rest # <<>> /\ Head(rest) = Head(line)
  /\ line # <<>> /\ line[Len(line)] \notin gone =>
       rest # <<>> /\ rest[Len(rest)] = line[Len(line)]

LEMMA ShortenedNot ==
  ASSUME LineTypeOK
  PROVE  Shortened(line, {})
BY DEF LineTypeOK, Shortened

(* Release: the head leaves.                                                *)
LEMMA ShortenedTail ==
  ASSUME LineTypeOK, line # <<>>
  PROVE  Shortened(LeaveLine, {Head(line)})
<1> DEFINE n == Len(line)  rest == Tail(line)
<1>1. /\ n \in Nat \ {0} /\ rest \in Seq(Nat) /\ Len(rest) = n - 1
      /\ \A i \in 1..n : line[i] \in Nat
      /\ \A i \in 1..(n - 1) : rest[i] = line[i + 1]
      /\ Head(line) = line[1]
  BY DEF LineTypeOK
<1> HIDE DEF rest
<1>2. \A i, j \in 1..n : line[i] = line[j] => i = j
  BY DEF LineTypeOK, IsInjective
<1>3. IsInjective(rest)
  <2>1. DOMAIN rest = 1..(n - 1)
    BY <1>1
  <2> SUFFICES ASSUME NEW i \in 1..(n - 1), NEW j \in 1..(n - 1), rest[i] = rest[j]
               PROVE  i = j
    BY <2>1 DEF IsInjective
  <2>2. line[i + 1] = line[j + 1] /\ i + 1 \in 1..n /\ j + 1 \in 1..n
    BY <1>1
  <2> QED BY <1>2, <2>2
<1>4. ToSet(rest) = ToSet(line) \ {Head(line)}
  <2>1. ASSUME NEW x \in ToSet(rest) PROVE x \in ToSet(line) \ {Head(line)}
    <3>1. PICK i \in 1..(n - 1) : x = rest[i]
      BY <1>1 DEF ToSet
    <3>2. x = line[i + 1] /\ i + 1 \in 1..n /\ i + 1 # 1
      BY <1>1, <3>1
    <3> QED BY <1>1, <1>2, <3>2 DEF ToSet
  <2>2. ASSUME NEW x \in ToSet(line), x # Head(line) PROVE x \in ToSet(rest)
    <3>1. PICK i \in 1..n : x = line[i]
      BY <1>1 DEF ToSet
    <3>2. i - 1 \in 1..(n - 1) /\ x = rest[i - 1]
      BY <1>1, <2>2, <3>1
    <3>3. DOMAIN rest = 1..(n - 1)
      BY <1>1
    <3> QED BY <3>2, <3>3 DEF ToSet
  <2> QED BY <2>1, <2>2
<1>5. ASSUME line[n] # Head(line)
      PROVE  rest # <<>> /\ rest[Len(rest)] = line[n]
  <2>1. n - 1 \in 1..(n - 1) /\ (n - 1) + 1 = n
    BY <1>1, <1>5
  <2>2. rest[n - 1] = line[n]
    BY <1>1, <2>1
  <2> QED BY <1>1, <2>1, <2>2
<1> QED BY <1>1, <1>3, <1>4, <1>5 DEF Shortened, LeaveLine, rest

(* Cancellation: someone leaves, wherever in the line.                      *)
LEMMA ShortenedWithout ==
  ASSUME LineTypeOK, NEW who
  PROVE  Shortened(Without(who), {who})
<1> DEFINE n == Len(line)
<1>1. /\ n \in Nat /\ \A i \in 1..n : line[i] \in Nat
      /\ \A i, j \in 1..n : line[i] = line[j] => i = j
      /\ DOMAIN line = 1..n
  BY DEF LineTypeOK, IsInjective
<1>2. CASE who \notin ToSet(line)
  <2>1. Without(who) = line
    BY <1>1, <1>2 DEF Without, RemoveFirst, ToSet
  <2>2. Shortened(line, {})
    BY ShortenedNot
  <2> QED BY <1>1, <1>2, <2>1, <2>2 DEF Shortened, ToSet
<1>3. CASE who \in ToSet(line)
  <2>1. PICK k \in 1..n : line[k] = who
    BY <1>1, <1>3 DEF ToSet
  <2>2. {i \in 1..Len(line) : line[i] = who} = {k}
    BY <1>1, <2>1
  <2>3. SelectInSeq(line, LAMBDA v : v = who) = k
    <3>1. Min({k}) = k
      BY <2>1 DEF Min
    <3> QED BY <2>2, <3>1 DEF SelectInSeq
  <2> DEFINE a == SubSeq(line, 1, k - 1)
             b == SubSeq(line, k + 1, n)
             rest == a \o b
  <2>4. Without(who) = rest
    BY <2>1, <2>3 DEF Without, RemoveFirst, RemoveAt
  <2>5. /\ a \in Seq(Nat) /\ Len(a) = k - 1 /\ \A i \in 1..(k - 1) : a[i] = line[i]
        /\ b \in Seq(Nat) /\ Len(b) = n - k /\ \A i \in 1..(n - k) : b[i] = line[k + i]
    <3>1. /\ k - 1 \in Int /\ k + 1 \in Int /\ n \in Int
          /\ \A i \in 1..(k - 1) : line[i] \in Nat
          /\ \A i \in (k + 1)..n : line[i] \in Nat
      BY <1>1, <2>1
    <3>2. /\ a \in Seq(Nat) /\ Len(a) = IF 1 <= k - 1 THEN (k - 1) - 1 + 1 ELSE 0
          /\ \A i \in 1..((k - 1) - 1 + 1) : a[i] = line[1 + i - 1]
      BY <3>1, SubSeqProperties
    <3>3. /\ b \in Seq(Nat) /\ Len(b) = IF k + 1 <= n THEN n - (k + 1) + 1 ELSE 0
          /\ \A i \in 1..(n - (k + 1) + 1) : b[i] = line[k + 1 + i - 1]
      BY <3>1, SubSeqProperties
    <3> HIDE DEF a, b
    <3>4. \A i \in 1..(k - 1) : i \in 1..((k - 1) - 1 + 1) /\ 1 + i - 1 = i
      BY <1>1, <2>1
    <3>5. \A i \in 1..(n - k) : i \in 1..(n - (k + 1) + 1) /\ k + 1 + i - 1 = k + i
      BY <1>1, <2>1
    <3>6. Len(a) = k - 1 /\ \A i \in 1..(k - 1) : a[i] = line[i]
      BY <1>1, <2>1, <3>2, <3>4
    <3>7. Len(b) = n - k
      <4>1. n \in Nat /\ k \in Nat /\ k <= n
        BY <1>1, <2>1
      <4>2. Len(b) = IF k + 1 <= n THEN n - (k + 1) + 1 ELSE 0
        BY <3>3
      <4>3. CASE k + 1 <= n
        BY <4>1, <4>2, <4>3
      <4>4. CASE ~(k + 1 <= n)
        BY <4>1, <4>2, <4>4
      <4> QED BY <4>3, <4>4
    <3>8. \A i \in 1..(n - k) : b[i] = line[k + i]
      <4>1. ASSUME NEW i \in 1..(n - k) PROVE b[i] = line[k + i]
        <5>1. b[i] = line[k + 1 + i - 1]
          BY <3>3, <3>5
        <5> QED BY <3>5, <5>1
      <4> QED BY <4>1
    <3> QED BY <3>2, <3>3, <3>6, <3>7, <3>8
  <2>6. /\ rest \in Seq(Nat) /\ Len(rest) = n - 1
        /\ \A i \in 1..(n - 1) : rest[i] = IF i < k THEN line[i] ELSE line[i + 1]
    <3> HIDE DEF a, b
    <3>1. /\ a \o b \in Seq(Nat) /\ Len(a \o b) = Len(a) + Len(b)
          /\ \A i \in 1..(Len(a) + Len(b)) :
               (a \o b)[i] = IF i <= Len(a) THEN a[i] ELSE b[i - Len(a)]
      BY <2>5, ConcatProperties
    <3>2. ASSUME NEW i \in 1..(n - 1)
          PROVE  (a \o b)[i] = IF i < k THEN line[i] ELSE line[i + 1]
      <4>1. (a \o b)[i] = IF i <= k - 1 THEN a[i] ELSE b[i - (k - 1)]
        BY <1>1, <2>1, <2>5, <3>1
      <4>2. CASE i < k
        BY <1>1, <2>1, <2>5, <4>1, <4>2
      <4>3. CASE ~(i < k)
        <5>1. i - (k - 1) \in 1..(n - k) /\ k + (i - (k - 1)) = i + 1 /\ ~(i <= k - 1)
          BY <1>1, <2>1, <4>3
        <5>2. b[i - (k - 1)] = line[i + 1]
          BY <2>5, <5>1
        <5> QED BY <4>1, <4>3, <5>1, <5>2
      <4> QED BY <4>2, <4>3
    <3> QED BY <1>1, <2>1, <2>5, <3>1, <3>2
  <2> HIDE DEF rest, a, b
  <2>7. IsInjective(rest)
    <3> SUFFICES ASSUME NEW i \in 1..(n - 1), NEW j \in 1..(n - 1), rest[i] = rest[j]
                 PROVE  i = j
      BY <2>6 DEF IsInjective
    <3>1. PICK f \in 1..n : rest[i] = line[f] /\ f = IF i < k THEN i ELSE i + 1
      BY <1>1, <2>1, <2>6
    <3>2. PICK g \in 1..n : rest[j] = line[g] /\ g = IF j < k THEN j ELSE j + 1
      BY <1>1, <2>1, <2>6
    <3>3. f = g
      BY <1>1, <3>1, <3>2
    <3> QED BY <1>1, <2>1, <3>1, <3>2, <3>3
  <2>8. ToSet(rest) = ToSet(line) \ {who}
    <3>1. ASSUME NEW x \in ToSet(rest) PROVE x \in ToSet(line) \ {who}
      <4>1. PICK i \in 1..(n - 1) : x = rest[i]
        BY <2>6, <3>1 DEF ToSet
      <4>2. PICK j \in 1..n : j # k /\ x = line[j]
        BY <1>1, <2>1, <2>6, <4>1
      <4> QED BY <1>1, <2>1, <4>2 DEF ToSet
    <3>2. ASSUME NEW x \in ToSet(line), x # who PROVE x \in ToSet(rest)
      <4>1. PICK j \in 1..n : x = line[j]
        BY <1>1, <3>2 DEF ToSet
      <4>2. PICK i \in 1..(n - 1) : x = rest[i]
        <5>1. CASE j < k
          <6>1. j \in 1..(n - 1)
            BY <1>1, <2>1, <5>1
          <6> QED BY <2>6, <4>1, <5>1, <6>1
        <5>2. CASE j > k
          <6>1. j - 1 \in 1..(n - 1) /\ ~(j - 1 < k) /\ (j - 1) + 1 = j
            BY <1>1, <2>1, <5>2
          <6>2. rest[j - 1] = line[j]
            BY <2>6, <6>1
          <6> QED BY <4>1, <6>1, <6>2
        <5> QED BY <1>1, <2>1, <3>2, <4>1, <5>1, <5>2
      <4>3. DOMAIN rest = 1..(n - 1)
        BY <2>6
      <4> QED BY <4>2, <4>3 DEF ToSet
    <3> QED BY <3>1, <3>2
  <2>9. ASSUME Head(line) # who
        PROVE  rest # <<>> /\ Head(rest) = Head(line)
    <3>1. Head(line) = line[1] /\ k # 1
      BY <1>1, <2>1, <2>9 DEF LineTypeOK
    <3>2. n - 1 >= 1 /\ rest[1] = line[1]
      BY <1>1, <2>1, <2>6, <3>1
    <3> QED BY <1>1, <2>6, <3>1, <3>2
  <2>10. ASSUME line[n] # who
         PROVE  rest # <<>> /\ rest[Len(rest)] = line[n]
    <3>1. k < n
      BY <1>1, <2>1, <2>10
    <3>2. n - 1 \in 1..(n - 1) /\ ~(n - 1 < k) /\ (n - 1) + 1 = n
      BY <1>1, <2>1, <3>1
    <3>3. rest[n - 1] = line[n]
      BY <2>6, <3>2
    <3> QED BY <1>1, <2>6, <3>2, <3>3
  <2> QED BY <2>4, <2>6, <2>7, <2>8, <2>9, <2>10 DEF Shortened
<1> QED BY <1>2, <1>3

(* After the line has shrunk, whoever sent and is still in it still sends,  *)
(* and nobody else does.                                                    *)
LEMMA AfterShrink ==
  ASSUME LineTypeOK, NEW rest, NEW gone, Shortened(rest, gone), Shrink(rest)
  PROVE  /\ LineTypeOK'
         /\ ToSet(line)' = ToSet(line) \ gone
         /\ \A x : Sends(x)' <=> Sends(x) /\ x \notin gone
         /\ line # <<>> /\ line[Len(line)] \notin gone =>
              line'[Len(line')] = line[Len(line)]
<1>1. /\ line' = rest
      /\ sending' = (sending /\ rest # <<>> /\ Head(rest) = Head(line))
  BY DEF Shrink
<1>2. LineTypeOK'
  <2>1. sending' \in BOOLEAN /\ (sending' => rest # <<>>)
    BY <1>1
  <2> QED BY <1>1, <2>1 DEF LineTypeOK, Shortened
<1>3. ToSet(line)' = ToSet(line) \ gone
  BY <1>1 DEF Shortened, ToSet
<1>4. ASSUME NEW x PROVE Sends(x)' <=> Sends(x) /\ x \notin gone
  <2>1. Sends(x)' <=> sending' /\ Head(rest) = x
    BY <1>1 DEF Sends
  <2>2. line # <<>> => Head(line) \in ToSet(line)
    BY DEF LineTypeOK, ToSet
  <2>3. rest # <<>> => Head(rest) \in ToSet(rest)
    BY DEF Shortened, ToSet
  <2> QED BY <1>1, <2>1, <2>2, <2>3 DEF Sends, Shortened, LineTypeOK
<1> QED BY <1>1, <1>2, <1>3, <1>4 DEF Shortened

(* After someone has queued up he is the last, and sends at once if nobody  *)
(* is left in the line; otherwise as above.                                 *)
LEMMA AfterQueue ==
  ASSUME LineTypeOK, NEW rest, NEW gone, Shortened(rest, gone),
         NEW who \in Nat, who \notin ToSet(line) \ gone, Queue(rest, who)
  PROVE  /\ LineTypeOK'
         /\ ToSet(line)' = (ToSet(line) \ gone) \cup {who}
         /\ \A x : Sends(x)' <=> (Sends(x) /\ x \notin gone) \/ (rest = <<>> /\ x = who)
         /\ line'[Len(line')] = who
<1>1. /\ line' = Append(rest, who)
      /\ sending' = (rest = <<>> \/ (sending /\ Head(rest) = Head(line)))
  BY DEF Queue
<1>2. /\ rest \in Seq(Nat) /\ Len(rest) \in Nat /\ line' \in Seq(Nat)
      /\ Len(line') = Len(rest) + 1
      /\ line'[Len(rest) + 1] = who
      /\ \A i \in 1..Len(rest) : line'[i] = rest[i]
      /\ DOMAIN rest = 1..Len(rest) /\ DOMAIN line' = 1..(Len(rest) + 1)
  BY <1>1 DEF Shortened
<1>3. ToSet(line)' = (ToSet(line) \ gone) \cup {who}
  <2>1. ToSet(line)' = ToSet(rest) \cup {who}
    <3>1. ASSUME NEW i \in 1..(Len(rest) + 1) PROVE line'[i] \in ToSet(rest) \cup {who}
      <4>1. i \in 1..Len(rest) \/ i = Len(rest) + 1
        BY <1>2
      <4> QED BY <1>2, <4>1 DEF ToSet
    <3>2. ASSUME NEW i \in 1..Len(rest) PROVE rest[i] \in ToSet(line)'
      <4>1. i \in 1..(Len(rest) + 1)
        BY <1>2
      <4> QED BY <1>2, <4>1 DEF ToSet
    <3>3. who \in ToSet(line)'
      <4>1. Len(rest) + 1 \in 1..(Len(rest) + 1)
        BY <1>2
      <4> QED BY <1>2, <4>1 DEF ToSet
    <3> QED BY <1>2, <3>1, <3>2, <3>3 DEF ToSet
  <2> QED BY <2>1 DEF Shortened
<1>4. \A i \in 1..Len(rest) : rest[i] # who
  BY <1>2 DEF Shortened, ToSet
<1>5. LineTypeOK'
  <2>1. IsInjective(line')
    <3> SUFFICES ASSUME NEW i \in 1..(Len(rest) + 1), NEW j \in 1..(Len(rest) + 1),
                        line'[i] = line'[j]
                 PROVE  i = j
      BY <1>2 DEF IsInjective
    <3>1. \A a, b \in 1..Len(rest) : rest[a] = rest[b] => a = b
      BY <1>2 DEF Shortened, IsInjective
    <3> QED BY <1>2, <1>4, <3>1
  <2>2. sending' \in BOOLEAN /\ line' # <<>>
    BY <1>1, <1>2
  <2> QED BY <1>2, <2>1, <2>2 DEF LineTypeOK
<1>6. ASSUME NEW x
      PROVE  Sends(x)' <=> (Sends(x) /\ x \notin gone) \/ (rest = <<>> /\ x = who)
  <2>1. /\ rest = <<>> => Head(line') = who
        /\ rest # <<>> => Head(line') = Head(rest)
    BY <1>1, <1>2
  <2>2. line # <<>> => Head(line) \in ToSet(line)
    BY DEF LineTypeOK, ToSet
  <2>3. rest # <<>> => Head(rest) \in ToSet(rest)
    BY <1>2 DEF ToSet
  <2>4. rest = <<>> => ToSet(rest) = {}
    BY DEF ToSet
  <2> QED BY <1>1, <2>1, <2>2, <2>3, <2>4 DEF Sends, Shortened, LineTypeOK
<1> QED BY <1>2, <1>3, <1>5, <1>6

(* Who sends is the head of the line, in it and alone.                      *)
LEMMA SenderInLine ==
  ASSUME LineTypeOK, NEW x, Sends(x)
  PROVE  /\ line # <<>> /\ Head(line) = x /\ x \in ToSet(line)
         /\ \A y : Sends(y) <=> y = x
BY DEF LineTypeOK, Sends, ToSet

(* The last in the line does not send before all others are gone.           *)
LEMMA LastIsAlone ==
  ASSUME LineTypeOK, line # <<>>, Head(line) = line[Len(line)]
  PROVE  ToSet(line) = {Head(line)}
<1>1. Len(line) \in Nat \ {0} /\ Head(line) = line[1] /\ DOMAIN line = 1..Len(line)
  BY DEF LineTypeOK
<1>2. Len(line) = 1
  BY <1>1 DEF LineTypeOK, IsInjective
<1> QED BY <1>1, <1>2 DEF ToSet
=============================================================================
