-------------------------- MODULE RpcServerProofs ---------------------------
(* Theorems about RpcServer, for every value of its constants. *)
EXTENDS RpcServer, FiniteSetTheorems, SequenceTheorems, TLAPS

Unit == Nat \X Nat

(***************************************************************************)
(* A piece of the stream of a client.  sz[n] is the number of units of its *)
(* n-th message.  s is what is left of the stream after d messages: from a *)
(* unit on the units of its message follow, and after its last unit the    *)
(* first one of the next message.                                          *)
(***************************************************************************)
Chain(s, sz, d) ==
    /\ \A i \in 1 .. Len(s) : s[i][1] \in 1 .. Len(sz) /\ s[i][2] \in 1 .. sz[s[i][1]]
    /\ \A i, j \in 1 .. Len(s) :
          i <= j /\ s[i][2] + (j - i) <= sz[s[i][1]] => s[j] = <<s[i][1], s[i][2] + (j - i)>>
    /\ \A i, j \in 1 .. Len(s) :
          j = i + 1 /\ s[i][2] = sz[s[i][1]] => s[j] = <<s[i][1] + 1, 1>>
    /\ Len(s) > 0 => s[1] = <<d + 1, 1>>

(* s goes on to the end of the last message that was sent.                 *)
Whole(s, sz, d) ==
    /\ \A i \in 1 .. Len(s) : i + (sz[s[i][1]] - s[i][2]) <= Len(s)
    /\ Len(s) = 0 => Len(sz) = d
    /\ Len(s) > 0 => s[Len(s)] = <<Len(sz), sz[Len(sz)]>>

Join(a, b) == a \o b

LEMMA UnitParts == \A u \in Unit : u[1] \in Nat /\ u[2] \in Nat
BY DEF Unit

LEMMA Difference == \A a, b \in Nat : \E x \in Int : x = a - b
OBVIOUS

LEMMA SizeOf == ASSUME NEW sz \in Seq(Nat \ {0}), NEW n \in 1 .. Len(sz) PROVE sz[n] \in Nat
OBVIOUS

LEMMA Joining ==
    ASSUME NEW s1 \in Seq(Unit), NEW s2 \in Seq(Unit)
    PROVE  /\ Join(s1, s2) \in Seq(Unit) /\ Len(Join(s1, s2)) = Len(s1) + Len(s2)
           /\ \A i \in 1 .. Len(s1) + Len(s2) :
                 Join(s1, s2)[i] = IF i <= Len(s1) THEN s1[i] ELSE s2[i - Len(s1)]
BY ConcatProperties DEF Join

LEMMA JoinAssociative ==
    ASSUME NEW s1 \in Seq(Unit), NEW s2 \in Seq(Unit), NEW s3 \in Seq(Unit)
    PROVE  Join(Join(s1, s2), s3) = Join(s1, Join(s2, s3))
BY ConcatAssociative DEF Join

LEMMA JoinParts ==
    ASSUME NEW s1 \in Seq(Unit), NEW s2 \in Seq(Unit)
    PROVE  /\ \A i \in 1 .. Len(s1) : Join(s1, s2)[i] = s1[i]
           /\ \A i \in 1 .. Len(s2) : Join(s1, s2)[i + Len(s1)] = s2[i]
<1>1. PICK x \in Nat, y \in Nat : x = Len(s1) /\ y = Len(s2)
  OBVIOUS
<1>2. \A i \in 1 .. x + y : Join(s1, s2)[i] = IF i <= x THEN s1[i] ELSE s2[i - x]
  BY <1>1, Joining
<1>3. \A i \in 1 .. x : i \in 1 .. x + y /\ i <= x
  OBVIOUS
<1>4. \A i \in 1 .. y : i + x \in 1 .. x + y /\ ~(i + x <= x) /\ (i + x) - x = i
  BY ONLY x \in Nat, y \in Nat
<1>5. \A i \in 1 .. x : Join(s1, s2)[i] = s1[i]
  BY ONLY <1>2, <1>3
<1>6. \A i \in 1 .. y : Join(s1, s2)[i + x] = s2[i]
  BY ONLY <1>2, <1>4
<1> QED BY <1>1, <1>5, <1>6

(* A client that goes away cuts the stream anywhere.                       *)
LEMMA ChainPrefix ==
    ASSUME NEW s \in Seq(Unit), NEW p \in Seq(Unit), NEW sz \in Seq(Nat \ {0}), NEW d \in Nat,
           Chain(s, sz, d), Len(p) <= Len(s), \A i \in 1 .. Len(p) : p[i] = s[i]
    PROVE  Chain(p, sz, d)
<1>1. Len(p) \in Nat /\ Len(s) \in Nat /\ 1 .. Len(p) \subseteq 1 .. Len(s)
  OBVIOUS
<1>2. \A i \in 1 .. Len(p) : i \in 1 .. Len(s)
  BY <1>1
<1>3. \A i \in 1 .. Len(p) : p[i][1] \in 1 .. Len(sz) /\ p[i][2] \in 1 .. sz[p[i][1]]
  BY <1>2 DEF Chain
<1>4. ASSUME NEW i \in 1 .. Len(p), NEW j \in 1 .. Len(p), i <= j,
             p[i][2] + (j - i) <= sz[p[i][1]]
      PROVE  p[j] = <<p[i][1], p[i][2] + (j - i)>>
  <2>1. i \in 1 .. Len(s) /\ j \in 1 .. Len(s) /\ p[i] = s[i] /\ p[j] = s[j]
    BY <1>2
  <2> QED BY <1>4, <2>1 DEF Chain
<1>5. ASSUME NEW i \in 1 .. Len(p), NEW j \in 1 .. Len(p), j = i + 1, p[i][2] = sz[p[i][1]]
      PROVE  p[j] = <<p[i][1] + 1, 1>>
  <2>1. i \in 1 .. Len(s) /\ j \in 1 .. Len(s) /\ p[i] = s[i] /\ p[j] = s[j]
    BY <1>2
  <2> QED BY <1>5, <2>1 DEF Chain
<1>6. Len(p) > 0 => p[1] = <<d + 1, 1>>
  BY <1>1 DEF Chain
<1> QED BY <1>3, <1>4, <1>5, <1>6 DEF Chain

(* The units up to the end of the first message are that message.          *)
LEMMA ChainFirst ==
    ASSUME NEW s \in Seq(Unit), NEW sz \in Seq(Nat \ {0}), NEW d \in Nat,
           Chain(s, sz, d), Len(s) > 0
    PROVE  /\ d + 1 \in 1 .. Len(sz) /\ sz[d + 1] \in Nat \ {0}
           /\ s[1] = <<d + 1, 1>>
           /\ \A k \in 1 .. sz[d + 1] : k <= Len(s) => s[k] = <<d + 1, k>>
<1>1. Len(s) \in Nat /\ 1 \in 1 .. Len(s) /\ Len(sz) \in Nat
  OBVIOUS
<1>2. s[1] = <<d + 1, 1>> /\ s[1][1] = d + 1 /\ s[1][2] = 1
  BY DEF Chain
<1>3. d + 1 \in 1 .. Len(sz)
  BY <1>1, <1>2 DEF Chain
<1>4. sz[d + 1] \in Nat \ {0}
  BY <1>3
<1>5. ASSUME NEW k \in 1 .. sz[d + 1], k <= Len(s) PROVE s[k] = <<d + 1, k>>
  <2>1. k \in 1 .. Len(s) /\ 1 <= k /\ 1 + (k - 1) = k
    BY <1>1, <1>4, <1>5
  <2>2. s[1][2] + (k - 1) <= sz[s[1][1]]
    BY <1>2, <1>4, <2>1
  <2>3. s[k] = <<s[1][1], s[1][2] + (k - 1)>>
    BY <1>1, <2>1, <2>2 DEF Chain
  <2> QED BY <1>2, <2>1, <2>3
<1> QED BY <1>2, <1>3, <1>4, <1>5

(* What is left after the first message.                                   *)
LEMMA ChainRest ==
    ASSUME NEW s \in Seq(Unit), NEW r \in Seq(Unit), NEW sz \in Seq(Nat \ {0}), NEW d \in Nat,
           Chain(s, sz, d), Len(s) > 0, sz[d + 1] <= Len(s),
           Len(r) = Len(s) - sz[d + 1],
           \A i \in 1 .. Len(r) : r[i] = s[i + sz[d + 1]]
    PROVE  /\ Chain(r, sz, d + 1)
           /\ Whole(s, sz, d) => Whole(r, sz, d + 1)
<1>1. /\ d + 1 \in 1 .. Len(sz) /\ sz[d + 1] \in Nat \ {0}
      /\ \A k \in 1 .. sz[d + 1] : k <= Len(s) => s[k] = <<d + 1, k>>
  BY ChainFirst
<1>2. PICK m \in Nat \ {0} : m = sz[d + 1]
  BY <1>1
<1>3. /\ Len(s) \in Nat /\ Len(r) \in Nat /\ m <= Len(s) /\ Len(r) = Len(s) - m
      /\ \A i \in 1 .. Len(r) : i + m \in 1 .. Len(s) /\ r[i] = s[i + m]
  <2>1. Len(s) \in Nat /\ Len(r) \in Nat /\ m <= Len(s) /\ Len(r) = Len(s) - m
    BY <1>2
  <2>2. \A i \in 1 .. Len(r) : i + m \in 1 .. Len(s)
    BY <2>1
  <2> QED BY <1>2, <2>1, <2>2
<1>4. s[m] = <<d + 1, m>> /\ m \in 1 .. Len(s)
  <2>1. m \in 1 .. Len(s) /\ m \in 1 .. m
    BY ONLY <1>3, m \in Nat \ {0}
  <2> QED BY ONLY <1>1, <1>2, <1>3, <2>1
<1>5. \A i \in 1 .. Len(r) : r[i][1] \in 1 .. Len(sz) /\ r[i][2] \in 1 .. sz[r[i][1]]
  <2> TAKE i \in 1 .. Len(r)
  <2>1. PICK a \in 1 .. Len(s) : r[i] = s[a]
    BY <1>3
  <2> QED BY <2>1 DEF Chain
<1>6. ASSUME NEW i \in 1 .. Len(r), NEW j \in 1 .. Len(r), i <= j,
             r[i][2] + (j - i) <= sz[r[i][1]]
      PROVE  r[j] = <<r[i][1], r[i][2] + (j - i)>>
  <2>1. PICK a \in 1 .. Len(s), b \in 1 .. Len(s) : a = i + m /\ b = j + m
    BY <1>3
  <2>2. r[i] = s[a] /\ r[j] = s[b]
    BY <1>3, <2>1
  <2>3. a <= b /\ b - a = j - i
    <3>1. i \in Int /\ j \in Int /\ m \in Int
      OBVIOUS
    <3>2. i <= j /\ a = i + m /\ b = j + m
      BY <1>6, <2>1
    <3> QED BY ONLY <3>1, <3>2
  <2>4. s[b] = <<s[a][1], s[a][2] + (b - a)>>
    BY <1>6, <2>2, <2>3 DEF Chain
  <2> QED BY <2>2, <2>3, <2>4
<1>7. ASSUME NEW i \in 1 .. Len(r), NEW j \in 1 .. Len(r), j = i + 1, r[i][2] = sz[r[i][1]]
      PROVE  r[j] = <<r[i][1] + 1, 1>>
  <2>1. PICK a \in 1 .. Len(s), b \in 1 .. Len(s) : a = i + m /\ b = j + m
    BY <1>3
  <2>2. r[i] = s[a] /\ r[j] = s[b]
    BY <1>3, <2>1
  <2>3. b = a + 1
    BY <1>7, <2>1
  <2>4. s[a][2] = sz[s[a][1]]
    BY <1>7, <2>2
  <2>5. s[b] = <<s[a][1] + 1, 1>>
    BY <2>3, <2>4 DEF Chain
  <2> QED BY <2>2, <2>5
<1>8. Len(r) > 0 => r[1] = <<d + 2, 1>>
  <2> SUFFICES ASSUME Len(r) > 0 PROVE r[1] = <<d + 2, 1>>
    OBVIOUS
  <2>1. r[1] = s[m + 1] /\ m + 1 \in 1 .. Len(s)
    BY <1>3
  <2>2. s[m][1] = d + 1 /\ s[m][2] = m /\ sz[s[m][1]] = m
    BY <1>2, <1>4
  <2>3. s[m + 1] = <<s[m][1] + 1, 1>>
    BY <1>4, <2>1, <2>2 DEF Chain
  <2> QED BY <2>1, <2>2, <2>3
<1>9. Chain(r, sz, d + 1)
  <2>1. (d + 1) + 1 = d + 2
    OBVIOUS
  <2> QED BY <1>5, <1>6, <1>7, <1>8, <2>1 DEF Chain
<1>10. ASSUME Whole(s, sz, d) PROVE Whole(r, sz, d + 1)
  <2>1. ASSUME NEW i \in 1 .. Len(r) PROVE i + (sz[r[i][1]] - r[i][2]) <= Len(r)
    <3>1. PICK a \in 1 .. Len(s) : a = i + m /\ r[i] = s[a]
      BY <1>3
    <3>2. s[a] \in Unit /\ s[a][1] \in 1 .. Len(sz)
      BY DEF Chain
    <3>3. PICK x \in Int : x = sz[s[a][1]] - s[a][2]
      <4>1. s[a][2] \in Nat /\ sz[s[a][1]] \in Nat
        BY <3>2, UnitParts, SizeOf
      <4> QED BY <4>1, Difference, Zenon
    <3>4. a + x <= Len(s)
      BY <1>10, <3>3 DEF Whole
    <3>5. i + x <= Len(r)
      <4>1. Len(s) \in Nat /\ Len(r) = Len(s) - m
        BY <1>3
      <4>2. i \in Int /\ m \in Int
        OBVIOUS
      <4> QED BY ONLY <3>1, <3>4, <4>1, <4>2, x \in Int
    <3> QED BY <3>1, <3>3, <3>5
  <2>2. Len(s) > 0 /\ s[Len(s)] = <<Len(sz), sz[Len(sz)]>>
    BY <1>10 DEF Whole
  <2>3. Len(r) = 0 => Len(sz) = d + 1
    <3>1. Len(r) = 0 => m = Len(s)
      BY <1>3
    <3> QED BY ONLY <1>4, <2>2, <3>1
  <2>4. Len(r) > 0 => r[Len(r)] = <<Len(sz), sz[Len(sz)]>>
    <3> SUFFICES ASSUME Len(r) > 0 PROVE r[Len(r)] = <<Len(sz), sz[Len(sz)]>>
      OBVIOUS
    <3>1. Len(r) \in 1 .. Len(r) /\ Len(r) + m = Len(s)
      BY <1>3
    <3>2. r[Len(r)] = s[Len(r) + m]
      BY ONLY <1>3, <3>1
    <3> QED BY ONLY <2>2, <3>1, <3>2
  <2> QED BY <2>1, <2>3, <2>4 DEF Whole
<1> QED BY <1>9, <1>10

(* The client sends one more message, of l units.                          *)
LEMMA ChainAppend ==
    ASSUME NEW s \in Seq(Unit), NEW r \in Seq(Unit), NEW sz \in Seq(Nat \ {0}), NEW d \in Nat,
           NEW l \in Nat \ {0}, Chain(s, sz, d), Whole(s, sz, d),
           Len(r) = Len(s) + l,
           \A i \in 1 .. Len(s) : r[i] = s[i],
           \A k \in 1 .. l : r[Len(s) + k] = <<Len(sz) + 1, k>>
    PROVE  Chain(r, Append(sz, l), d) /\ Whole(r, Append(sz, l), d)
<1>1. PICK tz : tz = Append(sz, l)
  OBVIOUS
<1>2. PICK m \in Nat : m = Len(sz)
  OBVIOUS
<1>3. PICK x \in Nat : x = Len(s)
  OBVIOUS
<1>4. /\ tz \in Seq(Nat \ {0}) /\ Len(tz) = m + 1 /\ tz[m + 1] = l
      /\ \A n \in 1 .. m : tz[n] = sz[n] /\ n \in 1 .. Len(tz)
  BY <1>1, <1>2, AppendProperties
<1>5. ASSUME NEW i \in 1 .. Len(r)
      PROVE  \/ i \in 1 .. x /\ r[i] = s[i] /\ s[i][1] \in 1 .. m /\ tz[s[i][1]] = sz[s[i][1]]
             \/ \E k \in 1 .. l : i = x + k /\ r[i] = <<m + 1, k>>
  <2>1. CASE i <= x
    <3>1. i \in 1 .. Len(s)
      BY <1>3, <2>1
    <3>2. s[i][1] \in 1 .. m
      BY <1>2, <3>1 DEF Chain
    <3> QED BY <1>3, <1>4, <3>1, <3>2
  <2>2. CASE i > x
    <3>1. PICK k \in 1 .. l : i = x + k
      <4>1. i - x \in 1 .. l /\ i = x + (i - x)
        BY <1>3, <2>2
      <4> QED BY <4>1
    <3> QED BY <1>2, <1>3, <3>1
  <2> QED BY <1>3, <2>1, <2>2
<1>6. \A i \in 1 .. Len(r) : r[i][1] \in 1 .. Len(tz) /\ r[i][2] \in 1 .. tz[r[i][1]]
  <2> TAKE i \in 1 .. Len(r)
  <2>1. CASE i \in 1 .. x /\ r[i] = s[i] /\ s[i][1] \in 1 .. m /\ tz[s[i][1]] = sz[s[i][1]]
    BY <1>3, <1>4, <2>1 DEF Chain
  <2>2. CASE \E k \in 1 .. l : i = x + k /\ r[i] = <<m + 1, k>>
    BY <1>4, <2>2
  <2> QED BY <1>5, <2>1, <2>2
<1>7. ASSUME NEW i \in 1 .. x PROVE i + (sz[s[i][1]] - s[i][2]) <= x
  BY <1>3 DEF Whole
<1>8. x > 0 => s[x] = <<m, sz[m]>> /\ m \in 1 .. m
  BY <1>2, <1>3 DEF Whole, Chain
<1>9. ASSUME NEW i \in 1 .. Len(r), NEW j \in 1 .. Len(r), i <= j,
             r[i][2] + (j - i) <= tz[r[i][1]]
      PROVE  r[j] = <<r[i][1], r[i][2] + (j - i)>>
  <2>1. CASE i \in 1 .. x /\ r[i] = s[i] /\ s[i][1] \in 1 .. m /\ tz[s[i][1]] = sz[s[i][1]]
    <3>1. s[i] \in Unit /\ i \in 1 .. Len(s)
      BY <1>3, <2>1
    <3>2. PICK a \in Nat, b \in Nat : a = s[i][2] /\ b = sz[s[i][1]]
      <4>1. s[i][2] \in Nat
        BY <3>1, UnitParts, Zenon
      <4>2. sz[s[i][1]] \in Nat
        BY <1>2, <2>1, SizeOf
      <4> QED BY <4>1, <4>2, Zenon
    <3>3. i + (b - a) <= x /\ a + (j - i) <= b
      BY <1>7, <1>9, <2>1, <3>2
    <3>4. j <= x
      BY <3>3
    <3>5. j \in 1 .. Len(s) /\ r[j] = s[j]
      BY <1>3, <3>4
    <3>6. s[i][2] + (j - i) <= sz[s[i][1]]
      BY <3>2, <3>3
    <3>7. s[j] = <<s[i][1], s[i][2] + (j - i)>>
      BY <1>9, <3>1, <3>5, <3>6 DEF Chain
    <3> QED BY <2>1, <3>5, <3>7
  <2>2. CASE \E k \in 1 .. l : i = x + k /\ r[i] = <<m + 1, k>>
    <3>1. PICK k \in 1 .. l : i = x + k /\ r[i] = <<m + 1, k>>
      BY <2>2
    <3>2. k + (j - i) \in 1 .. l /\ j = x + (k + (j - i))
      BY <1>4, <1>9, <3>1
    <3>3. r[j] = <<m + 1, k + (j - i)>>
      BY <1>2, <1>3, <3>2
    <3> QED BY <3>1, <3>3
  <2> QED BY <1>5, <2>1, <2>2
<1>10. ASSUME NEW i \in 1 .. Len(r), NEW j \in 1 .. Len(r), j = i + 1, r[i][2] = tz[r[i][1]]
       PROVE  r[j] = <<r[i][1] + 1, 1>>
  <2>1. CASE i \in 1 .. x /\ r[i] = s[i] /\ s[i][1] \in 1 .. m /\ tz[s[i][1]] = sz[s[i][1]]
    <3>1. CASE i < x
      <4>1. j \in 1 .. x /\ r[j] = s[j]
        BY <1>3, <1>10, <3>1
      <4> QED BY <1>3, <1>10, <2>1, <4>1 DEF Chain
    <3>2. CASE i = x
      <4>1. r[x + 1] = <<m + 1, 1>>
        BY <1>2, <1>3
      <4>2. s[x] = <<m, sz[m]>>
        BY <1>8, <2>1, <3>2
      <4> QED BY <1>10, <2>1, <3>2, <4>1, <4>2
    <3> QED BY <2>1, <3>1, <3>2
  <2>2. CASE \E k \in 1 .. l : i = x + k /\ r[i] = <<m + 1, k>>
    <3>1. PICK k \in 1 .. l : i = x + k /\ r[i] = <<m + 1, k>>
      BY <2>2
    <3>2. k = l /\ i = Len(r)
      BY <1>3, <1>4, <1>10, <3>1
    <3> QED BY <1>10, <3>2
  <2> QED BY <1>5, <2>1, <2>2
<1>11. r[1] = <<d + 1, 1>>
  <2>1. CASE x = 0
    <3>1. m = d /\ r[0 + 1] = <<m + 1, 1>>
      BY <1>2, <1>3, <2>1 DEF Whole
    <3> QED BY <3>1
  <2>2. CASE x > 0
    <3>1. Len(s) > 0 /\ 1 \in 1 .. x
      BY <1>3, <2>2
    <3>2. s[1] = <<d + 1, 1>>
      BY <3>1 DEF Chain
    <3> QED BY <1>3, <3>1, <3>2
  <2> QED BY <2>1, <2>2
<1>12. Chain(r, tz, d)
  BY <1>6, <1>9, <1>10, <1>11 DEF Chain
<1>13. ASSUME NEW i \in 1 .. Len(r) PROVE i + (tz[r[i][1]] - r[i][2]) <= Len(r)
  <2>1. CASE i \in 1 .. x /\ r[i] = s[i] /\ s[i][1] \in 1 .. m /\ tz[s[i][1]] = sz[s[i][1]]
    <3>1. s[i] \in Unit
      BY <1>3, <2>1
    <3>2. PICK y \in Int : y = sz[s[i][1]] - s[i][2]
      <4>1. s[i][2] \in Nat /\ sz[s[i][1]] \in Nat
        BY <1>2, <2>1, <3>1, UnitParts, SizeOf
      <4> QED BY <4>1, Difference, Zenon
    <3>3. i + y <= x
      BY <1>7, <2>1, <3>2
    <3>4. i + y <= Len(r)
      BY <1>3, <3>3
    <3> QED BY <2>1, <3>2, <3>4
  <2>2. CASE \E k \in 1 .. l : i = x + k /\ r[i] = <<m + 1, k>>
    <3>1. PICK k \in 1 .. l : i = x + k /\ r[i] = <<m + 1, k>>
      BY <2>2
    <3>2. tz[r[i][1]] = l /\ r[i][2] = k
      BY ONLY <1>4, <3>1
    <3>3. Len(r) = x + l
      BY <1>3
    <3>4. (x + k) + (l - k) <= x + l
      BY ONLY x \in Nat, l \in Nat, k \in 1 .. l
    <3> QED BY ONLY <3>1, <3>2, <3>3, <3>4
  <2> QED BY <1>5, <2>1, <2>2
<1>14. r[Len(r)] = <<m + 1, l>> /\ Len(r) > 0
  <2>1. l \in 1 .. l /\ Len(r) = x + l
    BY <1>3
  <2>2. r[x + l] = <<m + 1, l>>
    BY <1>2, <1>3, <2>1
  <2>3. x + l > 0
    BY ONLY x \in Nat, l \in Nat \ {0}
  <2> QED BY ONLY <2>1, <2>2, <2>3
<1>15. Whole(r, tz, d)
  BY <1>4, <1>13, <1>14 DEF Whole
<1> QED BY <1>1, <1>12, <1>15

-----------------------------------------------------------------------------
(* A connection that was cancelled is closed, and one that works and whose *)
(* strand is idle reads.                                                   *)
WorkType ==
    /\ DOMAIN conn_stat_ = Conns /\ was_cancelled_ \in [Conns -> BOOLEAN]
    /\ DOMAIN reading = Conns /\ DOMAIN pc = Conns

CancelledIsClosed == \A c \in Conns : was_cancelled_[c] => Closed(c)

WorkInv == WorkType /\ CancelledIsClosed /\ WorkingReads

(***************************************************************************)
(* The stream of connection c.  Between parse_header and parse_msg_body    *)
(* the header of the message is no longer in recv_buffer.                  *)
(***************************************************************************)
InBody(c) == pc[c] \in {"do_read_msg", "parse_msg_body"} \/ reading[c] = "read_msg_handler"

Reads(c) == pc[c] # "idle" \/ reading[c] # "none"

Taken(c) == IF InBody(c) THEN recv_header[c] ELSE <<>>

Rest(c) == Join(Join(Taken(c), recv_buffer[c]), net[c])

Sizes(c) == [n \in 1 .. Len(sent[c]) |-> HeaderSize + BodyLength[sent[c][n]]]

(* What the handlers read is the stream from a message's beginning on, and *)
(* they know how much of it they have.                                     *)
InStep(c) ==
    /\ Chain(Rest(c), Sizes(c), Len(dispatched[c]))
    /\ open[c] => Whole(Rest(c), Sizes(c), Len(dispatched[c]))
    /\ InBody(c) => Len(recv_header[c]) = HeaderSize
    /\ pc[c] = "parse_header" => Len(recv_buffer[c]) >= HeaderSize
    /\ reading[c] = "read_handler" => Len(recv_buffer[c]) < HeaderSize
    /\ reading[c] = "read_msg_handler" => Len(recv_buffer[c]) < HeaderLength(c)

(* Nothing has happened on a connection that is not accepted.              *)
Fresh(c) ==
    /\ ~open[c] /\ ~Reads(c)
    /\ Len(sent[c]) = 0 /\ Len(net[c]) = 0 /\ Len(recv_buffer[c]) = 0
    /\ Len(dispatched[c]) = 0

ConnInv(c) ==
    /\ open[c] \in BOOLEAN /\ sent[c] \in Seq(Kinds) /\ net[c] \in Seq(Unit)
    /\ recv_buffer[c] \in Seq(Unit) /\ recv_header[c] \in Seq(Unit)
    /\ reading[c] \in {"none", "read_handler", "read_msg_handler"}
    /\ dispatched[c] \in Seq(Seq(Unit))
    /\ pc[c] # "idle" => reading[c] = "none"
    /\ conn_stat_[c] = "pending" => Fresh(c)
    /\ Len(dispatched[c]) <= Len(sent[c])
    /\ \A n \in DOMAIN dispatched[c] : dispatched[c][n] = Units(c, n)
    /\ Reads(c) => InStep(c)

FrameType ==
    /\ DOMAIN open = Conns /\ DOMAIN sent = Conns /\ DOMAIN net = Conns
    /\ DOMAIN conn_stat_ = Conns /\ DOMAIN recv_buffer = Conns /\ DOMAIN recv_header = Conns
    /\ DOMAIN reading = Conns /\ DOMAIN pc = Conns /\ DOMAIN dispatched = Conns

FrameInv == FrameType /\ \A c \in Conns : ConnInv(c)

(***************************************************************************)
(* The places of a request.  A request that an executor still holds while  *)
(* it is in do_write has its reply already.                                *)
(***************************************************************************)
Queued(r) == \E i \in DOMAIN rpc_queue_ : rpc_queue_[i] = r

HeldBy(e, r) == exec[e] = r /\ doWrite[e] = NotWriting

Held(r) == \E e \in Executors : HeldBy(e, r)

AtStrand(r) == pc[r[1]] = "handle_RPC" /\ r[2] = Len(dispatched[r[1]])

Through(r) == r \in replied \cup unreplied

Dispatched == {r \in Conns \X Nat : r[2] \in DOMAIN dispatched[r[1]]}

PlaceType ==
    /\ DOMAIN pc = Conns /\ dispatched \in [Conns -> Seq(Seq(Unit))]
    /\ rpc_queue_ \in Seq(Dispatched) /\ exec \in [Executors -> Dispatched \cup {NoRequest}]
    /\ doWrite \in [Threads -> Int] /\ send_length \in [Conns -> Int]
    /\ replied \subseteq Dispatched /\ unreplied \subseteq Dispatched
    /\ \A e \in Executors : exec[e] = NoRequest => doWrite[e] = NotWriting
    /\ \A c \in Conns : pc[c] = "handle_RPC" => Len(dispatched[c]) > 0

Alone ==
    /\ \A i, j \in DOMAIN rpc_queue_ : rpc_queue_[i] = rpc_queue_[j] => i = j
    /\ \A r \in Dispatched : \A e, f \in Executors : HeldBy(e, r) /\ HeldBy(f, r) => e = f
    /\ replied \cap unreplied = {}

OnePlace(r) ==
    /\ Queued(r) \/ Held(r) \/ AtStrand(r) \/ Through(r)
    /\ Queued(r) => ~Held(r) /\ ~AtStrand(r) /\ ~Through(r)
    /\ Held(r) => ~AtStrand(r) /\ ~Through(r)
    /\ AtStrand(r) => ~Through(r)

PlaceInv == PlaceType /\ Alone /\ \A r \in Dispatched : OnePlace(r)

-----------------------------------------------------------------------------
(* WorkInv: a step of connection c.                                        *)
LEMMA WorkFrame ==
    ASSUME WorkInv, NEW c \in Conns, WorkType',
           \A d \in Conns \ {c} : /\ conn_stat_'[d] = conn_stat_[d]
                                  /\ was_cancelled_'[d] = was_cancelled_[d]
                                  /\ reading'[d] = reading[d] /\ pc'[d] = pc[d],
           was_cancelled_'[c] => Closed(c)',
           conn_stat_'[c] = "working" /\ pc'[c] = "idle" => reading'[c] # "none"
    PROVE  WorkInv'
BY DEF WorkInv, CancelledIsClosed, WorkingReads, Closed

(* A connection that is closed needs nothing else.                         *)
LEMMA WorkCloses ==
    ASSUME WorkInv, NEW c \in Conns, CancelAndClose(c) \/ UNCHANGED connVars,
           UNCHANGED connVars => (reading' = reading \/ Closed(c)),
           pc' = pc,
           reading' = reading \/ reading' = [reading EXCEPT ![c] = "none"]
    PROVE  WorkInv'
<1> USE DEF WorkInv, WorkType
<1>1. WorkType'
  BY DEF CancelAndClose, sock_shutdown_and_close, connVars
<1>2. \A d \in Conns \ {c} : /\ conn_stat_'[d] = conn_stat_[d]
                             /\ was_cancelled_'[d] = was_cancelled_[d]
                             /\ reading'[d] = reading[d] /\ pc'[d] = pc[d]
  BY DEF CancelAndClose, sock_shutdown_and_close, connVars
<1>3. was_cancelled_'[c] => Closed(c)'
  BY DEF CancelAndClose, sock_shutdown_and_close, connVars, CancelledIsClosed, Closed
<1>4. conn_stat_'[c] = "working" /\ pc'[c] = "idle" => reading'[c] # "none"
  BY DEF CancelAndClose, sock_shutdown_and_close, connVars, WorkingReads, Closed
<1> QED BY <1>1, <1>2, <1>3, <1>4, WorkFrame

LEMMA WorkReader ==
    ASSUME WorkInv, NEW c \in Conns, Reader(c)
    PROVE  WorkInv'
<1> USE DEF WorkInv, WorkType
<1>1. ASSUME do_read(c) \/ do_read_msg(c) PROVE WorkInv'
  <2>1. UNCHANGED <<conn_stat_, was_cancelled_>>
    BY <1>1 DEF do_read, do_read_msg, connVars
  <2>2. \/ ~Working(c) /\ pc' = [pc EXCEPT ![c] = "idle"] /\ UNCHANGED reading
        \/ \E h \in {"read_handler", "read_msg_handler"} :
              reading' = [reading EXCEPT ![c] = h] /\ pc' = [pc EXCEPT ![c] = "idle"]
        \/ \E p \in {"parse_header", "parse_msg_body"} :
              reading' = reading /\ pc' = [pc EXCEPT ![c] = p]
    BY <1>1 DEF do_read, do_read_msg, AsyncRead, GoTo
  <2>3. WorkType'
    BY <2>1, <2>2
  <2>4. \A d \in Conns \ {c} : reading'[d] = reading[d] /\ pc'[d] = pc[d]
    BY <2>2
  <2>5. conn_stat_'[c] = "working" /\ pc'[c] = "idle" => reading'[c] # "none"
    BY <2>1, <2>2 DEF Working, CancelledIsClosed, Closed
  <2>6. was_cancelled_'[c] => Closed(c)'
    BY <2>1 DEF CancelledIsClosed, Closed
  <2> QED BY <2>1, <2>3, <2>4, <2>5, <2>6, WorkFrame
<1>2. ASSUME parse_header(c) PROVE WorkInv'
  <2>1. UNCHANGED <<was_cancelled_, reading>>
    BY <1>2 DEF parse_header, connVars
  <2>2. \/ pc' = [pc EXCEPT ![c] = "do_read_msg"] /\ UNCHANGED conn_stat_
        \/ pc' = [pc EXCEPT ![c] = "idle"] /\ conn_stat_' = [conn_stat_ EXCEPT ![c] = "closed"]
    BY <1>2 DEF parse_header, GoTo, sock_shutdown_and_close
  <2>3. WorkType'
    BY <2>1, <2>2
  <2>4. \A d \in Conns \ {c} : conn_stat_'[d] = conn_stat_[d] /\ pc'[d] = pc[d]
    BY <2>2
  <2>5. conn_stat_'[c] = "working" => pc'[c] # "idle"
    BY <2>2
  <2>6. was_cancelled_'[c] => Closed(c)'
    BY <2>1, <2>2 DEF CancelledIsClosed, Closed
  <2> QED BY <2>1, <2>3, <2>4, <2>5, <2>6, WorkFrame
<1>3. ASSUME parse_msg_body(c) \/ handle_RPC(c) \/ ReadCompletes(c) PROVE WorkInv'
  <2>1. UNCHANGED <<conn_stat_, was_cancelled_>>
    BY <1>3 DEF parse_msg_body, handle_RPC, ReadCompletes, connVars
  <2>2. \E p \in {"do_read_msg", "handle_RPC", "do_read", "parse_header", "parse_msg_body"} :
            pc' = [pc EXCEPT ![c] = p]
    BY <1>3 DEF parse_msg_body, handle_RPC, ReadCompletes, GoTo, AfterMessage
  <2>3. reading' = reading \/ reading' = [reading EXCEPT ![c] = "none"]
    BY <1>3 DEF parse_msg_body, handle_RPC, ReadCompletes
  <2>4. WorkType'
    BY <2>1, <2>2, <2>3
  <2>5. \A d \in Conns \ {c} : reading'[d] = reading[d] /\ pc'[d] = pc[d]
    BY <2>2, <2>3
  <2>6. pc'[c] # "idle"
    BY <2>2
  <2>7. was_cancelled_'[c] => Closed(c)'
    BY <2>1 DEF CancelledIsClosed, Closed
  <2> QED BY <2>1, <2>4, <2>5, <2>6, <2>7, WorkFrame
<1>4. ASSUME ReadFails(c) PROVE WorkInv'
  <2>1. pc' = pc /\ reading' = [reading EXCEPT ![c] = "none"]
    BY <1>4 DEF ReadFails, ReadEnds
  <2>2. CancelAndClose(c) \/ (UNCHANGED connVars /\ Closed(c))
    BY <1>4 DEF ReadFails, handle_socket_ec
  <2>3. CASE CancelAndClose(c)
    <3>1. UNCHANGED connVars => Closed(c)
      BY <2>3 DEF CancelAndClose, sock_shutdown_and_close, connVars, Closed
    <3> QED BY <2>1, <2>3, <3>1, WorkCloses
  <2>4. CASE UNCHANGED connVars /\ Closed(c)
    BY <2>1, <2>4, WorkCloses
  <2> QED BY <2>2, <2>3, <2>4
<1> QED BY <1>1, <1>2, <1>3, <1>4 DEF Reader

LEMMA WorkNext == WorkInv /\ [Next]_vars => WorkInv'
<1> SUFFICES ASSUME WorkInv, [Next]_vars PROVE WorkInv'
  OBVIOUS
<1>1. ASSUME UNCHANGED <<connVars, reading, pc>> PROVE WorkInv'
  BY <1>1 DEF connVars, WorkInv, WorkType, CancelledIsClosed, WorkingReads, Closed
<1>2. CASE UNCHANGED vars
  BY <1>1, <1>2 DEF vars, recvVars
<1>3. ASSUME NEW c \in Conns, Client(c) \/ Accept(c) \/ Timer(c) \/ Reader(c) \/ Writer(c)
      PROVE  WorkInv'
  <2>1. CASE Client(c) \/ TimerExpires(c) \/ WriteCompletes(c)
    BY <1>1, <2>1 DEF Client, ClientClose, ClientSend, TimerExpires, WriteCompletes, recvVars
  <2>2. CASE Accept(c)
    <3> USE DEF WorkInv, WorkType
    <3>1. /\ UNCHANGED <<was_cancelled_, reading>> /\ conn_stat_[c] = "pending"
          /\ conn_stat_' = [conn_stat_ EXCEPT ![c] = "working"]
          /\ pc' = [pc EXCEPT ![c] = "do_read"]
      BY <2>2 DEF Accept, GoTo
    <3>2. WorkType'
      BY <3>1
    <3>3. ~was_cancelled_[c]
      BY <3>1 DEF CancelledIsClosed, Closed
    <3> QED BY <3>1, <3>2, <3>3, WorkFrame
  <2>3. CASE ops_cancel_timeout_call(c)
    BY <2>3, WorkCloses DEF ops_cancel_timeout_call, recvVars
  <2>4. CASE Reader(c)
    BY <2>4, WorkReader
  <2>5. CASE WriteFails(c)
    <3>1. (CancelAndClose(c) \/ UNCHANGED connVars) /\ pc' = pc /\ reading' = reading
      BY <2>5 DEF WriteFails, handle_socket_ec, recvVars
    <3> QED BY <3>1, WorkCloses
  <2> QED BY <1>3, <2>1, <2>2, <2>3, <2>4, <2>5 DEF Timer, Writer
<1>4. ASSUME NEW e \in Executors, Executor(e) PROVE WorkInv'
  BY <1>1, <1>4 DEF Executor, ExecutorPop, reject, write_ops_impl, read_ops_impl,
                    read_ops_impl_Fails, Reply, recvVars
<1>5. ASSUME NEW t \in Threads, DoWrite(t) PROVE WorkInv'
  BY <1>1, <1>5 DEF DoWrite, DoWriteTest, DoWriteStart, recvVars
<1> QED BY <1>2, <1>3, <1>4, <1>5 DEF Next

(* A connection that works is always read from: no path through the        *)
(* handlers of TcpConnAsync forgets to start the next async_read.          *)
THEOREM AlwaysReads == Spec => []WorkingReads
<1>1. Init => WorkInv
  BY DEF Init, WorkInv, WorkType, CancelledIsClosed, WorkingReads
<1>2. WorkInv => WorkingReads
  BY DEF WorkInv
<1> QED BY <1>1, <1>2, WorkNext, PTL DEF Spec

-----------------------------------------------------------------------------
(* PlaceInv.                                                               *)
LEMMA Apart ==
    /\ \A r \in Dispatched : r # NoRequest /\ r \in Conns \X Nat /\ r[1] \in Conns /\ r[2] \in Nat
    /\ \A t \in Executors : t \notin Conns /\ t \in Threads
    /\ \A c \in Conns : c \in Threads
BY SizesAssumption DEF Dispatched, NoRequest, Threads

(* A step that moves no request.                                           *)
LEMMA PlaceQuiet ==
    ASSUME PlaceInv, UNCHANGED <<dispatched, rpc_queue_, replied, unreplied>>,
           DOMAIN pc' = Conns,
           \A c \in Conns : pc'[c] = "handle_RPC" <=> pc[c] = "handle_RPC",
           exec' \in [Executors -> Dispatched \cup {NoRequest}],
           doWrite' \in [Threads -> Int], send_length' \in [Conns -> Int],
           \A e \in Executors : exec'[e] = NoRequest => doWrite'[e] = NotWriting,
           \A e \in Executors : \A r \in Dispatched : HeldBy(e, r)' <=> HeldBy(e, r)
    PROVE  PlaceInv'
<1>1. Dispatched' = Dispatched
  BY DEF Dispatched
<1>2. PlaceType'
  BY <1>1 DEF PlaceInv, PlaceType
<1>3. Alone'
  BY <1>1 DEF PlaceInv, Alone
<1>4. \A r \in Dispatched : /\ Queued(r)' <=> Queued(r)
                            /\ Held(r)' <=> Held(r)
                            /\ Through(r)' <=> Through(r)
  BY DEF Queued, Held, Through
<1>5. \A r \in Dispatched : AtStrand(r)' <=> AtStrand(r)
  BY Apart DEF AtStrand
<1>6. \A r \in Dispatched : OnePlace(r)'
  BY <1>4, <1>5 DEF PlaceInv, OnePlace
<1> QED BY <1>1, <1>2, <1>3, <1>6 DEF PlaceInv

(* A step that moves request q.                                            *)
LEMMA PlaceMove ==
    ASSUME PlaceInv, UNCHANGED dispatched, PlaceType', Alone', NEW q \in Dispatched,
           \A r \in Dispatched \ {q} :
               /\ Queued(r)' <=> Queued(r)
               /\ Held(r)' <=> Held(r)
               /\ AtStrand(r)' <=> AtStrand(r)
               /\ Through(r)' <=> Through(r),
           OnePlace(q)'
    PROVE  PlaceInv'
<1>1. Dispatched' = Dispatched
  BY DEF Dispatched
<1>2. \A r \in Dispatched \ {q} : OnePlace(r)'
  BY DEF PlaceInv, OnePlace
<1> QED BY <1>1, <1>2 DEF PlaceInv

LEMMA PlacePop ==
    ASSUME PlaceInv, NEW e \in Executors, ExecutorPop(e)
    PROVE  PlaceInv'
<1> USE DEF PlaceInv, PlaceType
<1>1. /\ UNCHANGED <<pc, dispatched, send_length, doWrite, replied, unreplied>>
      /\ exec[e] = NoRequest /\ rpc_queue_ # <<>>
      /\ exec' = [exec EXCEPT ![e] = Head(rpc_queue_)]
      /\ rpc_queue_' = Tail(rpc_queue_)
  BY DEF ExecutorPop, QueueAfterPop, recvVars, sendVars
<1>2. PICK q \in Dispatched : q = Head(rpc_queue_)
  BY <1>1
<1>3. Dispatched' = Dispatched
  BY <1>1 DEF Dispatched
<1>4. /\ rpc_queue_' \in Seq(Dispatched)
      /\ Len(rpc_queue_') = Len(rpc_queue_) - 1
      /\ Len(rpc_queue_) \in Nat \ {0} /\ rpc_queue_[1] = q
      /\ \A i \in 1 .. Len(rpc_queue_') : rpc_queue_'[i] = rpc_queue_[i + 1]
      /\ DOMAIN rpc_queue_ = 1 .. Len(rpc_queue_) /\ DOMAIN rpc_queue_' = 1 .. Len(rpc_queue_')
  BY <1>1, <1>2, HeadTailProperties
<1>5. /\ exec'[e] = q /\ doWrite[e] = NotWriting
      /\ \A f \in Executors \ {e} : exec'[f] = exec[f]
  BY <1>1, <1>2
<1>6. PlaceType'
  <2>1. exec' \in [Executors -> Dispatched \cup {NoRequest}]
    BY <1>1, <1>2
  <2>2. \A f \in Executors : exec'[f] = NoRequest => doWrite'[f] = NotWriting
    BY <1>1, <1>5
  <2> QED BY <1>1, <1>3, <1>4, <2>1, <2>2
<1>7. \A i \in DOMAIN rpc_queue_' : i + 1 \in DOMAIN rpc_queue_ /\ i + 1 # 1 /\ rpc_queue_'[i] = rpc_queue_[i + 1]
  BY <1>4
<1>8. \A i \in DOMAIN rpc_queue_ : i # 1 => /\ i - 1 \in DOMAIN rpc_queue_'
                                            /\ rpc_queue_[i] = rpc_queue_'[i - 1]
  <2> SUFFICES ASSUME NEW i \in DOMAIN rpc_queue_, i # 1
               PROVE  i - 1 \in DOMAIN rpc_queue_' /\ rpc_queue_[i] = rpc_queue_'[i - 1]
    OBVIOUS
  <2>1. i - 1 \in DOMAIN rpc_queue_' /\ (i - 1) + 1 = i
    BY <1>4
  <2> QED BY <1>7, <2>1
<1>9. 1 \in DOMAIN rpc_queue_
  BY <1>4
<1>10. Queued(q) /\ ~Queued(q)'
  BY <1>4, <1>7, <1>9 DEF Queued, Alone
<1>11. \A r \in Dispatched \ {q} : Queued(r)' <=> Queued(r)
  BY <1>4, <1>7, <1>8 DEF Queued
<1>12. ~Held(q) /\ ~AtStrand(q) /\ ~Through(q)
  BY <1>10 DEF OnePlace
<1>13. \A f \in Executors : HeldBy(f, q)' <=> f = e
  BY <1>1, <1>5, <1>12 DEF Held, HeldBy
<1>14. \A f \in Executors : \A r \in Dispatched \ {q} : HeldBy(f, r)' <=> HeldBy(f, r)
  BY <1>1, <1>5, Apart DEF HeldBy
<1>15. Alone'
  <2>1. \A i, j \in DOMAIN rpc_queue_' : rpc_queue_'[i] = rpc_queue_'[j] => i = j
    <3> SUFFICES ASSUME NEW i \in DOMAIN rpc_queue_', NEW j \in DOMAIN rpc_queue_',
                        rpc_queue_'[i] = rpc_queue_'[j]
                 PROVE  i = j
      OBVIOUS
    <3>1. i + 1 = j + 1
      BY <1>7 DEF Alone
    <3>2. i \in Int /\ j \in Int
      BY <1>4
    <3> QED BY <3>1, <3>2
  <2>2. \A r \in Dispatched : \A f, g \in Executors : HeldBy(f, r)' /\ HeldBy(g, r)' => f = g
    BY <1>13, <1>14 DEF Alone
  <2> QED BY <1>1, <1>3, <2>1, <2>2 DEF Alone
<1>16. Held(q)' /\ \A r \in Dispatched \ {q} : Held(r)' <=> Held(r)
  BY <1>13, <1>14 DEF Held
<1>17. \A r \in Dispatched : (AtStrand(r)' <=> AtStrand(r)) /\ (Through(r)' <=> Through(r))
  BY <1>1 DEF AtStrand, Through
<1>18. OnePlace(q)'
  BY <1>10, <1>12, <1>16, <1>17 DEF OnePlace
<1> QED BY <1>1, <1>6, <1>11, <1>15, <1>16, <1>17, <1>18, PlaceMove

(* An executor is through with its request, with a reply or without one.   *)
LEMMA PlaceThrough ==
    ASSUME PlaceInv, NEW e \in Executors, Handles(e),
           UNCHANGED <<pc, dispatched, rpc_queue_>>,
           \/ /\ replied' = replied \cup {exec[e]} /\ UNCHANGED <<unreplied, exec>>
              /\ doWrite' = [doWrite EXCEPT ![e] = Testing]
           \/ /\ unreplied' = unreplied \cup {exec[e]} /\ UNCHANGED <<replied, doWrite>>
              /\ exec' = [exec EXCEPT ![e] = NoRequest],
           send_length' \in [Conns -> Int]
    PROVE  PlaceInv'
<1> USE DEF PlaceInv, PlaceType
<1>1. PICK q \in Dispatched : q = exec[e] /\ doWrite[e] = NotWriting
  BY DEF Handles
<1>2. Dispatched' = Dispatched
  BY DEF Dispatched
<1>3. HeldBy(e, q) /\ Held(q)
  BY <1>1 DEF HeldBy, Held
<1>4. ~Queued(q) /\ ~AtStrand(q) /\ ~Through(q) /\ \A f \in Executors : HeldBy(f, q) => f = e
  BY <1>3 DEF OnePlace, Alone
<1>5. e \in Threads
  BY Apart
<1>6. \A f \in Executors \ {e} : exec'[f] = exec[f] /\ doWrite'[f] = doWrite[f]
  BY <1>5, Apart
<1>7. /\ \A f \in Executors : ~HeldBy(f, q)'
      /\ \A f \in Executors : \A r \in Dispatched \ {q} : HeldBy(f, r)' <=> HeldBy(f, r)
  <2>1. ASSUME NEW r \in Dispatched PROVE ~HeldBy(e, r)'
    BY <1>5, Apart DEF HeldBy, NotWriting, Testing
  <2>2. \A f \in Executors \ {e} : \A r \in Dispatched : HeldBy(f, r)' <=> HeldBy(f, r)
    BY <1>6 DEF HeldBy
  <2>3. \A r \in Dispatched \ {q} : ~HeldBy(e, r)
    BY <1>1 DEF HeldBy
  <2> QED BY <1>4, <2>1, <2>2, <2>3
<1>8. PlaceType'
  <2>1. exec' \in [Executors -> Dispatched \cup {NoRequest}]
    OBVIOUS
  <2>2. doWrite' \in [Threads -> Int]
    BY DEF Testing
  <2>3. \A f \in Executors : exec'[f] = NoRequest => doWrite'[f] = NotWriting
    BY <1>1, <1>6, Apart
  <2>4. replied' \subseteq Dispatched /\ unreplied' \subseteq Dispatched
    BY <1>1
  <2> QED BY <1>2, <2>1, <2>2, <2>3, <2>4
<1>9. Alone'
  <2>1. replied' \cap unreplied' = {}
    BY <1>1, <1>4 DEF Alone, Through
  <2>2. ASSUME NEW r \in Dispatched, NEW f \in Executors, NEW g \in Executors,
               HeldBy(f, r)', HeldBy(g, r)'
        PROVE  f = g
    <3>1. r \in Dispatched \ {q}
      BY <1>7, <2>2
    <3>2. HeldBy(f, r) /\ HeldBy(g, r)
      BY <1>7, <2>2, <3>1
    <3> QED BY <3>2 DEF Alone
  <2> QED BY <1>2, <2>1, <2>2 DEF Alone
<1>10. \A r \in Dispatched : (AtStrand(r)' <=> AtStrand(r)) /\ (Queued(r)' <=> Queued(r))
  BY DEF AtStrand, Queued
<1>11. ~Held(q)' /\ \A r \in Dispatched \ {q} : Held(r)' <=> Held(r)
  BY <1>7 DEF Held
<1>12. Through(q)' /\ \A r \in Dispatched \ {q} : Through(r)' <=> Through(r)
  BY <1>1 DEF Through
<1>13. OnePlace(q)'
  BY <1>4, <1>10, <1>11, <1>12 DEF OnePlace
<1> QED BY <1>8, <1>9, <1>10, <1>11, <1>12, <1>13, PlaceMove

LEMMA PlaceExecutor ==
    ASSUME PlaceInv, NEW e \in Executors, Executor(e)
    PROVE  PlaceInv'
<1>1. ASSUME NEW length \in Int, Reply(e, length) PROVE PlaceInv'
  <2> USE DEF PlaceInv, PlaceType
  <2>1. Handles(e) /\ UNCHANGED <<pc, dispatched, rpc_queue_>>
    BY <1>1 DEF Reply, recvVars
  <2>2. e \in Threads /\ exec[e] # NoRequest /\ doWrite[e] = NotWriting
    BY <2>1, Apart DEF Handles
  <2>3. CASE UNCHANGED <<send_length, doWrite, replied>> /\ unreplied' = unreplied \cup {exec[e]}
    <3>1. exec' = [exec EXCEPT ![e] = NoRequest]
      BY <1>1, <2>2, <2>3 DEF Reply
    <3> QED BY <2>1, <2>3, <3>1, PlaceThrough
  <2>4. CASE /\ send_length' = [send_length EXCEPT ![exec[e][1]] = @ + length]
             /\ doWrite' = [doWrite EXCEPT ![e] = Testing]
             /\ replied' = replied \cup {exec[e]}
             /\ UNCHANGED unreplied
    <3>1. doWrite'[e] # NotWriting
      BY <2>2, <2>4 DEF Testing, NotWriting
    <3>2. exec' = exec
      BY <1>1, <3>1 DEF Reply
    <3>3. send_length' \in [Conns -> Int]
      <4>1. PICK c \in Conns : c = exec[e][1]
        BY <2>2, Apart
      <4>2. send_length[c] + length \in Int
        OBVIOUS
      <4> QED BY <2>4, <4>1, <4>2
    <3> QED BY <2>1, <2>4, <3>2, <3>3, PlaceThrough
  <2> QED BY <1>1, <2>3, <2>4 DEF Reply, async_send_message
<1>2. CASE read_ops_impl_Fails(e)
  <2>1. /\ Handles(e) /\ UNCHANGED <<pc, dispatched, rpc_queue_, replied, doWrite, send_length>>
        /\ unreplied' = unreplied \cup {exec[e]} /\ exec' = [exec EXCEPT ![e] = NoRequest]
    BY <1>2 DEF read_ops_impl_Fails, recvVars, sendVars
  <2>2. send_length' \in [Conns -> Int]
    BY <2>1 DEF PlaceInv, PlaceType
  <2> QED BY <2>1, <2>2, PlaceThrough
<1>3. CASE reject(e) \/ write_ops_impl(e) \/ read_ops_impl(e)
  BY <1>1, <1>3, SizesAssumption DEF reject, write_ops_impl, read_ops_impl
<1> QED BY <1>2, <1>3, PlacePop DEF Executor

(* do_write, by any thread: requests stay where they are.                  *)
LEMMA PlaceDoWrite ==
    ASSUME PlaceInv, NEW t \in Threads, DoWrite(t)
    PROVE  PlaceInv'
<1> USE DEF PlaceInv, PlaceType
<1>1. UNCHANGED <<pc, dispatched, rpc_queue_, replied, unreplied>> /\ doWrite[t] # NotWriting
  BY DEF DoWrite, DoWriteTest, DoWriteStart, recvVars, Testing, NotWriting
<1>2. ConnOf(t) \in Conns
  <2>1. CASE t \in Conns
    BY <2>1 DEF ConnOf
  <2>2. CASE t \in Executors
    <3>1. exec[t] \in Dispatched /\ t \notin Conns
      BY <1>1, <2>2, Apart
    <3> QED BY <3>1, Apart DEF ConnOf
  <2> QED BY <2>1, <2>2 DEF Threads
<1>3. PICK c \in Conns : c = ConnOf(t)
  BY <1>2
<1>4. ASSUME DoWriteEnds(t), send_length' \in [Conns -> Int] PROVE PlaceInv'
  <2>1. /\ doWrite' = [doWrite EXCEPT ![t] = NotWriting]
        /\ exec' = [e \in Executors |-> IF e = t THEN NoRequest ELSE exec[e]]
    BY <1>4 DEF DoWriteEnds
  <2>2. doWrite' \in [Threads -> Int] /\ exec' \in [Executors -> Dispatched \cup {NoRequest}]
    BY <2>1 DEF NotWriting
  <2>3. \A e \in Executors : e \in Threads
    BY Apart
  <2>4. \A e \in Executors : exec'[e] = NoRequest => doWrite'[e] = NotWriting
    BY <2>1, <2>3
  <2>5. \A e \in Executors : \A r \in Dispatched : HeldBy(e, r)' <=> HeldBy(e, r)
    BY <1>1, <2>1, <2>3, Apart DEF HeldBy
  <2> QED BY <1>1, <1>4, <2>2, <2>4, <2>5, PlaceQuiet
<1>5. CASE DoWriteTest(t)
  <2>1. send_length' = send_length
    BY <1>5 DEF DoWriteTest
  <2>2. CASE send_length[c] > 0 /\ doWrite' = [doWrite EXCEPT ![t] = MinOf(send_length[c], IoBlock)]
                                /\ UNCHANGED exec
    <3>1. IoBlock \in Nat /\ IoBlock > 0 /\ send_length[c] \in Int
      BY SizesAssumption
    <3>2. PICK n \in Nat : n = MinOf(send_length[c], IoBlock)
      BY <2>2, <3>1 DEF MinOf
    <3>3. n # NotWriting
      BY DEF NotWriting
    <3>4. doWrite' \in [Threads -> Int]
      BY <2>2, <3>2
    <3>5. \A e \in Executors : e \in Threads
      BY Apart
    <3>6. \A e \in Executors : exec'[e] = NoRequest => doWrite'[e] = NotWriting
      BY <1>1, <2>2, <3>5
    <3>7. \A e \in Executors : \A r \in Dispatched : HeldBy(e, r)' <=> HeldBy(e, r)
      BY <1>1, <2>2, <3>2, <3>3, <3>5 DEF HeldBy
    <3> QED BY <1>1, <2>1, <2>2, <3>4, <3>6, <3>7, PlaceQuiet
  <2> QED BY <1>3, <1>4, <1>5, <2>1, <2>2 DEF DoWriteTest
<1>6. CASE DoWriteStart(t)
  <2>1. send_length' = [send_length EXCEPT ![c] = front_erase(@, doWrite[t])]
    BY <1>3, <1>6 DEF DoWriteStart
  <2>2. front_erase(send_length[c], doWrite[t]) \in Int
    BY DEF front_erase, MinOf
  <2>3. send_length' \in [Conns -> Int]
    BY <2>1, <2>2
  <2> QED BY <1>4, <1>6, <2>3 DEF DoWriteStart
<1> QED BY <1>5, <1>6 DEF DoWrite

(* parse_msg_body has a complete message: a new request, at the strand.    *)
LEMMA PlaceDispatch ==
    ASSUME PlaceInv, NEW c \in Conns, pc[c] = "parse_msg_body", NEW message \in Seq(Unit),
           dispatched' = [dispatched EXCEPT ![c] = Append(@, message)],
           pc' = [pc EXCEPT ![c] = "handle_RPC"],
           UNCHANGED <<rpc_queue_, exec, doWrite, send_length, replied, unreplied>>
    PROVE  PlaceInv'
<1> USE DEF PlaceInv, PlaceType
<1>1. PICK n \in Nat : n = Len(dispatched[c]) + 1
  OBVIOUS
<1>2. PICK q : q = <<c, n>>
  OBVIOUS
<1>3. /\ dispatched' \in [Conns -> Seq(Seq(Unit))]
      /\ DOMAIN dispatched[c] = 1 .. (n - 1)
      /\ DOMAIN dispatched'[c] = 1 .. n /\ Len(dispatched'[c]) = n
      /\ \A d \in Conns \ {c} : dispatched'[d] = dispatched[d]
  BY <1>1, AppendProperties
<1>4. q \in Dispatched' /\ q \notin Dispatched
  BY <1>2, <1>3 DEF Dispatched
<1>5. \A r \in Conns \X Nat : r[2] \in DOMAIN dispatched[r[1]] => r[2] \in DOMAIN dispatched'[r[1]]
  BY <1>3
<1>6. Dispatched \subseteq Dispatched'
  BY <1>5 DEF Dispatched
<1>7. ASSUME NEW r \in Dispatched', r # q PROVE r \in Dispatched
  <2>1. PICK d \in Conns, k \in Nat : r = <<d, k>> /\ k \in DOMAIN dispatched'[d]
    BY <1>7 DEF Dispatched
  <2>2. k \in DOMAIN dispatched[d]
    BY <1>2, <1>3, <1>7, <2>1
  <2> QED BY <2>1, <2>2 DEF Dispatched
<1>8. /\ rpc_queue_' \in Seq(Dispatched') /\ exec' \in [Executors -> Dispatched' \cup {NoRequest}]
      /\ replied' \subseteq Dispatched' /\ unreplied' \subseteq Dispatched'
  <2>1. rpc_queue_ \in Seq(Dispatched')
    BY <1>6, SeqMonotonic
  <2> QED BY <1>6, <2>1
<1>9. PlaceType'
  <2>1. \A d \in Conns : pc'[d] = "handle_RPC" => Len(dispatched'[d]) > 0
    BY <1>3
  <2> QED BY <1>3, <1>8, <2>1
<1>10. ~Queued(q)' /\ ~Held(q)' /\ ~Through(q)'
  <2>1. q # NoRequest
    BY <1>2 DEF NoRequest
  <2>2. \A i \in DOMAIN rpc_queue_ : rpc_queue_[i] \in Dispatched
    OBVIOUS
  <2>3. \A e \in Executors : exec[e] # q
    BY <1>4, <2>1
  <2> QED BY <1>4, <2>2, <2>3 DEF Queued, Held, HeldBy, Through
<1>11. AtStrand(q)'
  BY <1>2, <1>3 DEF AtStrand
<1>12. \A r \in Dispatched : /\ Queued(r)' <=> Queued(r)
                             /\ Held(r)' <=> Held(r)
                             /\ Through(r)' <=> Through(r)
  BY DEF Queued, Held, HeldBy, Through
<1>13. ASSUME NEW r \in Dispatched PROVE AtStrand(r)' <=> AtStrand(r)
  <2>1. PICK d \in Conns, k \in Nat : r = <<d, k>> /\ k \in DOMAIN dispatched[d]
    BY <1>13 DEF Dispatched
  <2>2. CASE d = c
    BY <1>3, <2>1, <2>2 DEF AtStrand
  <2>3. CASE d # c
    BY <1>3, <2>1, <2>3 DEF AtStrand
  <2> QED BY <2>2, <2>3
<1>14. \A r \in Dispatched' : OnePlace(r)'
  BY <1>7, <1>10, <1>11, <1>12, <1>13 DEF OnePlace
<1>15. Alone'
  <2>1. \A r \in Dispatched' : \A e, f \in Executors : HeldBy(e, r)' /\ HeldBy(f, r)' => e = f
    BY <1>7, <1>10 DEF Alone, HeldBy, Held
  <2> QED BY <2>1 DEF Alone
<1> QED BY <1>9, <1>14, <1>15

(* Dispatcher::handle_RPC: into the queue, or through.                     *)
LEMMA PlaceHandle ==
    ASSUME PlaceInv, NEW c \in Conns, handle_RPC(c)
    PROVE  PlaceInv'
<1> USE DEF PlaceInv, PlaceType
<1>1. /\ UNCHANGED <<dispatched, exec>> /\ pc[c] = "handle_RPC"
      /\ pc' = [pc EXCEPT ![c] = "do_read"]
  BY DEF handle_RPC, StrandAt, AfterMessage, GoTo
<1>2. PICK q : q = <<c, Len(dispatched[c])>>
  OBVIOUS
<1>3. q \in Dispatched /\ q[1] = c /\ q[2] = Len(dispatched[c]) /\ Dispatched' = Dispatched
  BY <1>1, <1>2 DEF Dispatched
<1>4. AtStrand(q) /\ ~AtStrand(q)'
  BY <1>1, <1>3 DEF AtStrand
<1>5. ~Queued(q) /\ ~Held(q) /\ ~Through(q)
  BY <1>3, <1>4 DEF OnePlace
<1>6. ASSUME NEW r \in Dispatched \ {q} PROVE AtStrand(r)' <=> AtStrand(r)
  <2>1. PICK d \in Conns, k \in Nat : r = <<d, k>>
    BY <1>6 DEF Dispatched
  <2>2. CASE d = c
    BY <1>1, <1>2, <2>1, <2>2 DEF AtStrand
  <2>3. CASE d # c
    BY <1>1, <2>1, <2>3 DEF AtStrand
  <2> QED BY <2>2, <2>3
<1>7. \A e \in Executors : e # c /\ e \in Threads
  BY Apart
<1>8. c \in Threads
  BY Apart
<1>9. CASE rpc_queue_' = Append(rpc_queue_, q) /\ UNCHANGED <<send_length, doWrite, replied, unreplied>>
  <2>1. /\ rpc_queue_' \in Seq(Dispatched) /\ Len(rpc_queue_) \in Nat
        /\ DOMAIN rpc_queue_ = 1 .. Len(rpc_queue_)
        /\ DOMAIN rpc_queue_' = 1 .. (Len(rpc_queue_) + 1)
        /\ \A i \in 1 .. Len(rpc_queue_) : rpc_queue_'[i] = rpc_queue_[i]
        /\ rpc_queue_'[Len(rpc_queue_) + 1] = q
    BY <1>3, <1>9, AppendProperties
  <2>2. PlaceType'
    BY <1>1, <1>3, <1>9, <2>1
  <2>3. \A i \in DOMAIN rpc_queue_ : rpc_queue_[i] # q
    BY <1>5 DEF Queued
  <2>4. Alone'
    BY <1>1, <1>3, <1>9, <2>1, <2>3 DEF Alone, HeldBy
  <2>5. Queued(q)' /\ \A r \in Dispatched \ {q} : Queued(r)' <=> Queued(r)
    <3>1. Len(rpc_queue_) + 1 \in DOMAIN rpc_queue_'
      BY <2>1
    <3>2. \A i \in DOMAIN rpc_queue_ : i \in DOMAIN rpc_queue_' /\ rpc_queue_'[i] = rpc_queue_[i]
      BY <2>1
    <3>3. \A i \in DOMAIN rpc_queue_' : i \in DOMAIN rpc_queue_ \/ rpc_queue_'[i] = q
      BY <2>1
    <3> QED BY <2>1, <3>1, <3>2, <3>3 DEF Queued
  <2>6. \A r \in Dispatched : (Held(r)' <=> Held(r)) /\ (Through(r)' <=> Through(r))
    BY <1>1, <1>9 DEF Held, HeldBy, Through
  <2>7. OnePlace(q)'
    BY <1>3, <1>4, <1>5, <2>5, <2>6 DEF OnePlace
  <2> QED BY <1>1, <1>3, <1>6, <2>2, <2>4, <2>5, <2>6, <2>7, PlaceMove
<1>10. CASE /\ UNCHANGED rpc_queue_
            /\ \/ /\ unreplied' = unreplied \cup {q}
                  /\ UNCHANGED <<send_length, doWrite, replied>>
               \/ /\ send_length' = [send_length EXCEPT ![q[1]] = @ + 1]
                  /\ doWrite' = [doWrite EXCEPT ![c] = Testing]
                  /\ replied' = replied \cup {q} /\ UNCHANGED unreplied
  <2>1. doWrite' \in [Threads -> Int] /\ send_length' \in [Conns -> Int]
    BY <1>10 DEF Testing
  <2>2. \A e \in Executors : doWrite'[e] = doWrite[e]
    BY <1>7, <1>8, <1>10
  <2>3. PlaceType'
    <3>1. replied' \subseteq Dispatched /\ unreplied' \subseteq Dispatched
      BY <1>3, <1>10
    <3> QED BY <1>1, <1>3, <1>10, <2>1, <2>2, <3>1
  <2>4. \A r \in Dispatched : \A e \in Executors : HeldBy(e, r)' <=> HeldBy(e, r)
    BY <1>1, <2>2 DEF HeldBy
  <2>5. Alone'
    <3>1. replied' \cap unreplied' = {}
      BY <1>5, <1>10 DEF Alone, Through
    <3> QED BY <1>3, <1>10, <2>4, <3>1 DEF Alone
  <2>6. \A r \in Dispatched : (Held(r)' <=> Held(r)) /\ (Queued(r)' <=> Queued(r))
    BY <1>10, <2>4 DEF Held, Queued
  <2>7. Through(q)' /\ \A r \in Dispatched \ {q} : Through(r)' <=> Through(r)
    BY <1>10 DEF Through
  <2>8. OnePlace(q)'
    BY <1>3, <1>4, <1>5, <2>6, <2>7 DEF OnePlace
  <2> QED BY <1>1, <1>3, <1>6, <2>3, <2>5, <2>6, <2>7, <2>8, PlaceMove
<1> QED BY <1>2, <1>9, <1>10 DEF handle_RPC, async_send_message

-----------------------------------------------------------------------------
(* FrameInv: a step of connection c.                                       *)
LEMMA FrameStep ==
    ASSUME FrameInv, NEW c \in Conns, FrameType', ConnInv(c)',
           \A d \in Conns \ {c} :
               /\ open'[d] = open[d] /\ sent'[d] = sent[d] /\ net'[d] = net[d]
               /\ conn_stat_'[d] = conn_stat_[d]
               /\ recv_buffer'[d] = recv_buffer[d] /\ recv_header'[d] = recv_header[d]
               /\ reading'[d] = reading[d] /\ pc'[d] = pc[d] /\ dispatched'[d] = dispatched[d]
    PROVE  FrameInv'
<1> SUFFICES ASSUME NEW d \in Conns \ {c} PROVE ConnInv(d)'
  BY DEF FrameInv
<1>1. /\ open'[d] = open[d] /\ sent'[d] = sent[d] /\ net'[d] = net[d]
      /\ conn_stat_'[d] = conn_stat_[d]
      /\ recv_buffer'[d] = recv_buffer[d] /\ recv_header'[d] = recv_header[d]
      /\ reading'[d] = reading[d] /\ pc'[d] = pc[d] /\ dispatched'[d] = dispatched[d]
  OBVIOUS
<1>2. /\ InBody(d)' = InBody(d) /\ Reads(d)' = Reads(d) /\ Sizes(d)' = Sizes(d)
      /\ HeaderLength(d)' = HeaderLength(d) /\ \A n : Units(d, n)' = Units(d, n)
  BY <1>1 DEF InBody, Reads, Sizes, HeaderLength, KindOf, Units
<1>3. Rest(d)' = Rest(d)
  BY <1>1, <1>2 DEF Rest, Taken
<1>4. Fresh(d)' = Fresh(d)
  BY <1>1, <1>2 DEF Fresh
<1>5. InStep(d)' = InStep(d)
  BY <1>1, <1>2, <1>3 DEF InStep
<1> QED BY <1>1, <1>2, <1>4, <1>5 DEF FrameInv, ConnInv

(* What the definitions amount to on a connection that reads.              *)
LEMMA StreamType ==
    ASSUME FrameInv, NEW c \in Conns
    PROVE  /\ Sizes(c) \in Seq(Nat \ {0}) /\ Len(Sizes(c)) = Len(sent[c])
           /\ \A n \in 1 .. Len(sent[c]) :
                 /\ Sizes(c)[n] = HeaderSize + BodyLength[sent[c][n]]
                 /\ sent[c][n] \in Kinds /\ BodyLength[sent[c][n]] \in Nat
           /\ Taken(c) \in Seq(Unit) /\ Rest(c) \in Seq(Unit)
           /\ Len(dispatched[c]) \in Nat
           /\ Len(Rest(c)) = Len(Taken(c)) + Len(recv_buffer[c]) + Len(net[c])
<1> USE DEF FrameInv, ConnInv
<1>1. ASSUME NEW n \in 1 .. Len(sent[c])
      PROVE  sent[c][n] \in Kinds /\ BodyLength[sent[c][n]] \in Nat
  BY SizesAssumption
<1>2. \A n \in 1 .. Len(sent[c]) : HeaderSize + BodyLength[sent[c][n]] \in Nat \ {0}
  BY <1>1, SizesAssumption
<1>3. Len(sent[c]) \in Nat
  OBVIOUS
<1>4. Sizes(c) \in Seq(Nat \ {0}) /\ Len(Sizes(c)) = Len(sent[c])
  BY <1>2, <1>3 DEF Sizes
<1>5. Taken(c) \in Seq(Unit)
  <2>1. <<>> \in Seq(Unit)
    OBVIOUS
  <2> QED BY <2>1 DEF Taken
<1>6. /\ Rest(c) \in Seq(Unit)
      /\ Len(Rest(c)) = Len(Taken(c)) + Len(recv_buffer[c]) + Len(net[c])
  <2>1. PICK t \in Seq(Unit) : t = Join(Taken(c), recv_buffer[c])
    BY <1>5, Joining
  <2>2. Len(t) = Len(Taken(c)) + Len(recv_buffer[c])
    BY <1>5, <2>1, Joining
  <2>3. Rest(c) = Join(t, net[c])
    BY <2>1 DEF Rest
  <2>4. Join(t, net[c]) \in Seq(Unit) /\ Len(Join(t, net[c])) = Len(t) + Len(net[c])
    BY Joining
  <2> QED BY <2>2, <2>3, <2>4
<1> QED BY <1>1, <1>4, <1>5, <1>6 DEF Sizes

(* A step that changes neither the stream nor what was dispatched.         *)
LEMMA FrameMoves ==
    ASSUME FrameInv, NEW c \in Conns, FrameType', Reads(c), Rest(c)' = Rest(c),
           UNCHANGED <<open, sent, dispatched>>,
           \A d \in Conns \ {c} :
               /\ net'[d] = net[d] /\ conn_stat_'[d] = conn_stat_[d]
               /\ recv_buffer'[d] = recv_buffer[d] /\ recv_header'[d] = recv_header[d]
               /\ reading'[d] = reading[d] /\ pc'[d] = pc[d],
           net'[c] \in Seq(Unit), recv_buffer'[c] \in Seq(Unit), recv_header'[c] \in Seq(Unit),
           conn_stat_'[c] = conn_stat_[c] \/ conn_stat_'[c] = "closed",
           reading'[c] \in {"none", "read_handler", "read_msg_handler"},
           pc'[c] # "idle" => reading'[c] = "none",
           InBody(c)' => Len(recv_header'[c]) = HeaderSize,
           pc'[c] = "parse_header" => Len(recv_buffer'[c]) >= HeaderSize,
           reading'[c] = "read_handler" => Len(recv_buffer'[c]) < HeaderSize,
           reading'[c] = "read_msg_handler" => Len(recv_buffer'[c]) < HeaderLength(c)'
    PROVE  FrameInv'
<1> USE DEF FrameInv, ConnInv
<1>1. conn_stat_[c] # "pending"
  BY DEF Fresh
<1>2. Sizes(c)' = Sizes(c) /\ \A n : Units(c, n)' = Units(c, n)
  BY DEF Sizes, Units
<1>3. InStep(c)
  OBVIOUS
<1>4. InStep(c)'
  BY <1>2, <1>3 DEF InStep
<1>5. ConnInv(c)'
  BY <1>1, <1>2, <1>4
<1> QED BY <1>5, FrameStep

(* A strand that reads no more.                                            *)
LEMMA FrameEnds ==
    ASSUME FrameInv, NEW c \in Conns, FrameType', Reads(c), ~Reads(c)',
           UNCHANGED <<open, sent, net, dispatched>>,
           \A d \in Conns \ {c} :
               /\ conn_stat_'[d] = conn_stat_[d]
               /\ recv_buffer'[d] = recv_buffer[d] /\ recv_header'[d] = recv_header[d]
               /\ reading'[d] = reading[d] /\ pc'[d] = pc[d],
           recv_buffer'[c] \in Seq(Unit), recv_header'[c] \in Seq(Unit),
           conn_stat_'[c] = conn_stat_[c] \/ conn_stat_'[c] = "closed"
    PROVE  FrameInv'
<1> USE DEF FrameInv, ConnInv
<1>1. conn_stat_[c] # "pending"
  BY DEF Fresh
<1>2. \A n : Units(c, n)' = Units(c, n)
  BY DEF Units
<1>3. reading'[c] = "none" /\ pc'[c] = "idle"
  BY DEF Reads
<1>4. ConnInv(c)'
  BY <1>1, <1>2, <1>3
<1> QED BY <1>4, FrameStep

(* A sequence cut in two.                                                  *)
LEMMA Cut ==
    ASSUME NEW b \in Seq(Unit), NEW k \in 0 .. Len(b)
    PROVE  /\ SubSeq(b, 1, k) \in Seq(Unit) /\ Len(SubSeq(b, 1, k)) = k
           /\ SubSeq(b, k + 1, Len(b)) \in Seq(Unit)
           /\ Len(SubSeq(b, k + 1, Len(b))) = Len(b) - k
           /\ \A i \in 1 .. k : SubSeq(b, 1, k)[i] = b[i]
           /\ \A i \in 1 .. Len(b) - k : SubSeq(b, k + 1, Len(b))[i] = b[k + i]
           /\ Join(SubSeq(b, 1, k), SubSeq(b, k + 1, Len(b))) = b
<1>1. Len(b) \in Nat /\ \A i \in 1 .. Len(b) : b[i] \in Unit
  OBVIOUS
<1>2. /\ SubSeq(b, 1, k) \in Seq(Unit) /\ Len(SubSeq(b, 1, k)) = k
      /\ \A i \in 1 .. k : SubSeq(b, 1, k)[i] = b[i]
  <2>1. \A i \in 1 .. k : b[i] \in Unit
    BY <1>1
  <2>2. /\ SubSeq(b, 1, k) \in Seq(Unit)
        /\ Len(SubSeq(b, 1, k)) = IF 1 <= k THEN k - 1 + 1 ELSE 0
        /\ \A i \in 1 .. k - 1 + 1 : SubSeq(b, 1, k)[i] = b[1 + i - 1]
    BY <2>1, SubSeqProperties
  <2> QED BY <1>1, <2>2
<1>3. /\ SubSeq(b, k + 1, Len(b)) \in Seq(Unit)
      /\ Len(SubSeq(b, k + 1, Len(b))) = Len(b) - k
      /\ \A i \in 1 .. Len(b) - k : SubSeq(b, k + 1, Len(b))[i] = b[k + i]
  <2>1. \A i \in k + 1 .. Len(b) : b[i] \in Unit
    BY <1>1
  <2>2. /\ SubSeq(b, k + 1, Len(b)) \in Seq(Unit)
        /\ Len(SubSeq(b, k + 1, Len(b))) = IF k + 1 <= Len(b) THEN Len(b) - (k + 1) + 1 ELSE 0
        /\ \A i \in 1 .. Len(b) - (k + 1) + 1 : SubSeq(b, k + 1, Len(b))[i] = b[k + 1 + i - 1]
    BY <1>1, <2>1, SubSeqProperties
  <2> QED BY <1>1, <2>2
<1>4. Join(SubSeq(b, 1, k), SubSeq(b, k + 1, Len(b))) = b
  <2>1. 1 \in 1 .. Len(b) + 1 /\ k \in 1 - 1 .. Len(b) /\ Len(b) \in k .. Len(b)
    BY <1>1
  <2> QED BY <2>1, ConcatAdjacentSubSeq, SubSeqFull DEF Join
<1> QED BY <1>2, <1>3, <1>4

(* A block goes from the net to the buffer.                                *)
LEMMA Shift ==
    ASSUME NEW t \in Seq(Unit), NEW b \in Seq(Unit), NEW n \in Seq(Unit), NEW k \in 0 .. Len(n)
    PROVE  Join(Join(t, Join(b, SubSeq(n, 1, k))), SubSeq(n, k + 1, Len(n))) = Join(Join(t, b), n)
<1>1. PICK x : x = SubSeq(n, 1, k)
  OBVIOUS
<1>2. PICK y : y = SubSeq(n, k + 1, Len(n))
  OBVIOUS
<1>3. x \in Seq(Unit) /\ y \in Seq(Unit) /\ Join(x, y) = n
  BY <1>1, <1>2, Cut, Zenon
<1>4. Join(t, b) \in Seq(Unit)
  BY Joining, Zenon
<1>5. Join(Join(t, b), x) = Join(t, Join(b, x))
  BY <1>3, JoinAssociative
<1>6. Join(Join(Join(t, b), x), y) = Join(Join(t, b), Join(x, y))
  BY <1>3, <1>4, JoinAssociative
<1> QED BY <1>1, <1>2, <1>3, <1>5, <1>6, Zenon

(* In the body of a message, the header is that of the message after those *)
(* that were dispatched.                                                   *)
LEMMA HeaderKnown ==
    ASSUME FrameInv, NEW c \in Conns, InBody(c)
    PROVE  /\ Len(recv_header[c]) = HeaderSize /\ Len(Rest(c)) > 0
           /\ recv_header[c][1][1] = Len(dispatched[c]) + 1
           /\ Len(dispatched[c]) + 1 \in 1 .. Len(sent[c])
           /\ HeaderLength(c) = BodyLength[sent[c][Len(dispatched[c]) + 1]]
           /\ HeaderLength(c) \in Nat
           /\ Sizes(c)[Len(dispatched[c]) + 1] = HeaderSize + HeaderLength(c)
<1> USE DEF FrameInv, ConnInv
<1>1. Reads(c)
  BY DEF InBody, Reads
<1>2. InStep(c)
  BY <1>1
<1>3. Taken(c) = recv_header[c] /\ Len(recv_header[c]) = HeaderSize
  BY <1>2 DEF InStep, Taken
<1>4. HeaderSize \in Nat \ {0}
  BY SizesAssumption
<1>5. PICK b \in Seq(Unit) : b = Join(recv_buffer[c], net[c])
  BY Joining
<1>6. Rest(c) = Join(recv_header[c], b)
  BY <1>3, <1>5, JoinAssociative DEF Rest
<1>7. Rest(c)[1] = recv_header[c][1] /\ Len(Rest(c)) > 0
  <2>1. PICK a \in Seq(Unit) : a = recv_header[c]
    OBVIOUS
  <2>2. Len(a) \in Nat \ {0} /\ Len(b) \in Nat
    BY <1>3, <1>4, <2>1
  <2>3. /\ Len(Join(a, b)) = Len(a) + Len(b)
        /\ \A i \in 1 .. Len(a) + Len(b) : Join(a, b)[i] = IF i <= Len(a) THEN a[i] ELSE b[i - Len(a)]
    BY Joining
  <2>4. 1 \in 1 .. Len(a) + Len(b) /\ 1 <= Len(a) /\ Len(a) + Len(b) > 0
    BY <2>2
  <2> QED BY <1>6, <2>1, <2>3, <2>4
<1>8. /\ Sizes(c) \in Seq(Nat \ {0}) /\ Rest(c) \in Seq(Unit) /\ Len(dispatched[c]) \in Nat
      /\ Len(Sizes(c)) = Len(sent[c])
      /\ \A n \in 1 .. Len(sent[c]) : /\ Sizes(c)[n] = HeaderSize + BodyLength[sent[c][n]]
                                      /\ BodyLength[sent[c][n]] \in Nat
  BY StreamType
<1>9. Chain(Rest(c), Sizes(c), Len(dispatched[c]))
  BY <1>2 DEF InStep
<1>10. /\ Len(dispatched[c]) + 1 \in 1 .. Len(Sizes(c))
       /\ Rest(c)[1] = <<Len(dispatched[c]) + 1, 1>>
  BY ONLY <1>7, <1>8, <1>9, ChainFirst
<1>11. recv_header[c][1][1] = Len(dispatched[c]) + 1
  BY <1>7, <1>10
<1> QED BY <1>3, <1>7, <1>8, <1>10, <1>11 DEF HeaderLength, KindOf

LEMMA FrameSend ==
    ASSUME FrameInv, NEW c \in Conns, NEW kind \in Kinds, ClientSend(c, kind)
    PROVE  FrameInv'
<1> USE DEF FrameInv, FrameType, ConnInv
<1>1. PICK l \in Nat \ {0} : l = HeaderSize + BodyLength[kind]
  BY SizesAssumption
<1>2. PICK new : new = [k \in 1 .. l |-> <<Len(sent[c]) + 1, k>>]
  OBVIOUS
<1>3. /\ open[c] /\ UNCHANGED <<open, conn_stat_, recv_buffer, recv_header, reading, pc, dispatched>>
      /\ sent' = [sent EXCEPT ![c] = Append(@, kind)]
      /\ net' = [net EXCEPT ![c] = Join(@, new)]
  BY <1>1, <1>2 DEF ClientSend, Join, connVars, recvVars
<1>4. /\ new \in Seq(Unit) /\ Len(new) = l
      /\ \A k \in 1 .. l : new[k] = <<Len(sent[c]) + 1, k>>
  <2>1. Len(sent[c]) + 1 \in Nat
    OBVIOUS
  <2>2. \A k \in 1 .. l : <<Len(sent[c]) + 1, k>> \in Unit
    BY <2>1 DEF Unit
  <2> QED BY ONLY <1>2, <2>2, l \in Nat
<1>5. /\ sent'[c] = Append(sent[c], kind) /\ net'[c] = Join(net[c], new)
      /\ \A d \in Conns \ {c} : sent'[d] = sent[d] /\ net'[d] = net[d]
      /\ DOMAIN sent' = Conns /\ DOMAIN net' = Conns
  BY <1>3
<1>6. /\ sent'[c] \in Seq(Kinds) /\ Len(sent'[c]) = Len(sent[c]) + 1
      /\ \A n \in 1 .. Len(sent[c]) : sent'[c][n] = sent[c][n]
      /\ sent'[c][Len(sent[c]) + 1] = kind
      /\ Len(sent[c]) \in Nat
  BY <1>5, AppendProperties
<1>7. net'[c] \in Seq(Unit)
  BY <1>4, <1>5, Joining
<1>8. conn_stat_'[c] # "pending"
  BY <1>3 DEF Fresh
<1>9. /\ Sizes(c) \in Seq(Nat \ {0}) /\ Len(Sizes(c)) = Len(sent[c])
      /\ \A n \in 1 .. Len(sent[c]) : Sizes(c)[n] = HeaderSize + BodyLength[sent[c][n]]
      /\ Taken(c) \in Seq(Unit) /\ Rest(c) \in Seq(Unit) /\ Len(dispatched[c]) \in Nat
  BY StreamType
<1>10. Sizes(c)' = Append(Sizes(c), l)
  <2>1. /\ Append(Sizes(c), l) \in Seq(Nat \ {0})
        /\ Len(Append(Sizes(c), l)) = Len(sent[c]) + 1
        /\ \A n \in 1 .. Len(sent[c]) : Append(Sizes(c), l)[n] = HeaderSize + BodyLength[sent[c][n]]
        /\ Append(Sizes(c), l)[Len(sent[c]) + 1] = l
    <3>1. PICK z \in Seq(Nat \ {0}) : z = Sizes(c)
      BY <1>9
    <3>2. /\ Append(z, l) \in Seq(Nat \ {0}) /\ Len(Append(z, l)) = Len(z) + 1
          /\ \A n \in 1 .. Len(z) : Append(z, l)[n] = z[n]
          /\ Append(z, l)[Len(z) + 1] = l
      BY AppendProperties
    <3> QED BY <1>9, <3>1, <3>2
  <2>2. \A n \in 1 .. Len(sent[c]) + 1 : HeaderSize + BodyLength[sent'[c][n]] = Append(Sizes(c), l)[n]
    <3>1. PICK k \in Nat : k = Len(sent[c])
      BY <1>6
    <3>2. \A n \in 1 .. k + 1 : n \in 1 .. k \/ n = k + 1
      BY ONLY k \in Nat
    <3>3. \A n \in 1 .. k : HeaderSize + BodyLength[sent'[c][n]] = Append(Sizes(c), l)[n]
      BY <1>6, <2>1, <3>1
    <3>4. HeaderSize + BodyLength[sent'[c][k + 1]] = Append(Sizes(c), l)[k + 1]
      BY <1>1, <1>6, <2>1, <3>1
    <3> QED BY ONLY <3>1, <3>2, <3>3, <3>4
  <2>3. Sizes(c)' = [n \in 1 .. Len(sent[c]) + 1 |-> HeaderSize + BodyLength[sent'[c][n]]]
    BY <1>6 DEF Sizes
  <2>4. Sizes(c)' = [n \in 1 .. Len(sent[c]) + 1 |-> Append(Sizes(c), l)[n]]
    BY <2>2, <2>3
  <2>5. PICK z \in Seq(Nat \ {0}) : z = Append(Sizes(c), l)
    BY <2>1
  <2>6. z = [n \in 1 .. Len(z) |-> z[n]]
    OBVIOUS
  <2> QED BY <2>1, <2>4, <2>5, <2>6
<1>11. Rest(c)' = Join(Rest(c), new)
  <2>1. Taken(c)' = Taken(c)
    BY <1>3 DEF Taken, InBody
  <2>2. Join(Taken(c), recv_buffer[c]) \in Seq(Unit)
    BY <1>9, Joining, Zenon
  <2>3. Rest(c)' = Join(Join(Taken(c), recv_buffer[c]), Join(net[c], new))
    BY <1>3, <1>5, <2>1 DEF Rest
  <2> QED BY <1>4, <2>2, <2>3, JoinAssociative DEF Rest
<1>12. /\ Rest(c)' \in Seq(Unit) /\ Len(Rest(c)') = Len(Rest(c)) + l
       /\ \A i \in 1 .. Len(Rest(c)) : Rest(c)'[i] = Rest(c)[i]
       /\ \A k \in 1 .. l : Rest(c)'[Len(Rest(c)) + k] = <<Len(Sizes(c)) + 1, k>>
  <2>1. PICK a \in Seq(Unit) : a = Rest(c)
    BY <1>9
  <2>2. /\ Join(a, new) \in Seq(Unit) /\ Len(Join(a, new)) = Len(a) + l
        /\ \A i \in 1 .. Len(a) + l : Join(a, new)[i] = IF i <= Len(a) THEN a[i] ELSE new[i - Len(a)]
    BY ONLY <1>4, a \in Seq(Unit), Joining
  <2>3. Len(a) \in Nat
    OBVIOUS
  <2>4. \A i \in 1 .. Len(a) : i \in 1 .. Len(a) + l /\ i <= Len(a)
    BY <2>3
  <2>5. \A k \in 1 .. l : /\ Len(a) + k \in 1 .. Len(a) + l /\ ~(Len(a) + k <= Len(a))
                          /\ (Len(a) + k) - Len(a) = k
    BY <2>3
  <2>6. \A k \in 1 .. l : Join(a, new)[Len(a) + k] = <<Len(sent[c]) + 1, k>>
    BY ONLY <1>4, <2>2, <2>5
  <2> QED BY <1>9, <1>11, <2>1, <2>2, <2>4, <2>6
<1>13. Reads(c)' = Reads(c) /\ InBody(c)' = InBody(c)
  BY <1>3 DEF Reads, InBody
<1>14. ASSUME Reads(c) PROVE InStep(c)'
  <2>1. InStep(c)
    BY <1>14
  <2>2. Chain(Rest(c), Sizes(c), Len(dispatched[c])) /\ Whole(Rest(c), Sizes(c), Len(dispatched[c]))
    BY <1>3, <2>1 DEF InStep
  <2>3. /\ Chain(Rest(c)', Append(Sizes(c), l), Len(dispatched[c]))
        /\ Whole(Rest(c)', Append(Sizes(c), l), Len(dispatched[c]))
    BY <1>9, <1>12, <2>2, ChainAppend
  <2>4. Chain(Rest(c), Sizes(c), Len(dispatched[c]))' /\ Whole(Rest(c), Sizes(c), Len(dispatched[c]))'
    BY <1>3, <1>10, <2>3
  <2>5. InBody(c) => HeaderLength(c)' = HeaderLength(c)
    <3> SUFFICES ASSUME InBody(c) PROVE HeaderLength(c)' = HeaderLength(c)
      OBVIOUS
    <3>1. PICK n \in 1 .. Len(sent[c]) : n = recv_header[c][1][1]
      BY HeaderKnown
    <3>2. sent'[c][n] = sent[c][n] /\ recv_header' = recv_header
      BY <1>3, <1>6
    <3> QED BY ONLY <3>1, <3>2 DEF HeaderLength, KindOf
  <2>6. reading[c] = "read_msg_handler" => InBody(c)
    BY DEF InBody
  <2> QED BY <1>3, <1>13, <2>1, <2>4, <2>5, <2>6 DEF InStep
<1>15. \A n \in DOMAIN dispatched[c] : Units(c, n)' = Units(c, n)
  <2>1. \A n \in DOMAIN dispatched[c] : n \in 1 .. Len(sent[c])
    BY <1>6
  <2> QED BY <1>6, <2>1 DEF Units
<1>16. ConnInv(c)'
  BY <1>3, <1>6, <1>7, <1>8, <1>13, <1>14, <1>15
<1>17. FrameType'
  BY <1>3, <1>5
<1> QED BY <1>3, <1>5, <1>16, <1>17, FrameStep

LEMMA FrameClose ==
    ASSUME FrameInv, NEW c \in Conns, ClientClose(c)
    PROVE  FrameInv'
<1> USE DEF FrameInv, FrameType, ConnInv
<1>1. /\ open[c] /\ open' = [open EXCEPT ![c] = FALSE]
      /\ UNCHANGED <<sent, conn_stat_, recv_buffer, recv_header, reading, pc, dispatched>>
  BY DEF ClientClose, connVars, recvVars
<1>2. PICK k \in 0 .. Len(net[c]) : net' = [net EXCEPT ![c] = SubSeq(@, 1, k)]
  BY DEF ClientClose
<1>3. PICK n \in Seq(Unit) : n = net[c]
  OBVIOUS
<1>4. PICK m : m = SubSeq(n, 1, k)
  OBVIOUS
<1>5. m \in Seq(Unit) /\ Len(m) = k /\ \A i \in 1 .. k : m[i] = n[i]
  BY <1>3, <1>4, Cut
<1>6. net'[c] = m /\ ~open'[c] /\ DOMAIN net' = Conns /\ DOMAIN open' = Conns
  BY <1>1, <1>2, <1>3, <1>4
<1>7. \A d \in Conns \ {c} : open'[d] = open[d] /\ net'[d] = net[d]
  BY <1>1, <1>2
<1>8. /\ Sizes(c) \in Seq(Nat \ {0}) /\ Len(dispatched[c]) \in Nat
      /\ Taken(c) \in Seq(Unit) /\ Rest(c) \in Seq(Unit)
  BY StreamType
<1>9. PICK t \in Seq(Unit) : t = Join(Taken(c), recv_buffer[c])
  BY <1>8, Joining
<1>10. Rest(c) = Join(t, n) /\ Rest(c)' = Join(t, m)
  BY <1>1, <1>3, <1>6, <1>9 DEF Rest, Taken, InBody
<1>11. /\ Join(t, m) \in Seq(Unit) /\ Len(Join(t, m)) <= Len(Join(t, n))
       /\ \A i \in 1 .. Len(Join(t, m)) : Join(t, m)[i] = Join(t, n)[i]
  <2>1. PICK x \in Nat, y \in Nat : x = Len(t) /\ y = Len(n)
    OBVIOUS
  <2>2. k <= y /\ k \in Nat
    BY <1>3, <2>1
  <2>3. Join(t, m) \in Seq(Unit) /\ Len(Join(t, m)) = Len(t) + Len(m)
    BY <1>5, Joining
  <2>4. Len(Join(t, n)) = Len(t) + Len(n)
    BY Joining
  <2>5. /\ \A i \in 1 .. Len(t) : Join(t, m)[i] = t[i]
        /\ \A i \in 1 .. Len(m) : Join(t, m)[i + Len(t)] = m[i]
    BY <1>5, JoinParts
  <2>6. /\ \A i \in 1 .. Len(t) : Join(t, n)[i] = t[i]
        /\ \A i \in 1 .. Len(n) : Join(t, n)[i + Len(t)] = n[i]
    BY JoinParts
  <2>7. ASSUME NEW i \in 1 .. x + k PROVE Join(t, m)[i] = Join(t, n)[i]
    <3>1. CASE i <= x
      BY <2>1, <2>5, <2>6, <3>1
    <3>2. CASE i > x
      <4>1. PICK j \in 1 .. k : i = j + x
        <5>1. i - x \in 1 .. k /\ i = (i - x) + x
          BY <2>2, <3>2
        <5> QED BY <5>1
      <4>2. j \in 1 .. Len(m) /\ j \in 1 .. Len(n) /\ m[j] = n[j]
        BY <1>5, <2>1, <2>2
      <4> QED BY <2>1, <2>5, <2>6, <4>1, <4>2
    <3> QED BY <2>2, <3>1, <3>2
  <2>8. Len(Join(t, m)) = x + k /\ Len(Join(t, n)) = x + y
    BY <1>5, <2>1, <2>3, <2>4
  <2> QED BY <2>2, <2>3, <2>7, <2>8
<1>12. Reads(c)' = Reads(c) /\ InBody(c)' = InBody(c) /\ Sizes(c)' = Sizes(c)
       /\ HeaderLength(c)' = HeaderLength(c)
  BY <1>1 DEF Reads, InBody, Sizes, HeaderLength, KindOf
<1>13. ASSUME Reads(c) PROVE InStep(c)'
  <2>1. InStep(c)
    BY <1>13
  <2>2. Chain(Join(t, n), Sizes(c), Len(dispatched[c]))
    BY <1>10, <2>1 DEF InStep
  <2>3. Join(t, n) \in Seq(Unit)
    BY <1>8, <1>10
  <2>4. Chain(Join(t, m), Sizes(c), Len(dispatched[c]))
    BY <1>8, <1>11, <2>2, <2>3, ChainPrefix
  <2>5. Chain(Rest(c), Sizes(c), Len(dispatched[c]))'
    BY <1>1, <1>10, <1>12, <2>4
  <2> QED BY <1>1, <1>6, <1>12, <2>1, <2>5 DEF InStep
<1>14. conn_stat_'[c] # "pending"
  BY <1>1 DEF Fresh
<1>15. \A j : Units(c, j)' = Units(c, j)
  BY <1>1 DEF Units
<1>16. ConnInv(c)'
  BY <1>1, <1>5, <1>6, <1>12, <1>13, <1>14, <1>15
<1> QED BY <1>1, <1>6, <1>7, <1>16, FrameStep

LEMMA FrameAccept ==
    ASSUME FrameInv, NEW c \in Conns, Accept(c)
    PROVE  FrameInv'
<1> USE DEF FrameInv, FrameType, ConnInv
<1>1. /\ UNCHANGED <<sent, net, recv_buffer, recv_header, reading, dispatched>>
      /\ conn_stat_[c] = "pending"
      /\ open' = [open EXCEPT ![c] = TRUE] /\ pc' = [pc EXCEPT ![c] = "do_read"]
      /\ conn_stat_' = [conn_stat_ EXCEPT ![c] = "working"]
  BY DEF Accept, GoTo
<1>2. Fresh(c)
  BY <1>1
<1>3. FrameType' /\ open'[c] = TRUE /\ pc'[c] = "do_read" /\ conn_stat_'[c] = "working"
  BY <1>1
<1>4. reading'[c] = "none"
  BY <1>1, <1>2 DEF Fresh, Reads
<1>5. ~InBody(c)'
  BY <1>3, <1>4 DEF InBody
<1>6. /\ Len(sent[c]) = 0 /\ Len(net[c]) = 0 /\ Len(recv_buffer[c]) = 0 /\ Len(dispatched[c]) = 0
  BY <1>2 DEF Fresh
<1>7. Len(Rest(c)') = 0 /\ Len(Sizes(c)') = 0
  <2>1. Taken(c)' = <<>>
    BY <1>5 DEF Taken
  <2>2. <<>> \in Seq(Unit) /\ Len(<<>>) = 0
    OBVIOUS
  <2>3. PICK t \in Seq(Unit) : t = Join(<<>>, recv_buffer[c])
    BY <2>2, Joining
  <2>4. Len(t) = 0
    BY <1>6, <2>2, <2>3, Joining
  <2>5. Len(Join(t, net[c])) = 0
    BY <1>6, <2>4, Joining
  <2>6. Rest(c)' = Join(t, net[c])
    BY <1>1, <2>1, <2>3 DEF Rest
  <2>7. Sizes(c)' = [n \in 1 .. 0 |-> HeaderSize + BodyLength[sent[c][n]]]
    BY <1>1, <1>6 DEF Sizes
  <2> QED BY <2>5, <2>6, <2>7
<1>8. Chain(Rest(c), Sizes(c), Len(dispatched[c]))' /\ Whole(Rest(c), Sizes(c), Len(dispatched[c]))'
  BY <1>1, <1>6, <1>7 DEF Chain, Whole
<1>9. InStep(c)'
  BY <1>3, <1>4, <1>5, <1>8 DEF InStep
<1>10. \A j : Units(c, j)' = Units(c, j)
  BY <1>1 DEF Units
<1>11. ConnInv(c)'
  BY <1>1, <1>3, <1>4, <1>9, <1>10
<1>12. \A d \in Conns \ {c} : open'[d] = open[d] /\ conn_stat_'[d] = conn_stat_[d] /\ pc'[d] = pc[d]
  BY <1>1
<1> QED BY <1>1, <1>3, <1>11, <1>12, FrameStep

(* The connection is closed, and nothing else happens to its stream.       *)
LEMMA FrameCloses ==
    ASSUME FrameInv, NEW c \in Conns,
           UNCHANGED <<open, sent, net, recv_buffer, recv_header, reading, pc, dispatched>>,
           UNCHANGED conn_stat_ \/ conn_stat_' = [conn_stat_ EXCEPT ![c] = "closed"]
    PROVE  FrameInv'
<1> USE DEF FrameInv, FrameType, ConnInv
<1>1. \A d \in Conns : conn_stat_'[d] = conn_stat_[d] \/ conn_stat_'[d] = "closed"
  OBVIOUS
<1>2. FrameType'
  OBVIOUS
<1> SUFFICES ASSUME NEW d \in Conns PROVE ConnInv(d)'
  BY <1>2
<1>3. /\ Reads(d)' = Reads(d) /\ Fresh(d)' = Fresh(d) /\ \A j : Units(d, j)' = Units(d, j)
  BY DEF Reads, Fresh, Units
<1>4. InStep(d)' = InStep(d)
  BY DEF InStep, Rest, Taken, InBody, Sizes, HeaderLength, KindOf
<1> QED BY <1>1, <1>3, <1>4

-----------------------------------------------------------------------------
(* The read handlers.                                                      *)
LEMMA FrameDoRead ==
    ASSUME FrameInv, NEW c \in Conns, do_read(c) \/ do_read_msg(c)
    PROVE  FrameInv'
<1> USE DEF FrameInv, FrameType, ConnInv
<1>1. /\ UNCHANGED <<open, sent, net, conn_stat_, recv_buffer, recv_header, dispatched>>
      /\ pc[c] \in {"do_read", "do_read_msg"}
  BY DEF do_read, do_read_msg, StrandAt, clientVars, connVars
<1>2. reading[c] = "none" /\ Reads(c)
  BY <1>1 DEF Reads
<1>3. CASE pc' = [pc EXCEPT ![c] = "idle"] /\ UNCHANGED reading
  <2>1. FrameType' /\ ~Reads(c)' /\ \A d \in Conns \ {c} : pc'[d] = pc[d]
    BY <1>1, <1>2, <1>3 DEF Reads
  <2> QED BY <1>1, <1>2, <1>3, <2>1, FrameEnds
<1>4. ASSUME NEW h \in {"none", "read_handler", "read_msg_handler"}, NEW p,
             FrameType', pc'[c] = p, reading'[c] = h,
             \A d \in Conns \ {c} : pc'[d] = pc[d] /\ reading'[d] = reading[d],
             p # "idle" => h = "none",
             (p \in {"do_read_msg", "parse_msg_body"} \/ h = "read_msg_handler")
                 <=> pc[c] = "do_read_msg",
             p = "parse_header" => Len(recv_buffer[c]) >= HeaderSize,
             h = "read_handler" => Len(recv_buffer[c]) < HeaderSize,
             h = "read_msg_handler" => Len(recv_buffer[c]) < HeaderLength(c)
      PROVE  FrameInv'
  <2>1. InBody(c)' = InBody(c) /\ HeaderLength(c)' = HeaderLength(c)
    BY <1>1, <1>2, <1>4 DEF InBody, HeaderLength, KindOf
  <2>2. Rest(c)' = Rest(c)
    BY <1>1, <2>1 DEF Rest, Taken
  <2>3. InBody(c) => Len(recv_header[c]) = HeaderSize
    BY <1>2 DEF InStep
  <2> QED BY <1>1, <1>2, <1>4, <2>1, <2>2, <2>3, FrameMoves
<1>5. CASE do_read(c)
  <2>1. pc[c] = "do_read"
    BY <1>5 DEF do_read, StrandAt
  <2>2. CASE /\ reading' = [reading EXCEPT ![c] = "read_handler"]
             /\ pc' = [pc EXCEPT ![c] = "idle"] /\ Len(recv_buffer[c]) < HeaderSize
    <3>1. /\ FrameType' /\ pc'[c] = "idle" /\ reading'[c] = "read_handler"
          /\ \A d \in Conns \ {c} : pc'[d] = pc[d] /\ reading'[d] = reading[d]
      BY <1>1, <2>2
    <3> QED BY <1>4, <2>1, <2>2, <3>1
  <2>3. CASE /\ UNCHANGED reading
             /\ pc' = [pc EXCEPT ![c] = "parse_header"] /\ ~(Len(recv_buffer[c]) < HeaderSize)
    <3>1. /\ FrameType' /\ pc'[c] = "parse_header" /\ reading'[c] = "none"
          /\ \A d \in Conns \ {c} : pc'[d] = pc[d] /\ reading'[d] = reading[d]
      BY <1>1, <1>2, <2>3
    <3>2. Len(recv_buffer[c]) >= HeaderSize
      BY <2>3, SizesAssumption
    <3> QED BY <1>4, <2>1, <3>1, <3>2
  <2> QED BY <1>3, <1>5, <2>2, <2>3 DEF do_read, AsyncRead, GoTo
<1>6. CASE do_read_msg(c)
  <2>1. pc[c] = "do_read_msg"
    BY <1>6 DEF do_read_msg, StrandAt
  <2>2. CASE /\ reading' = [reading EXCEPT ![c] = "read_msg_handler"]
             /\ pc' = [pc EXCEPT ![c] = "idle"] /\ Len(recv_buffer[c]) < HeaderLength(c)
    <3>1. /\ FrameType' /\ pc'[c] = "idle" /\ reading'[c] = "read_msg_handler"
          /\ \A d \in Conns \ {c} : pc'[d] = pc[d] /\ reading'[d] = reading[d]
      BY <1>1, <2>2
    <3> QED BY <1>4, <2>1, <2>2, <3>1
  <2>3. CASE UNCHANGED reading /\ pc' = [pc EXCEPT ![c] = "parse_msg_body"]
    <3>1. /\ FrameType' /\ pc'[c] = "parse_msg_body" /\ reading'[c] = "none"
          /\ \A d \in Conns \ {c} : pc'[d] = pc[d] /\ reading'[d] = reading[d]
      BY <1>1, <1>2, <2>3
    <3> QED BY <1>4, <2>1, <3>1
  <2> QED BY <1>3, <1>6, <2>2, <2>3 DEF do_read_msg, AsyncRead, GoTo
<1> QED BY <1>5, <1>6

LEMMA FrameHeader ==
    ASSUME FrameInv, NEW c \in Conns, parse_header(c)
    PROVE  FrameInv'
<1> USE DEF FrameInv, FrameType, ConnInv
<1>1. /\ UNCHANGED <<open, sent, net, reading, dispatched>> /\ pc[c] = "parse_header"
      /\ recv_header' = [recv_header EXCEPT ![c] = SubSeq(recv_buffer[c], 1, HeaderSize)]
      /\ recv_buffer' = [recv_buffer EXCEPT ![c] = SubSeq(@, HeaderSize + 1, Len(@))]
  BY DEF parse_header, StrandAt, clientVars, Consume
<1>2. \/ pc' = [pc EXCEPT ![c] = "do_read_msg"] /\ UNCHANGED conn_stat_
      \/ pc' = [pc EXCEPT ![c] = "idle"] /\ conn_stat_' = [conn_stat_ EXCEPT ![c] = "closed"]
  BY DEF parse_header, GoTo, sock_shutdown_and_close
<1>3. reading[c] = "none" /\ Reads(c) /\ ~InBody(c)
  BY <1>1 DEF Reads, InBody
<1>4. PICK b \in Seq(Unit) : b = recv_buffer[c]
  OBVIOUS
<1>5. HeaderSize \in 0 .. Len(b)
  BY <1>1, <1>3, <1>4, SizesAssumption DEF InStep
<1>6. PICK x : x = SubSeq(b, 1, HeaderSize)
  OBVIOUS
<1>7. PICK y : y = SubSeq(b, HeaderSize + 1, Len(b))
  OBVIOUS
<1>8. x \in Seq(Unit) /\ y \in Seq(Unit) /\ Len(x) = HeaderSize /\ Join(x, y) = b
  BY <1>5, <1>6, <1>7, Cut
<1>9. /\ recv_header'[c] = x /\ recv_buffer'[c] = y
      /\ \A d \in Conns \ {c} : recv_header'[d] = recv_header[d] /\ recv_buffer'[d] = recv_buffer[d]
  BY <1>1, <1>4, <1>6, <1>7
<1>10. /\ FrameType'
       /\ \A d \in Conns \ {c} : pc'[d] = pc[d] /\ conn_stat_'[d] = conn_stat_[d]
       /\ conn_stat_'[c] = conn_stat_[c] \/ conn_stat_'[c] = "closed"
  BY <1>1, <1>2
<1>11. \A d \in Conns \ {c} :
          /\ net'[d] = net[d] /\ conn_stat_'[d] = conn_stat_[d]
          /\ recv_buffer'[d] = recv_buffer[d] /\ recv_header'[d] = recv_header[d]
          /\ reading'[d] = reading[d] /\ pc'[d] = pc[d]
  BY <1>1, <1>9, <1>10
<1>12. /\ UNCHANGED <<open, sent, net, dispatched>> /\ FrameType'
       /\ recv_buffer'[c] \in Seq(Unit) /\ recv_header'[c] \in Seq(Unit)
       /\ conn_stat_'[c] = conn_stat_[c] \/ conn_stat_'[c] = "closed"
  <2>1. recv_buffer'[c] \in Seq(Unit) /\ recv_header'[c] \in Seq(Unit)
    BY ONLY <1>8, <1>9
  <2> QED BY ONLY <1>1, <1>10, <2>1
<1>13. CASE pc' = [pc EXCEPT ![c] = "idle"]
  <2>1. ~Reads(c)'
    BY <1>1, <1>3, <1>13 DEF Reads
  <2> QED BY <1>3, <1>11, <1>12, <2>1, FrameEnds
<1>14. CASE pc' = [pc EXCEPT ![c] = "do_read_msg"]
  <2>1. pc'[c] = "do_read_msg" /\ reading'[c] = "none"
    BY <1>1, <1>3, <1>14
  <2>2. Taken(c)' = x /\ Taken(c) = <<>>
    BY <1>3, <1>9, <2>1 DEF Taken, InBody
  <2>3. Join(<<>>, b) = b
    BY ConcatEmptySeq DEF Join
  <2>4. Rest(c)' = Rest(c)
    BY <1>1, <1>4, <1>8, <1>9, <2>2, <2>3 DEF Rest
  <2>5. Len(recv_header'[c]) = HeaderSize
    BY <1>8, <1>9
  <2>6. net'[c] \in Seq(Unit)
    BY <1>1
  <2> QED BY <1>3, <1>11, <1>12, <2>1, <2>4, <2>5, <2>6, FrameMoves
<1> QED BY <1>2, <1>13, <1>14

(* The steps that leave the stream where it is.                            *)
LEMMA FrameStays ==
    ASSUME FrameInv, NEW c \in Conns, NEW p,
           UNCHANGED <<open, sent, net, conn_stat_, recv_buffer, recv_header, reading, dispatched>>,
           pc' = [pc EXCEPT ![c] = p], pc[c] # "idle", p \notin {"idle", "parse_header"},
           pc[c] \in {"do_read_msg", "parse_msg_body"} <=> p \in {"do_read_msg", "parse_msg_body"}
    PROVE  FrameInv'
<1> USE DEF FrameInv, FrameType, ConnInv
<1>1. /\ FrameType' /\ pc'[c] = p /\ reading'[c] = "none"
      /\ \A d \in Conns \ {c} : pc'[d] = pc[d]
  OBVIOUS
<1>2. Reads(c) /\ InBody(c)' = InBody(c)
  BY <1>1 DEF Reads, InBody
<1>3. Rest(c)' = Rest(c)
  BY <1>2 DEF Rest, Taken
<1>4. InBody(c) => Len(recv_header[c]) = HeaderSize
  BY <1>2 DEF InStep
<1> QED BY <1>1, <1>2, <1>3, <1>4, FrameMoves

(* A stream that begins with as many units as its first message has.       *)
LEMMA NextMessage ==
    ASSUME NEW s \in Seq(Unit), NEW r \in Seq(Unit), NEW message \in Seq(Unit),
           NEW sz \in Seq(Nat \ {0}), NEW d \in Nat,
           s = Join(message, r), Len(message) = sz[d + 1], Chain(s, sz, d), Len(s) > 0
    PROVE  /\ \A k \in 1 .. Len(message) : message[k] = <<d + 1, k>>
           /\ Chain(r, sz, d + 1) /\ (Whole(s, sz, d) => Whole(r, sz, d + 1))
<1>1. PICK m \in Nat : m = Len(message)
  OBVIOUS
<1>2. /\ \A i \in 1 .. m : s[i] = message[i]
      /\ \A i \in 1 .. Len(r) : s[i + m] = r[i]
  BY <1>1, JoinParts
<1>3. Len(s) = m + Len(r) /\ Len(r) \in Nat
  <2>1. Len(Join(message, r)) = Len(message) + Len(r)
    BY Joining
  <2> QED BY <1>1, <2>1
<1>4. m <= Len(s) /\ Len(r) = Len(s) - m /\ \A k \in 1 .. m : k <= Len(s)
  BY <1>3
<1>5. \A k \in 1 .. sz[d + 1] : k <= Len(s) => s[k] = <<d + 1, k>>
  BY ChainFirst
<1>6. \A k \in 1 .. m : message[k] = <<d + 1, k>>
  BY <1>1, <1>2, <1>4, <1>5
<1>7. sz[d + 1] <= Len(s) /\ Len(r) = Len(s) - sz[d + 1]
  BY <1>1, <1>4
<1>8. \A i \in 1 .. Len(r) : r[i] = s[i + sz[d + 1]]
  BY <1>1, <1>2
<1>9. Chain(r, sz, d + 1) /\ (Whole(s, sz, d) => Whole(r, sz, d + 1))
  BY <1>7, <1>8, ChainRest
<1> QED BY <1>1, <1>6, <1>9

(* parse_msg_body has all of the message: it is the next one.              *)
LEMMA FrameDispatch ==
    ASSUME FrameInv, NEW c \in Conns, pc[c] = "parse_msg_body",
           ~(Len(recv_buffer[c]) < HeaderLength(c)),
           UNCHANGED <<open, sent, net, conn_stat_, recv_header, reading>>,
           recv_buffer' = [recv_buffer EXCEPT ![c] = Consume(@, HeaderLength(c))],
           dispatched' = [dispatched EXCEPT ![c] =
                  Append(@, recv_header[c] \o SubSeq(recv_buffer[c], 1, HeaderLength(c)))],
           pc' = [pc EXCEPT ![c] = "handle_RPC"]
    PROVE  FrameInv'
<1> USE DEF FrameInv, FrameType, ConnInv
<1>1. InBody(c) /\ Reads(c) /\ reading[c] = "none"
  BY DEF InBody, Reads
<1>2. InStep(c)
  BY <1>1
<1>3. PICK d \in Nat : d = Len(dispatched[c])
  OBVIOUS
<1>4. PICK size \in Nat : size = HeaderLength(c)
  BY <1>1, HeaderKnown
<1>5. PICK sz \in Seq(Nat \ {0}) : sz = Sizes(c)
  BY StreamType
<1>6. /\ Len(recv_header[c]) = HeaderSize /\ d + 1 \in 1 .. Len(sent[c])
      /\ size = BodyLength[sent[c][d + 1]] /\ sz[d + 1] = HeaderSize + size
      /\ HeaderSize \in Nat
  BY <1>1, <1>3, <1>4, <1>5, HeaderKnown, SizesAssumption
<1>7. PICK b \in Seq(Unit), n \in Seq(Unit), h \in Seq(Unit) :
          b = recv_buffer[c] /\ n = net[c] /\ h = recv_header[c]
  OBVIOUS
<1>8. size \in 0 .. Len(b)
  BY <1>4, <1>7
<1>9. PICK x : x = SubSeq(b, 1, size)
  OBVIOUS
<1>10. PICK y : y = SubSeq(b, size + 1, Len(b))
  OBVIOUS
<1>11. x \in Seq(Unit) /\ y \in Seq(Unit) /\ Len(x) = size /\ Join(x, y) = b
  BY <1>8, <1>9, <1>10, Cut
<1>12. PICK message \in Seq(Unit) : message = Join(h, x)
  BY <1>11, Joining
<1>13. Len(message) = HeaderSize + size
  <2>1. Len(Join(h, x)) = Len(h) + Len(x)
    BY ONLY <1>11, h \in Seq(Unit), Joining
  <2> QED BY <1>6, <1>7, <1>11, <1>12, <2>1
<1>14. PICK r \in Seq(Unit) : r = Join(y, n)
  BY <1>11, Joining
<1>15. Rest(c) = Join(message, r)
  <2>1. Rest(c) = Join(Join(h, b), n)
    BY <1>1, <1>7 DEF Rest, Taken
  <2>2. Join(h, Join(x, y)) = Join(message, y)
    BY <1>11, <1>12, JoinAssociative
  <2>3. Join(Join(message, y), n) = Join(message, Join(y, n))
    BY <1>11, JoinAssociative
  <2> QED BY <1>11, <1>14, <2>1, <2>2, <2>3
<1>16. /\ recv_buffer'[c] = y /\ dispatched'[c] = Append(dispatched[c], message)
       /\ pc'[c] = "handle_RPC" /\ reading'[c] = "none"
       /\ \A e \in Conns \ {c} : /\ recv_buffer'[e] = recv_buffer[e] /\ pc'[e] = pc[e]
                                 /\ dispatched'[e] = dispatched[e]
       /\ FrameType'
  BY <1>1, <1>4, <1>7, <1>9, <1>10, <1>12 DEF Consume, Join
<1>17. ~InBody(c)' /\ Reads(c)'
  BY <1>16 DEF InBody, Reads
<1>18. Rest(c)' = r
  <2>1. Join(<<>>, y) = y
    BY <1>11, ConcatEmptySeq DEF Join
  <2>2. Taken(c)' = <<>>
    BY <1>17 DEF Taken
  <2> QED BY <1>7, <1>14, <1>16, <2>1, <2>2 DEF Rest
<1>19. PICK s \in Seq(Unit) : s = Rest(c)
  BY StreamType
<1>20. s = Join(message, r) /\ Len(s) > 0
  BY <1>1, <1>15, <1>19, HeaderKnown
<1>21. Chain(s, sz, d) /\ (open[c] => Whole(s, sz, d))
  BY <1>2, <1>3, <1>5, <1>19 DEF InStep
<1>22. Len(message) = sz[d + 1]
  BY <1>6, <1>13
<1>23. /\ \A k \in 1 .. Len(message) : message[k] = <<d + 1, k>>
       /\ Chain(r, sz, d + 1) /\ (Whole(s, sz, d) => Whole(r, sz, d + 1))
  <2> HIDE DEF FrameInv, FrameType, ConnInv
  <2>1. s = Join(message, r) /\ Len(message) = sz[d + 1] /\ Chain(s, sz, d) /\ Len(s) > 0
    BY <1>20, <1>21, <1>22
  <2>2. /\ s \in Seq(Unit) /\ r \in Seq(Unit) /\ message \in Seq(Unit)
        /\ sz \in Seq(Nat \ {0}) /\ d \in Nat
    BY <1>3, <1>5, <1>12, <1>14, <1>19
  <2> QED BY ONLY <2>1, <2>2, NextMessage, SMTT(30)
<1>24. /\ dispatched'[c] \in Seq(Seq(Unit)) /\ Len(dispatched'[c]) = d + 1
       /\ DOMAIN dispatched'[c] = 1 .. (d + 1) /\ DOMAIN dispatched[c] = 1 .. d
       /\ \A k \in 1 .. d : dispatched'[c][k] = dispatched[c][k]
       /\ dispatched'[c][d + 1] = message
  <2>1. PICK D \in Seq(Seq(Unit)) : D = dispatched[c]
    OBVIOUS
  <2>2. PICK E : E = Append(D, message)
    OBVIOUS
  <2>3. /\ E \in Seq(Seq(Unit)) /\ Len(E) = Len(D) + 1 /\ E[Len(D) + 1] = message
        /\ \A k \in 1 .. Len(D) : E[k] = D[k]
    BY <2>2, AppendProperties
  <2>4. DOMAIN E = 1 .. Len(E) /\ DOMAIN D = 1 .. Len(D) /\ Len(D) = d
    BY <1>3, <2>1, <2>3
  <2>5. dispatched'[c] = E /\ Len(E) = d + 1
    BY <1>16, <2>1, <2>2, <2>3, <2>4
  <2> QED BY <2>1, <2>3, <2>4, <2>5
<1>25. message = Units(c, d + 1)
  <2>1. Units(c, d + 1) = [k \in 1 .. HeaderSize + size |-> <<d + 1, k>>]
    BY <1>6 DEF Units
  <2>2. message = [k \in 1 .. Len(message) |-> message[k]]
    OBVIOUS
  <2>3. message = [k \in 1 .. HeaderSize + size |-> message[k]]
    BY <1>13, <2>2
  <2> QED BY <1>13, <1>23, <2>1, <2>3
<1>26. \A k \in DOMAIN dispatched'[c] : dispatched'[c][k] = Units(c, k)'
  <2>1. \A k : Units(c, k)' = Units(c, k)
    BY DEF Units
  <2>2. ASSUME NEW k \in 1 .. (d + 1) PROVE dispatched'[c][k] = Units(c, k)
    <3>1. CASE k \in 1 .. d
      <4>1. dispatched[c][k] = Units(c, k)
        BY <1>24, <3>1
      <4> QED BY <1>24, <3>1, <4>1
    <3>2. CASE k = d + 1
      BY <1>24, <1>25, <3>2
    <3>3. k \in 1 .. d \/ k = d + 1
      OBVIOUS
    <3> QED BY <3>1, <3>2, <3>3
  <2>3. DOMAIN dispatched'[c] = 1 .. (d + 1)
    BY <1>24
  <2> QED BY <2>1, <2>2, <2>3
<1>27. InStep(c)'
  <2>1. Sizes(c)' = sz
    BY <1>5 DEF Sizes
  <2>2. Chain(Rest(c), Sizes(c), Len(dispatched[c]))'
    BY <1>18, <1>23, <1>24, <2>1
  <2>3. open'[c] => Whole(Rest(c), Sizes(c), Len(dispatched[c]))'
    BY <1>18, <1>21, <1>23, <1>24, <2>1
  <2> QED BY <1>16, <1>17, <2>2, <2>3 DEF InStep
<1>28. conn_stat_'[c] # "pending"
  BY <1>1 DEF Fresh
<1>29. Len(dispatched'[c]) <= Len(sent'[c])
  BY <1>6, <1>24
<1>30. ConnInv(c)'
  BY <1>11, <1>16, <1>24, <1>26, <1>27, <1>28, <1>29
<1> QED BY <1>16, <1>30, FrameStep

LEMMA FrameReads ==
    ASSUME FrameInv, NEW c \in Conns, ReadCompletes(c)
    PROVE  FrameInv'
<1> USE DEF FrameInv, FrameType, ConnInv
<1>1. /\ UNCHANGED <<open, sent, conn_stat_, recv_header, dispatched>>
      /\ pc[c] = "idle" /\ reading[c] # "none"
      /\ pc' = [pc EXCEPT ![c] = IF reading[c] = "read_handler" THEN "parse_header"
                                 ELSE "parse_msg_body"]
      /\ reading' = [reading EXCEPT ![c] = "none"]
  BY DEF ReadCompletes, StrandFree, GoTo, connVars
<1>2. PICK k \in Need(c) .. MinOf(IoBlock, Len(net[c])) :
          /\ recv_buffer' = [recv_buffer EXCEPT ![c] = @ \o SubSeq(net[c], 1, k)]
          /\ net' = [net EXCEPT ![c] = SubSeq(@, k + 1, Len(@))]
  BY DEF ReadCompletes
<1>3. PICK b \in Seq(Unit), n \in Seq(Unit) : b = recv_buffer[c] /\ n = net[c]
  OBVIOUS
<1>4. Reads(c) /\ InStep(c)
  BY <1>1 DEF Reads
<1>5. Need(c) \in Nat /\ (reading[c] = "read_handler" => Need(c) = HeaderSize - Len(b))
  <2>1. CASE reading[c] = "read_handler"
    <3>1. Len(b) < HeaderSize /\ Len(b) \in Nat /\ HeaderSize \in Nat
      BY <1>3, <1>4, <2>1, SizesAssumption DEF InStep
    <3> QED BY <1>3, <2>1, <3>1 DEF Need
  <2>2. CASE reading[c] = "read_msg_handler"
    <3>1. InBody(c)
      BY <2>2 DEF InBody
    <3>2. PICK size \in Nat : size = HeaderLength(c)
      BY <3>1, HeaderKnown
    <3>3. Len(b) < size /\ Len(b) \in Nat /\ IoBlock \in Nat
      BY <1>3, <1>4, <2>2, <3>2, SizesAssumption DEF InStep
    <3>4. Need(c) = MinOf(size - Len(b), IoBlock)
      BY <1>3, <2>2, <3>2 DEF Need
    <3> QED BY <2>2, <3>3, <3>4 DEF MinOf
  <2> QED BY <1>1, <2>1, <2>2
<1>6. k \in 0 .. Len(n) /\ k >= Need(c)
  BY <1>3, <1>5, SizesAssumption DEF MinOf
<1>7. PICK x : x = SubSeq(n, 1, k)
  OBVIOUS
<1>8. PICK y : y = SubSeq(n, k + 1, Len(n))
  OBVIOUS
<1>9. x \in Seq(Unit) /\ y \in Seq(Unit) /\ Len(x) = k
  BY <1>6, <1>7, <1>8, Cut
<1>10. PICK bx \in Seq(Unit) : bx = Join(b, x)
  BY <1>9, Joining
<1>11. Len(bx) = Len(b) + k
  BY <1>9, <1>10, Joining
<1>12. /\ recv_buffer'[c] = bx /\ net'[c] = y /\ reading'[c] = "none"
       /\ \A d \in Conns \ {c} : /\ recv_buffer'[d] = recv_buffer[d] /\ net'[d] = net[d]
                                 /\ reading'[d] = reading[d] /\ pc'[d] = pc[d]
       /\ FrameType'
  BY <1>1, <1>2, <1>3, <1>7, <1>8, <1>10 DEF Join
<1>13. pc'[c] = IF reading[c] = "read_handler" THEN "parse_header" ELSE "parse_msg_body"
  BY <1>1
<1>14. InBody(c)' = InBody(c)
  BY <1>1, <1>12, <1>13 DEF InBody
<1>15. Rest(c)' = Rest(c)
  <2>1. PICK t \in Seq(Unit) : t = Taken(c)
    BY StreamType
  <2>2. Taken(c)' = t
    BY <1>1, <1>14, <2>1 DEF Taken
  <2>3. Rest(c) = Join(Join(t, b), n) /\ Rest(c)' = Join(Join(t, bx), y)
    BY <1>3, <1>12, <2>1, <2>2 DEF Rest
  <2>4. Join(Join(t, Join(b, x)), y) = Join(Join(t, b), n)
    BY <1>6, <1>7, <1>8, Shift
  <2> QED BY <1>10, <2>3, <2>4
<1>16. InBody(c)' => Len(recv_header'[c]) = HeaderSize
  BY <1>1, <1>4, <1>14 DEF InStep
<1>17. pc'[c] = "parse_header" => Len(recv_buffer'[c]) >= HeaderSize
  <2>1. CASE reading[c] = "read_handler"
    <3>1. Len(b) \in Nat /\ HeaderSize \in Nat /\ k >= HeaderSize - Len(b) /\ k \in Int
      BY <1>5, <1>6, <2>1, SizesAssumption
    <3>2. Len(b) + k >= HeaderSize
      BY <3>1
    <3> QED BY <1>11, <1>12, <3>2
  <2>2. CASE reading[c] # "read_handler"
    BY <1>13, <2>2
  <2> QED BY <2>1, <2>2
<1>18. pc'[c] # "idle"
  BY <1>13
<1> QED BY <1>1, <1>4, <1>9, <1>12, <1>15, <1>16, <1>17, <1>18, FrameMoves

LEMMA FrameReader ==
    ASSUME FrameInv, NEW c \in Conns, Reader(c)
    PROVE  FrameInv'
<1>1. CASE parse_msg_body(c)
  <2>1. UNCHANGED <<open, sent, net, conn_stat_, recv_header, reading>> /\ pc[c] = "parse_msg_body"
    BY <1>1 DEF parse_msg_body, StrandAt, clientVars, connVars
  <2>2. CASE Len(recv_buffer[c]) < HeaderLength(c)
    <3>1. UNCHANGED <<recv_buffer, dispatched>> /\ pc' = [pc EXCEPT ![c] = "do_read_msg"]
      BY <1>1, <2>2 DEF parse_msg_body, GoTo
    <3>2. /\ "do_read_msg" \notin {"idle", "parse_header"} /\ pc[c] # "idle"
          /\ pc[c] \in {"do_read_msg", "parse_msg_body"}
                <=> "do_read_msg" \in {"do_read_msg", "parse_msg_body"}
      BY <2>1
    <3>3. UNCHANGED <<open, sent, net, conn_stat_, recv_buffer, recv_header, reading, dispatched>>
      BY <2>1, <3>1
    <3> QED BY <3>1, <3>2, <3>3, FrameStays
  <2>3. CASE ~(Len(recv_buffer[c]) < HeaderLength(c))
    <3>1. /\ recv_buffer' = [recv_buffer EXCEPT ![c] = Consume(@, HeaderLength(c))]
          /\ dispatched' = [dispatched EXCEPT ![c] =
                 Append(@, recv_header[c] \o SubSeq(recv_buffer[c], 1, HeaderLength(c)))]
          /\ pc' = [pc EXCEPT ![c] = "handle_RPC"]
      BY <1>1, <2>3 DEF parse_msg_body, GoTo
    <3> QED BY <2>1, <2>3, <3>1, FrameDispatch
  <2> QED BY <2>2, <2>3
<1>2. CASE handle_RPC(c)
  <2>1. /\ UNCHANGED <<open, sent, net, conn_stat_, recv_buffer, recv_header, reading, dispatched>>
        /\ pc[c] = "handle_RPC" /\ pc' = [pc EXCEPT ![c] = "do_read"]
    BY <1>2 DEF handle_RPC, StrandAt, AfterMessage, GoTo, clientVars, connVars
  <2>2. /\ "do_read" \notin {"idle", "parse_header"} /\ pc[c] # "idle"
        /\ pc[c] \in {"do_read_msg", "parse_msg_body"}
              <=> "do_read" \in {"do_read_msg", "parse_msg_body"}
    BY <2>1
  <2> QED BY <2>1, <2>2, FrameStays
<1>3. CASE ReadFails(c)
  <2> USE DEF FrameInv, FrameType
  <2>1. /\ UNCHANGED <<open, sent, net, recv_buffer, recv_header, pc, dispatched>>
        /\ pc[c] = "idle" /\ reading[c] # "none" /\ reading' = [reading EXCEPT ![c] = "none"]
    BY <1>3 DEF ReadFails, ReadEnds, StrandFree, clientVars
  <2>2. conn_stat_' = conn_stat_ \/ conn_stat_' = [conn_stat_ EXCEPT ![c] = "closed"]
    BY <1>3 DEF ReadFails, handle_socket_ec, CancelAndClose, sock_shutdown_and_close, connVars
  <2>3. Reads(c) /\ ~Reads(c)'
    BY <2>1 DEF Reads
  <2>4. /\ FrameType' /\ (conn_stat_'[c] = conn_stat_[c] \/ conn_stat_'[c] = "closed")
        /\ \A d \in Conns \ {c} :
               /\ conn_stat_'[d] = conn_stat_[d]
               /\ recv_buffer'[d] = recv_buffer[d] /\ recv_header'[d] = recv_header[d]
               /\ reading'[d] = reading[d] /\ pc'[d] = pc[d]
    BY <2>1, <2>2
  <2>5. recv_buffer'[c] \in Seq(Unit) /\ recv_header'[c] \in Seq(Unit)
    BY <2>1 DEF ConnInv
  <2> QED BY <2>1, <2>3, <2>4, <2>5, FrameEnds
<1> QED BY <1>1, <1>2, <1>3, FrameDoRead, FrameHeader, FrameReads DEF Reader

LEMMA FrameNext == FrameInv /\ [Next]_vars => FrameInv'
<1> SUFFICES ASSUME FrameInv, [Next]_vars PROVE FrameInv'
  OBVIOUS
<1>1. ASSUME UNCHANGED <<open, sent, net, conn_stat_, recvVars>> PROVE FrameInv'
  <2>1. CASE Conns = {}
    BY <1>1, <2>1 DEF recvVars, FrameInv, FrameType
  <2>2. CASE Conns # {}
    <3>1. PICK c \in Conns : TRUE
      BY <2>2
    <3>2. UNCHANGED <<open, sent, net, recv_buffer, recv_header, reading, pc, dispatched>>
      BY <1>1 DEF recvVars
    <3> QED BY <1>1, <3>1, <3>2, FrameCloses
  <2> QED BY <2>1, <2>2
<1>2. CASE UNCHANGED vars
  BY <1>1, <1>2 DEF vars, clientVars, connVars
<1>3. ASSUME NEW c \in Conns, Client(c) \/ Accept(c) \/ Timer(c) \/ Reader(c) \/ Writer(c)
      PROVE  FrameInv'
  <2>1. CASE Client(c)
    BY <2>1, FrameSend, FrameClose DEF Client
  <2>2. CASE Accept(c)
    BY <2>2, FrameAccept
  <2>3. CASE Reader(c)
    BY <2>3, FrameReader
  <2>4. CASE TimerExpires(c) \/ WriteCompletes(c)
    BY <1>1, <2>4 DEF TimerExpires, WriteCompletes, clientVars, connVars
  <2>5. CASE ops_cancel_timeout_call(c)
    BY <2>5, FrameCloses DEF ops_cancel_timeout_call, CancelAndClose, sock_shutdown_and_close,
                             clientVars, recvVars
  <2>6. CASE WriteFails(c)
    <3>1. UNCHANGED <<open, sent, net, recv_buffer, recv_header, reading, pc, dispatched>>
      BY <2>6 DEF WriteFails, clientVars, recvVars
    <3>2. UNCHANGED conn_stat_ \/ conn_stat_' = [conn_stat_ EXCEPT ![c] = "closed"]
      BY <2>6 DEF WriteFails, handle_socket_ec, CancelAndClose, sock_shutdown_and_close, connVars
    <3> QED BY <3>1, <3>2, FrameCloses
  <2> QED BY <1>3, <2>1, <2>2, <2>3, <2>4, <2>5, <2>6 DEF Timer, Writer
<1>4. ASSUME NEW e \in Executors, Executor(e) PROVE FrameInv'
  BY <1>1, <1>4 DEF Executor, ExecutorPop, reject, write_ops_impl, read_ops_impl,
                    read_ops_impl_Fails, Reply, clientVars, connVars
<1>5. ASSUME NEW t \in Threads, DoWrite(t) PROVE FrameInv'
  BY <1>1, <1>5 DEF DoWrite, DoWriteTest, DoWriteStart, clientVars, connVars
<1> QED BY <1>2, <1>3, <1>4, <1>5 DEF Next

LEMMA FrameInit == Init => FrameInv
<1> SUFFICES ASSUME Init PROVE FrameInv
  OBVIOUS
<1>1. FrameType
  BY DEF Init, FrameType
<1> SUFFICES ASSUME NEW c \in Conns PROVE ConnInv(c)
  BY <1>1 DEF FrameInv
<1>2. /\ open[c] = FALSE /\ sent[c] = <<>> /\ net[c] = <<>> /\ recv_buffer[c] = <<>>
      /\ recv_header[c] = <<>> /\ reading[c] = "none" /\ pc[c] = "idle" /\ dispatched[c] = <<>>
  BY DEF Init
<1>3. ~Reads(c)
  BY <1>2 DEF Reads
<1>4. /\ <<>> \in Seq(Unit) /\ <<>> \in Seq(Kinds) /\ <<>> \in Seq(Seq(Unit))
      /\ DOMAIN <<>> = {} /\ Len(<<>>) = 0
  OBVIOUS
<1>5. Fresh(c)
  BY <1>2, <1>3, <1>4 DEF Fresh
<1>6. /\ Len(dispatched[c]) <= Len(sent[c])
      /\ \A n \in DOMAIN dispatched[c] : dispatched[c][n] = Units(c, n)
  BY <1>2, <1>4
<1> QED BY <1>2, <1>3, <1>4, <1>5, <1>6 DEF ConnInv

(* However the stream of a client is cut into blocks and however the       *)
(* handlers of TcpConnAsync follow each other, each message that reaches   *)
(* Dispatcher::handle_RPC is the next request the client sent, whole.      *)
THEOREM MessagesAreFramed == Spec => []FramedInOrder
<1>1. FrameInv => FramedInOrder
  BY DEF FrameInv, ConnInv, FramedInOrder
<1> QED BY <1>1, FrameInit, FrameNext, PTL DEF Spec

-----------------------------------------------------------------------------
LEMMA PlaceBody ==
    ASSUME PlaceInv, FrameInv, NEW c \in Conns, parse_msg_body(c)
    PROVE  PlaceInv'
<1>1. pc[c] = "parse_msg_body" /\ UNCHANGED <<send_length, doWrite, execVars>>
  BY DEF parse_msg_body, StrandAt, sendVars
<1>2. CASE Len(recv_buffer[c]) < HeaderLength(c)
  <2>1. UNCHANGED dispatched /\ pc' = [pc EXCEPT ![c] = "do_read_msg"]
    BY <1>2 DEF parse_msg_body, GoTo
  <2>2. /\ DOMAIN pc' = Conns
        /\ \A d \in Conns : pc'[d] = "handle_RPC" <=> pc[d] = "handle_RPC"
    BY <1>1, <2>1 DEF PlaceInv, PlaceType
  <2>3. \A e \in Executors : \A r \in Dispatched : HeldBy(e, r)' <=> HeldBy(e, r)
    BY <1>1 DEF HeldBy, execVars
  <2> QED BY <1>1, <2>1, <2>2, <2>3, PlaceQuiet DEF PlaceInv, PlaceType, execVars
<1>3. CASE ~(Len(recv_buffer[c]) < HeaderLength(c))
  <2>1. /\ dispatched' = [dispatched EXCEPT ![c] =
                Append(@, recv_header[c] \o SubSeq(recv_buffer[c], 1, HeaderLength(c)))]
        /\ pc' = [pc EXCEPT ![c] = "handle_RPC"]
    BY <1>3 DEF parse_msg_body, GoTo
  <2>2. InBody(c)
    BY <1>1 DEF InBody
  <2>3. PICK size \in Nat : size = HeaderLength(c)
    BY <2>2, HeaderKnown
  <2>4. PICK b \in Seq(Unit), h \in Seq(Unit) : b = recv_buffer[c] /\ h = recv_header[c]
    BY DEF FrameInv, ConnInv
  <2>5. size \in 0 .. Len(b)
    BY <1>3, <2>3, <2>4
  <2>6. SubSeq(b, 1, size) \in Seq(Unit)
    BY ONLY <2>4, <2>5, Cut
  <2>7. Join(h, SubSeq(b, 1, size)) \in Seq(Unit)
    BY ONLY <2>4, <2>6, Joining
  <2>8. PICK message \in Seq(Unit) :
            message = recv_header[c] \o SubSeq(recv_buffer[c], 1, HeaderLength(c))
    BY <2>3, <2>4, <2>7 DEF Join
  <2>9. dispatched' = [dispatched EXCEPT ![c] = Append(@, message)]
    BY <2>1, <2>8
  <2>10. UNCHANGED <<rpc_queue_, exec, doWrite, send_length, replied, unreplied>>
    BY <1>1 DEF execVars
  <2> QED BY <1>1, <2>1, <2>8, <2>9, <2>10, PlaceDispatch
<1> QED BY <1>2, <1>3

LEMMA PlaceReader ==
    ASSUME PlaceInv, FrameInv, NEW c \in Conns, Reader(c)
    PROVE  PlaceInv'
<1>1. CASE do_read(c) \/ parse_header(c) \/ do_read_msg(c) \/ ReadCompletes(c) \/ ReadFails(c)
  <2>1. UNCHANGED <<dispatched, send_length, doWrite, execVars>>
    BY <1>1 DEF do_read, parse_header, do_read_msg, ReadCompletes, ReadFails, sendVars
  <2>2. pc[c] # "handle_RPC"
    BY <1>1 DEF do_read, parse_header, do_read_msg, ReadCompletes, ReadFails, StrandAt, StrandFree
  <2>3. /\ DOMAIN pc' = Conns /\ pc'[c] # "handle_RPC"
        /\ \A d \in Conns \ {c} : pc'[d] = pc[d]
    <3> USE DEF PlaceInv, PlaceType
    <3>1. CASE ReadFails(c)
      BY <2>2, <3>1 DEF ReadFails
    <3>2. CASE ReadCompletes(c)
      BY <3>2 DEF ReadCompletes, GoTo
    <3>3. CASE do_read(c) \/ parse_header(c) \/ do_read_msg(c)
      BY <3>3 DEF do_read, parse_header, do_read_msg, AsyncRead, GoTo
    <3> QED BY <1>1, <3>1, <3>2, <3>3
  <2>4. \A d \in Conns : pc'[d] = "handle_RPC" <=> pc[d] = "handle_RPC"
    BY <2>2, <2>3
  <2>5. \A e \in Executors : \A r \in Dispatched : HeldBy(e, r)' <=> HeldBy(e, r)
    BY <2>1 DEF HeldBy, execVars
  <2> QED BY <2>1, <2>3, <2>4, <2>5, PlaceQuiet DEF PlaceInv, PlaceType, execVars
<1> QED BY <1>1, PlaceBody, PlaceHandle DEF Reader

LEMMA PlaceNext == PlaceInv /\ FrameInv /\ [Next]_vars => PlaceInv'
<1> SUFFICES ASSUME PlaceInv, FrameInv, [Next]_vars PROVE PlaceInv'
  OBVIOUS
<1>1. ASSUME UNCHANGED <<dispatched, send_length, doWrite, execVars>>, DOMAIN pc' = Conns,
             \A d \in Conns : pc'[d] = "handle_RPC" <=> pc[d] = "handle_RPC"
      PROVE  PlaceInv'
  <2>1. \A e \in Executors : \A r \in Dispatched : HeldBy(e, r)' <=> HeldBy(e, r)
    BY <1>1 DEF HeldBy, execVars
  <2> QED BY <1>1, <2>1, PlaceQuiet DEF PlaceInv, PlaceType, execVars
<1>2. CASE UNCHANGED vars
  BY <1>1, <1>2 DEF vars, recvVars, sendVars, PlaceInv, PlaceType
<1>3. ASSUME NEW c \in Conns, Client(c) \/ Accept(c) \/ Timer(c) \/ Reader(c) \/ Writer(c)
      PROVE  PlaceInv'
  <2>1. CASE Client(c) \/ Timer(c) \/ WriteFails(c)
    <3>1. UNCHANGED <<pc, dispatched, send_length, doWrite, execVars>>
      BY <2>1 DEF Client, ClientClose, ClientSend, Timer, TimerExpires, ops_cancel_timeout_call,
                  WriteFails, recvVars, sendVars
    <3> QED BY <1>1, <3>1 DEF PlaceInv, PlaceType
  <2>2. CASE Accept(c)
    <3>1. /\ UNCHANGED <<dispatched, send_length, doWrite, execVars>>
          /\ pc' = [pc EXCEPT ![c] = "do_read"] /\ conn_stat_[c] = "pending"
      BY <2>2 DEF Accept, GoTo, sendVars
    <3>2. pc[c] = "idle"
      BY <3>1 DEF FrameInv, ConnInv, Fresh, Reads
    <3> QED BY <1>1, <3>1, <3>2 DEF PlaceInv, PlaceType
  <2>3. CASE Reader(c)
    BY <2>3, PlaceReader
  <2>4. CASE WriteCompletes(c)
    <3>1. /\ UNCHANGED <<recvVars, send_length, execVars>>
          /\ doWrite' = [doWrite EXCEPT ![c] = Testing]
      BY <2>4 DEF WriteCompletes
    <3>2. /\ doWrite' \in [Threads -> Int]
          /\ \A e \in Executors : doWrite'[e] = doWrite[e]
      BY <3>1, Apart DEF PlaceInv, PlaceType, Testing
    <3>3. \A e \in Executors : \A r \in Dispatched : HeldBy(e, r)' <=> HeldBy(e, r)
      BY <3>1, <3>2 DEF HeldBy, execVars
    <3> QED BY <3>1, <3>2, <3>3, PlaceQuiet DEF PlaceInv, PlaceType, execVars, recvVars
  <2> QED BY <1>3, <2>1, <2>2, <2>3, <2>4 DEF Writer
<1>4. ASSUME NEW e \in Executors, Executor(e) PROVE PlaceInv'
  BY <1>4, PlaceExecutor
<1>5. ASSUME NEW t \in Threads, DoWrite(t) PROVE PlaceInv'
  BY <1>5, PlaceDoWrite
<1> QED BY <1>2, <1>3, <1>4, <1>5 DEF Next

LEMMA PlaceInit == Init => PlaceInv
<1> SUFFICES ASSUME Init PROVE PlaceInv
  OBVIOUS
<1>1. /\ <<>> \in Seq(Seq(Unit)) /\ <<>> \in Seq(Dispatched) /\ DOMAIN <<>> = {}
  OBVIOUS
<1>2. Dispatched = {}
  BY <1>1 DEF Init, Dispatched
<1>3. PlaceType
  <2>1. DOMAIN pc = Conns /\ dispatched \in [Conns -> Seq(Seq(Unit))]
    BY <1>1 DEF Init
  <2>2. rpc_queue_ \in Seq(Dispatched) /\ exec \in [Executors -> Dispatched \cup {NoRequest}]
    BY <1>1 DEF Init
  <2>3. doWrite \in [Threads -> Int] /\ send_length \in [Conns -> Int]
    BY DEF Init, NotWriting
  <2>4. \A e \in Executors : doWrite[e] = NotWriting
    BY Apart DEF Init
  <2>5. replied \subseteq Dispatched /\ unreplied \subseteq Dispatched
    BY DEF Init
  <2>6. \A c \in Conns : pc[c] # "handle_RPC"
    BY DEF Init
  <2> QED BY <2>1, <2>2, <2>3, <2>4, <2>5, <2>6 DEF PlaceType
<1>4. Alone
  BY <1>1, <1>2 DEF Init, Alone
<1> QED BY <1>2, <1>3, <1>4 DEF PlaceInv

(* A set whose members are all equal has one member, or none.              *)
LEMMA AtMostOne ==
    ASSUME NEW S, \A x, y \in S : x = y
    PROVE  Cardinality(S) = IF S = {} THEN 0 ELSE 1
<1>1. CASE S = {}
  BY <1>1, FS_EmptySet
<1>2. CASE S # {}
  <2>1. PICK x : x \in S
    BY <1>2
  <2>2. S = {x}
    BY <2>1
  <2> QED BY <1>2, <2>2, FS_Singleton
<1> QED BY <1>1, <1>2

(* Every message the Dispatcher got is in exactly one place, whatever the  *)
(* strands, the executors and the timers do: it is neither lost between    *)
(* the queue and an executor nor answered twice.                           *)
THEOREM RequestsAreNotLost == Spec => []EveryRequestOnce
<1>1. PlaceInv => EveryRequestOnce
  <2> SUFFICES ASSUME PlaceInv, NEW c \in Conns, NEW n \in DOMAIN dispatched[c]
               PROVE  EveryRequestOnce!(c)!(n)
    BY DEF EveryRequestOnce
  <2>1. PICK r : r = <<c, n>>
    OBVIOUS
  <2>2. r \in Dispatched /\ r[1] = c /\ r[2] = n
    <3>1. n \in Nat
      BY DEF PlaceInv, PlaceType
    <3> QED BY <2>1, <3>1 DEF Dispatched
  <2>3. PICK Q : Q = {i \in DOMAIN rpc_queue_ : rpc_queue_[i] = r}
    OBVIOUS
  <2>4. PICK H : H = {e \in Executors : exec[e] = r /\ doWrite[e] = NotWriting}
    OBVIOUS
  <2>5. Cardinality(Q) = IF Queued(r) THEN 1 ELSE 0
    <3>1. \A x, y \in Q : x = y
      BY <2>3 DEF PlaceInv, Alone
    <3>2. Cardinality(Q) = IF Q = {} THEN 0 ELSE 1
      BY ONLY <3>1, AtMostOne
    <3>3. Q = {} <=> ~Queued(r)
      BY <2>3 DEF Queued
    <3> QED BY <3>2, <3>3
  <2>6. Cardinality(H) = IF Held(r) THEN 1 ELSE 0
    <3>1. \A x, y \in H : x = y
      BY <2>2, <2>4 DEF PlaceInv, Alone, HeldBy
    <3>2. Cardinality(H) = IF H = {} THEN 0 ELSE 1
      BY ONLY <3>1, AtMostOne
    <3>3. H = {} <=> ~Held(r)
      BY <2>4 DEF Held, HeldBy
    <3> QED BY <3>2, <3>3
  <2>7. AtStrand(r) <=> pc[c] = "handle_RPC" /\ n = Len(dispatched[c])
    BY <2>2 DEF AtStrand
  <2>8. OnePlace(r) /\ replied \cap unreplied = {}
    BY <2>2 DEF PlaceInv, Alone
  <2>9. Cardinality(Q) + Cardinality(H)
            + (IF AtStrand(r) THEN 1 ELSE 0) + (IF Through(r) THEN 1 ELSE 0) = 1
    BY <2>5, <2>6, <2>8 DEF OnePlace
  <2> QED BY <2>1, <2>3, <2>4, <2>7, <2>8, <2>9 DEF Through
<1> QED BY <1>1, FrameInit, FrameNext, PlaceInit, PlaceNext, PTL DEF Spec
=============================================================================
