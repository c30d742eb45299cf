----------------------------- MODULE ShellProofs -----------------------------
(***************************************************************************)
(* The shell, for all batch files, hash functions and numbers of           *)
(* processes: its variables keep their types, its histories are complete,  *)
(* a shell that reads has nothing left running, and its aliases are a      *)
(* dictionary.                                                             *)
(***************************************************************************)
EXTENDS Shell, NatLemmas, SequenceTheorems

-----------------------------------------------------------------------------
(* The alias table *)

Entries == [key : Words, value : Words]

\* No name comes twice in a chain.
Chains == {c \in Seq(Entries) : \A i, j \in DOMAIN c : c[i].key = c[j].key => i = j}
Tables == [Buckets -> Chains]

\* What chain c says of name k.
Says(c, k) == IF \E i \in DOMAIN c : c[i].key = k
                THEN c[CHOOSE i \in DOMAIN c : c[i].key = k].value
                ELSE NoWord

\* A name is in one place of a chain or in none.
LEMMA PlaceOf ==
  ASSUME NEW c \in Chains, NEW k
  PROVE  /\ Aliases!Places(c, k) = {} <=> ~ \E i \in DOMAIN c : c[i].key = k
         /\ \A i \in DOMAIN c : c[i].key = k =>
              /\ Aliases!Places(c, k) = {i} /\ Aliases!Min(Aliases!Places(c, k)) = i
              /\ Says(c, k) = c[i].value
<1>1. Aliases!Places(c, k) = {} <=> ~ \E i \in DOMAIN c : c[i].key = k
  BY DEF Aliases!Places
<1>2. ASSUME NEW i \in DOMAIN c, c[i].key = k
      PROVE  /\ Aliases!Places(c, k) = {i} /\ Aliases!Min(Aliases!Places(c, k)) = i
             /\ Says(c, k) = c[i].value
  <2>1. c \in Seq(Entries) /\ \A j \in DOMAIN c : c[j].key = k => j = i
    BY <1>2 DEF Chains
  <2>2. Aliases!Places(c, k) = {i}
    BY <1>2, <2>1 DEF Aliases!Places
  <2>3. i \in Nat
    BY <2>1
  <2>4. Aliases!Min({i}) = i
    BY <2>3 DEF Aliases!Min
  <2>5. (CHOOSE j \in DOMAIN c : c[j].key = k) = i
    BY <1>2, <2>1
  <2> QED BY <1>2, <2>2, <2>4, <2>5 DEF Says
<1> QED BY <1>1, <1>2

\* A lookup asks the chain of the name.
LEMMA GetSays ==
  ASSUME NEW t \in Tables, NEW k \in Words
  PROVE  Aliases!hm_get(t, k, NoWord) = Says(t[Hash[k]], k)
<1>1. PICK c \in Chains : c = t[Hash[k]]
  BY ShellAssumption DEF Tables
<1>2. Aliases!hm_get(t, k, NoWord) =
        IF Aliases!Places(c, k) = {} THEN NoWord ELSE c[Aliases!Min(Aliases!Places(c, k))].value
  BY <1>1 DEF Aliases!hm_get
<1>3. CASE \E i \in DOMAIN c : c[i].key = k
  <2>1. PICK i \in DOMAIN c : c[i].key = k
    BY <1>3
  <2>2. /\ Aliases!Places(c, k) = {i} /\ Aliases!Min(Aliases!Places(c, k)) = i
        /\ Says(c, k) = c[i].value
    BY <2>1, PlaceOf
  <2>3. Aliases!Places(c, k) # {}
    BY <2>2
  <2> QED BY <1>1, <1>2, <2>2, <2>3
<1>4. CASE ~ \E i \in DOMAIN c : c[i].key = k
  <2>1. Says(c, k) = NoWord
    BY <1>4 DEF Says
  <2> QED BY <1>1, <1>2, <1>4, <2>1, PlaceOf
<1> QED BY <1>3, <1>4

\* Chains that have the same pairs say the same.
LEMMA SaysSame ==
  ASSUME NEW c \in Chains, NEW d \in Chains, NEW k,
         \A i \in DOMAIN c : c[i].key = k => \E j \in DOMAIN d : d[j] = c[i],
         \A i \in DOMAIN d : d[i].key = k => \E j \in DOMAIN c : c[j] = d[i]
  PROVE  Says(c, k) = Says(d, k)
<1>1. CASE \E i \in DOMAIN c : c[i].key = k
  <2>1. PICK i \in DOMAIN c : c[i].key = k
    BY <1>1
  <2>2. PICK j \in DOMAIN d : d[j] = c[i]
    BY <2>1
  <2> QED BY <2>1, <2>2, PlaceOf
<1>2. CASE ~ \E i \in DOMAIN c : c[i].key = k
  BY <1>2 DEF Says
<1> QED BY <1>1, <1>2

\* What a chain says is a word, or that there is none.
LEMMA SaysWord ==
  ASSUME NEW c \in Chains, NEW k
  PROVE  Says(c, k) \in Words \cup {NoWord}
<1>1. CASE \E i \in DOMAIN c : c[i].key = k
  <2>1. PICK i \in DOMAIN c : c[i].key = k
    BY <1>1
  <2>2. c[i] \in Entries
    BY <2>1 DEF Chains
  <2>3. c[i].value \in Words
    BY <2>2 DEF Entries
  <2> QED BY <2>1, <2>3, PlaceOf
<1>2. CASE ~ \E i \in DOMAIN c : c[i].key = k
  BY <1>2 DEF Says
<1> QED BY <1>1, <1>2

\* An entry for a new name at the head.
LEMMA PutHead ==
  ASSUME NEW c \in Chains, NEW k \in Words, NEW v \in Words,
         ~ \E i \in DOMAIN c : c[i].key = k
  PROVE  LET d == <<Aliases!Entry(k, v)>> \o c
         IN /\ d \in Chains /\ Says(d, k) = v
            /\ \A w : w # k => Says(d, w) = Says(c, w)
<1> DEFINE e == Aliases!Entry(k, v)
           d == <<e>> \o c
<1>1. e \in Entries /\ e.key = k /\ e.value = v
  BY DEF Aliases!Entry, Entries
<1>2. c \in Seq(Entries) /\ \A i, j \in DOMAIN c : c[i].key = c[j].key => i = j
  BY DEF Chains
<1> HIDE DEF e
<1>3. /\ d \in Seq(Entries) /\ Len(d) = Len(c) + 1 /\ d[1] = e
      /\ \A i \in 1..Len(c) : d[i + 1] = c[i]
  BY <1>1, <1>2
<1>4. /\ DOMAIN d = 1 .. Len(c) + 1 /\ DOMAIN c = 1..Len(c) /\ Len(c) \in Nat
  BY <1>2, <1>3
<1> HIDE DEF d
<1>5. \A i \in DOMAIN d : i = 1 \/ (i - 1 \in DOMAIN c /\ d[i] = c[i - 1])
  <2>1. SUFFICES ASSUME NEW i \in DOMAIN d, i # 1
                 PROVE  i - 1 \in DOMAIN c /\ d[i] = c[i - 1]
    OBVIOUS
  <2>2. i - 1 \in 1..Len(c) /\ (i - 1) + 1 = i
    BY <1>4, <2>1
  <2> QED BY <1>3, <1>4, <2>2
<1>6. d \in Chains
  <2>1. SUFFICES ASSUME NEW i \in DOMAIN d, NEW j \in DOMAIN d, d[i].key = d[j].key
                 PROVE  i = j
    BY <1>3 DEF Chains
  <2>2. i \in Int /\ j \in Int
    BY <1>4
  <2>3. CASE i = 1
    BY <1>1, <1>3, <1>5, <2>1, <2>3
  <2>4. CASE j = 1
    BY <1>1, <1>3, <1>5, <2>1, <2>4
  <2>5. CASE i # 1 /\ j # 1
    <3>1. i - 1 = j - 1
      BY <1>2, <1>5, <2>1, <2>5
    <3> QED BY <2>2, <3>1
  <2> QED BY <2>3, <2>4, <2>5
<1>7. Says(d, k) = v
  BY <1>1, <1>3, <1>4, <1>6, PlaceOf
<1>8. ASSUME NEW w, w # k PROVE Says(d, w) = Says(c, w)
  <2>1. \A i \in DOMAIN c : i + 1 \in DOMAIN d /\ d[i + 1] = c[i]
    BY <1>3, <1>4
  <2>2. \A i \in DOMAIN d : d[i].key = w => \E j \in DOMAIN c : c[j] = d[i]
    BY <1>1, <1>3, <1>5, <1>8
  <2> QED BY <1>6, <2>1, <2>2, SaysSame
<1> QED BY <1>6, <1>7, <1>8 DEF d, e

\* An entry updated in place.
LEMMA PutAt ==
  ASSUME NEW c \in Chains, NEW n \in DOMAIN c, NEW e \in Entries, e.key = c[n].key
  PROVE  LET d == [c EXCEPT ![n] = e]
         IN /\ d \in Chains /\ Says(d, e.key) = e.value
            /\ \A w : w # e.key => Says(d, w) = Says(c, w)
<1> DEFINE d == [c EXCEPT ![n] = e]
<1>1. c \in Seq(Entries) /\ \A i, j \in DOMAIN c : c[i].key = c[j].key => i = j
  BY DEF Chains
<1>2. /\ d \in Seq(Entries) /\ DOMAIN d = DOMAIN c
      /\ d[n] = e /\ \A i \in DOMAIN c : i # n => d[i] = c[i]
  BY <1>1
<1> HIDE DEF d
<1>3. \A i \in DOMAIN d : d[i].key = c[i].key
  BY <1>2
<1>4. d \in Chains
  BY <1>1, <1>2, <1>3 DEF Chains
<1>5. Says(d, e.key) = e.value
  BY <1>2, <1>4, PlaceOf
<1>6. ASSUME NEW w, w # e.key PROVE Says(d, w) = Says(c, w)
  <2>1. \A i \in DOMAIN c : c[i].key = w => i \in DOMAIN d /\ d[i] = c[i]
    BY <1>2, <1>6
  <2>2. \A i \in DOMAIN d : d[i].key = w => i \in DOMAIN c /\ c[i] = d[i]
    BY <1>2, <1>6
  <2> QED BY <1>4, <2>1, <2>2, SaysSame
<1> QED BY <1>4, <1>5, <1>6 DEF d

\* An entry unlinked.
LEMMA CutAt ==
  ASSUME NEW c \in Chains, NEW n \in DOMAIN c
  PROVE  LET d == Aliases!RemoveAt(c, n)
         IN /\ d \in Chains /\ Says(d, c[n].key) = NoWord
            /\ \A w : w # c[n].key => Says(d, w) = Says(c, w)
<1> DEFINE d == Aliases!RemoveAt(c, n)
           at(i) == IF i < n THEN i ELSE i + 1
<1>1. c \in Seq(Entries) /\ \A i, j \in DOMAIN c : c[i].key = c[j].key => i = j
  BY DEF Chains
<1>2. n \in 1..Len(c) /\ Len(c) \in Nat /\ DOMAIN c = 1..Len(c)
  BY <1>1
<1>3. PICK a : a = SubSeq(c, 1, n - 1)
  OBVIOUS
<1>4. a \in Seq(Entries) /\ Len(a) = n - 1 /\ \A i \in 1 .. n - 1 : a[i] = c[i]
  BY <1>1, <1>2, <1>3, SubSeqProperties
<1>5. PICK b : b = SubSeq(c, n + 1, Len(c))
  OBVIOUS
<1>6. /\ b \in Seq(Entries) /\ Len(b) = Len(c) - n
      /\ \A i \in 1 .. Len(c) - n : b[i] = c[n + i]
  <2>1. n + 1 \in Int /\ Len(c) \in Int /\ n + 1 \in 1..(Len(c) + 1)
    BY <1>2
  <2>2. \A i \in n + 1 .. Len(c) : i \in 1..Len(c)
    BY <1>2
  <2>3. /\ SubSeq(c, n + 1, Len(c)) \in Seq(Entries)
        /\ Len(SubSeq(c, n + 1, Len(c))) = IF n + 1 <= Len(c) THEN Len(c) - (n + 1) + 1 ELSE 0
        /\ \A i \in 1 .. Len(c) - (n + 1) + 1 : SubSeq(c, n + 1, Len(c))[i] = c[n + 1 + i - 1]
    BY <1>1, <1>2, <2>1, <2>2, SubSeqProperties
  <2>4. Len(c) - (n + 1) + 1 = Len(c) - n /\ \A i \in Int : n + 1 + i - 1 = n + i
    BY <1>2
  <2>5. Len(b) = Len(c) - n
    <3>1. Len(b) = IF n + 1 <= Len(c) THEN Len(c) - (n + 1) + 1 ELSE 0
      BY <1>5, <2>3
    <3>2. n \in Int /\ Len(c) \in Int /\ n <= Len(c)
      BY <1>2
    <3> QED BY <3>1, <3>2
  <2>6. ASSUME NEW i \in 1 .. Len(c) - n PROVE b[i] = c[n + i]
    <3>1. i \in 1 .. Len(c) - (n + 1) + 1 /\ n + 1 + i - 1 = n + i
      BY <2>4
    <3>2. SubSeq(c, n + 1, Len(c))[i] = c[n + 1 + i - 1]
      BY <2>3, <3>1
    <3> QED BY <1>5, <3>1, <3>2
  <2> QED BY <1>5, <2>3, <2>5, <2>6
<1>7. d = a \o b
  BY <1>3, <1>5 DEF Aliases!RemoveAt
<1>8. /\ d \in Seq(Entries) /\ Len(d) = Len(c) - 1
      /\ \A i \in 1 .. Len(c) - 1 : d[i] = c[at(i)]
  <2>1. /\ a \o b \in Seq(Entries) /\ Len(a \o b) = Len(a) + Len(b)
        /\ \A i \in 1 .. Len(a) + Len(b) : (a \o b)[i] = IF i <= Len(a) THEN a[i] ELSE b[i - Len(a)]
    <3>1. a \in Seq(Entries) /\ b \in Seq(Entries)
      BY <1>4, <1>6
    <3> QED BY <3>1
  <2>2. Len(a) + Len(b) = Len(c) - 1
    BY <1>2, <1>4, <1>6
  <2>3. ASSUME NEW i \in 1 .. Len(c) - 1 PROVE d[i] = c[at(i)]
    <3>1. CASE i < n
      BY <1>2, <1>4, <1>7, <2>1, <2>2, <3>1
    <3>2. CASE i >= n
      <4>1. i - (n - 1) \in 1 .. Len(c) - n /\ n + (i - (n - 1)) = i + 1
        BY <1>2, <3>2
      <4>2. d[i] = b[i - (n - 1)]
        <5>1. ~ (i <= n - 1) /\ i \in 1 .. Len(a) + Len(b)
          BY <1>2, <2>2, <3>2
        <5> QED BY <1>4, <1>7, <2>1, <5>1
      <4> QED BY <1>6, <3>2, <4>1, <4>2, <1>2
    <3> QED BY <1>2, <3>1, <3>2
  <2> QED BY <1>7, <2>1, <2>2, <2>3
<1>9. DOMAIN d = 1 .. Len(c) - 1
  BY <1>8
<1> HIDE DEF d
<1>10. /\ \A i \in DOMAIN d : at(i) \in DOMAIN c /\ at(i) # n
       /\ \A i, j \in DOMAIN d : at(i) = at(j) => i = j
       /\ \A i \in DOMAIN c : i # n => \E j \in DOMAIN d : at(j) = i
  <2>1. /\ \A i \in DOMAIN d : at(i) \in DOMAIN c /\ at(i) # n
        /\ \A i, j \in DOMAIN d : at(i) = at(j) => i = j
    BY <1>2, <1>9
  <2>2. ASSUME NEW i \in DOMAIN c, i # n PROVE \E j \in DOMAIN d : at(j) = i
    <3>1. CASE i < n
      BY <1>2, <1>9, <3>1
    <3>2. CASE i > n
      <4>1. i - 1 \in DOMAIN d /\ at(i - 1) = i
        BY <1>2, <1>9, <3>2
      <4> QED BY <4>1
    <3> QED BY <1>2, <2>2, <3>1, <3>2
  <2> QED BY <2>1, <2>2
<1> HIDE DEF at
<1>11. d \in Chains
  <2>1. SUFFICES ASSUME NEW i \in DOMAIN d, NEW j \in DOMAIN d, d[i].key = d[j].key
                 PROVE  i = j
    BY <1>8 DEF Chains
  <2>2. c[at(i)].key = c[at(j)].key
    BY <1>8, <1>9, <2>1
  <2>3. at(i) = at(j)
    BY <1>1, <1>10, <2>2
  <2> QED BY <1>10, <2>3
<1>12. Says(d, c[n].key) = NoWord
  BY <1>1, <1>8, <1>9, <1>10 DEF Says
<1>13. ASSUME NEW w, w # c[n].key PROVE Says(d, w) = Says(c, w)
  <2>1. \A i \in DOMAIN d : \E j \in DOMAIN c : c[j] = d[i]
    BY <1>8, <1>9, <1>10
  <2>2. \A i \in DOMAIN c : c[i].key = w => \E j \in DOMAIN d : d[j] = c[i]
    BY <1>8, <1>9, <1>10, <1>13
  <2> QED BY <1>11, <2>1, <2>2, SaysSame
<1> QED BY <1>11, <1>12, <1>13 DEF d

\* What a table says of all names: the dictionary it stands for.
View(t) == [k \in Words |-> Aliases!hm_get(t, k, NoWord)]

\* One chain of a table replaced, which changes what is said of one name.
LEMMA ChainSet ==
  ASSUME NEW t \in Tables, NEW k \in Words, NEW d \in Chains, NEW v,
         Says(d, k) = v, \A w : w # k => Says(d, w) = Says(t[Hash[k]], w)
  PROVE  LET u == [t EXCEPT ![Hash[k]] = d]
         IN u \in Tables /\ View(u) = [View(t) EXCEPT ![k] = v]
<1> DEFINE u == [t EXCEPT ![Hash[k]] = d]
<1>1. u \in Tables
  BY ShellAssumption DEF Tables
<1>2. /\ u[Hash[k]] = d /\ \A b \in Buckets : b # Hash[k] => u[b] = t[b]
      /\ Hash[k] \in Buckets
  BY ShellAssumption DEF Tables
<1> HIDE DEF u
<1>3. ASSUME NEW w \in Words
      PROVE  Aliases!hm_get(u, w, NoWord) = IF w = k THEN v ELSE Aliases!hm_get(t, w, NoWord)
  <2>1. Hash[w] \in Buckets
    BY ShellAssumption
  <2>2. Aliases!hm_get(u, w, NoWord) = Says(u[Hash[w]], w)
        /\ Aliases!hm_get(t, w, NoWord) = Says(t[Hash[w]], w)
    BY <1>1, GetSays
  <2> QED BY <1>2, <2>1, <2>2
<1>4. View(u) = [View(t) EXCEPT ![k] = v]
  BY <1>3 DEF View
<1> QED BY <1>1, <1>4 DEF u

\* hm_put gives one name a value, hm_delete takes one name away, whatever the
\* hash function makes of the names.
LEMMA TablePut ==
  ASSUME NEW t \in Tables, NEW k \in Words, NEW v \in Words
  PROVE  LET u == Aliases!hm_put(t, k, v)
         IN u \in Tables /\ View(u) = [View(t) EXCEPT ![k] = v]
<1>1. PICK c \in Chains : c = t[Hash[k]]
  BY ShellAssumption DEF Tables
<1>2. Aliases!hm_put(t, k, v) = [t EXCEPT ![Hash[k]] =
        IF Aliases!Places(c, k) = {} THEN <<Aliases!Entry(k, v)>> \o c
        ELSE [c EXCEPT ![Aliases!Min(Aliases!Places(c, k))].value = v]]
  BY <1>1 DEF Aliases!hm_put
<1>3. CASE \E i \in DOMAIN c : c[i].key = k
  <2>1. PICK i \in DOMAIN c : c[i].key = k
    BY <1>3
  <2>2. PICK e : e = [c[i] EXCEPT !.value = v]
    OBVIOUS
  <2>6. e \in Entries /\ e.key = k /\ e.value = v
    <3>1. c[i] \in Entries
      BY <2>1 DEF Chains
    <3> QED BY <2>1, <2>2, <3>1 DEF Entries
  <2>7. PICK d : d = [c EXCEPT ![i] = e]
    OBVIOUS
  <2>3. /\ d \in Chains /\ Says(d, k) = v
        /\ \A w : w # k => Says(d, w) = Says(c, w)
    <3>1. e.key = c[i].key
      BY <2>1, <2>6
    <3>2. /\ [c EXCEPT ![i] = e] \in Chains /\ Says([c EXCEPT ![i] = e], e.key) = e.value
          /\ \A w : w # e.key => Says([c EXCEPT ![i] = e], w) = Says(c, w)
      BY <2>1, <2>6, <3>1, PutAt
    <3> QED BY <2>6, <2>7, <3>2
  <2>4. Aliases!Places(c, k) # {} /\ Aliases!Min(Aliases!Places(c, k)) = i
    BY <2>1, PlaceOf
  <2>5. Aliases!hm_put(t, k, v) = [t EXCEPT ![Hash[k]] = d]
    BY <1>2, <2>2, <2>4, <2>7
  <2>8. /\ Says(d, k) = v
        /\ \A w : w # k => Says(d, w) = Says(t[Hash[k]], w)
    BY <1>1, <2>3
  <2>9. /\ [t EXCEPT ![Hash[k]] = d] \in Tables
        /\ View([t EXCEPT ![Hash[k]] = d]) = [View(t) EXCEPT ![k] = v]
    BY <2>3, <2>8, ChainSet
  <2> QED BY <2>5, <2>9
<1>4. CASE ~ \E i \in DOMAIN c : c[i].key = k
  <2>1. PICK d : d = <<Aliases!Entry(k, v)>> \o c
    OBVIOUS
  <2>2. /\ d \in Chains /\ Says(d, k) = v
        /\ \A w : w # k => Says(d, w) = Says(c, w)
    BY <1>4, <2>1, PutHead
  <2>3. Aliases!Places(c, k) = {}
    BY <1>4, PlaceOf
  <2>4. Aliases!hm_put(t, k, v) = [t EXCEPT ![Hash[k]] = d]
    BY <1>2, <2>1, <2>3
  <2>8. /\ Says(d, k) = v
        /\ \A w : w # k => Says(d, w) = Says(t[Hash[k]], w)
    BY <1>1, <2>2
  <2>9. /\ [t EXCEPT ![Hash[k]] = d] \in Tables
        /\ View([t EXCEPT ![Hash[k]] = d]) = [View(t) EXCEPT ![k] = v]
    BY <2>2, <2>8, ChainSet
  <2> QED BY <2>4, <2>9
<1> QED BY <1>3, <1>4

\* hm_delete takes a key out of the dictionary and keeps a key once in its chain.
LEMMA TableDelete ==
  ASSUME NEW t \in Tables, NEW k \in Words
  PROVE  LET u == Aliases!hm_delete(t, k)
         IN u \in Tables /\ View(u) = [View(t) EXCEPT ![k] = NoWord]
<1>1. PICK c \in Chains : c = t[Hash[k]]
  BY ShellAssumption DEF Tables
<1>2. Aliases!hm_delete(t, k) = [t EXCEPT ![Hash[k]] =
        IF Aliases!Places(c, k) = {} THEN c
        ELSE Aliases!RemoveAt(c, Aliases!Min(Aliases!Places(c, k)))]
  BY <1>1 DEF Aliases!hm_delete
<1>3. CASE \E i \in DOMAIN c : c[i].key = k
  <2>1. PICK i \in DOMAIN c : c[i].key = k
    BY <1>3
  <2>2. PICK d : d = Aliases!RemoveAt(c, i)
    OBVIOUS
  <2>3. /\ d \in Chains /\ Says(d, k) = NoWord
        /\ \A w : w # k => Says(d, w) = Says(c, w)
    BY <2>1, <2>2, CutAt
  <2>4. Aliases!Places(c, k) # {} /\ Aliases!Min(Aliases!Places(c, k)) = i
    BY <2>1, PlaceOf
  <2>5. Aliases!hm_delete(t, k) = [t EXCEPT ![Hash[k]] = d]
    BY <1>2, <2>2, <2>4
  <2>8. /\ Says(d, k) = NoWord
        /\ \A w : w # k => Says(d, w) = Says(t[Hash[k]], w)
    BY <1>1, <2>3
  <2>9. /\ [t EXCEPT ![Hash[k]] = d] \in Tables
        /\ View([t EXCEPT ![Hash[k]] = d]) = [View(t) EXCEPT ![k] = NoWord]
    BY <2>3, <2>8, ChainSet
  <2> QED BY <2>5, <2>9
<1>4. CASE ~ \E i \in DOMAIN c : c[i].key = k
  <2>1. Aliases!Places(c, k) = {}
    BY <1>4, PlaceOf
  <2>2. Aliases!hm_delete(t, k) = [t EXCEPT ![Hash[k]] = c]
    BY <1>2, <2>1
  <2>3. Says(c, k) = NoWord
    BY <1>4 DEF Says
  <2>8. /\ Says(c, k) = NoWord
        /\ \A w : w # k => Says(c, w) = Says(t[Hash[k]], w)
    BY <1>1, <2>3
  <2>9. /\ [t EXCEPT ![Hash[k]] = c] \in Tables
        /\ View([t EXCEPT ![Hash[k]] = c]) = [View(t) EXCEPT ![k] = NoWord]
    BY <2>8, ChainSet
  <2> QED BY <2>2, <2>9
<1> QED BY <1>3, <1>4

-----------------------------------------------------------------------------
(* The history *)

\* The places of kept lines and of the next one in the history.
LEMMA RankNext ==
  ASSUME NEW n \in Nat, NEW S \in SUBSET (1..n)
  PROVE  /\ Cardinality(S) \in Nat /\ Cardinality(S \cup {n + 1}) = Cardinality(S) + 1
         /\ Rank(S \cup {n + 1}, n + 1) = Cardinality(S) + 1
         /\ \A i \in S : /\ Rank(S \cup {n + 1}, i) = Rank(S, i)
                         /\ Rank(S, i) \in 1..Cardinality(S)
<1>1. IsFiniteSet(S)
  <2>1. IsFiniteSet(1..n)
    BY FS_Interval
  <2> QED BY <2>1, FS_Subset
<1>2. n + 1 \notin S
  OBVIOUS
<1>3. Cardinality(S) \in Nat /\ Cardinality(S \cup {n + 1}) = Cardinality(S) + 1
  BY <1>1, <1>2, FS_CardinalityType, FS_AddElement
<1>4. {j \in S \cup {n + 1} : j <= n + 1} = S \cup {n + 1}
  <2>1. \A j \in S \cup {n + 1} : j <= n + 1
    OBVIOUS
  <2> QED BY <2>1
<1>5. ASSUME NEW i \in S
      PROVE  Rank(S \cup {n + 1}, i) = Rank(S, i) /\ Rank(S, i) \in 1..Cardinality(S)
  <2> DEFINE T == {j \in S : j <= i}
  <2>1. {j \in S \cup {n + 1} : j <= i} = T
    OBVIOUS
  <2>2. T \subseteq S /\ T # {}
    OBVIOUS
  <2>3. Rank(S \cup {n + 1}, i) = Cardinality(T) /\ Rank(S, i) = Cardinality(T)
    BY <2>1 DEF Rank
  <2> HIDE DEF T
  <2>4. IsFiniteSet(T) /\ Cardinality(T) <= Cardinality(S)
    BY <1>1, <2>2, FS_Subset
  <2>5. Cardinality(T) \in Nat /\ Cardinality(T) # 0
    BY <2>2, <2>4, FS_CardinalityType, FS_EmptySet
  <2> QED BY <1>3, <2>3, <2>4, <2>5
<1> QED BY <1>3, <1>4, <1>5 DEF Rank

\* What a history remembers depends on its data and on the lines taken.
LEMMA RemembersSame ==
  ASSUME NEW m, NEW n, NEW s, NEW k \in Nat, Remembers(m, s, k),
         n.hist.data = m.hist.data, \A i \in 1..k : n.log[i] = m.log[i]
  PROVE  Remembers(n, s, k)
<1>1. PICK kept \in SUBSET (1..k) :
        /\ \A i \in 1..k : Len(s[m.log[i]]) = 1 => i \in kept
        /\ Len(m.hist.data) = Cardinality(kept)
        /\ \A i \in kept : m.hist.data[Rank(kept, i)] = m.log[i]
  BY DEF Remembers
<1>2. \A i \in kept : i \in 1..k
  OBVIOUS
<1> QED BY <1>1, <1>2 DEF Remembers

\* The line put into the history is the next one that was taken.
LEMMA RemembersMore ==
  ASSUME NEW m, NEW n, NEW s, NEW k \in Nat, Remembers(m, s, k), m.hist.data \in Seq(Nat),
         m.log[k + 1] \in Nat, n.log = m.log, n.hist.data = Append(m.hist.data, m.log[k + 1])
  PROVE  Remembers(n, s, k + 1)
<1>1. PICK kept \in SUBSET (1..k) :
        /\ \A i \in 1..k : Len(s[m.log[i]]) = 1 => i \in kept
        /\ Len(m.hist.data) = Cardinality(kept)
        /\ \A i \in kept : m.hist.data[Rank(kept, i)] = m.log[i]
  BY DEF Remembers
<1>2. PICK d \in Seq(Nat) : d = m.hist.data
  OBVIOUS
<1>3. PICK x \in Nat : x = m.log[k + 1]
  OBVIOUS
<1>4. PICK more : more = kept \cup {k + 1}
  OBVIOUS
<1>5. /\ Cardinality(kept) \in Nat /\ Cardinality(more) = Cardinality(kept) + 1
      /\ Rank(more, k + 1) = Cardinality(kept) + 1
      /\ \A i \in kept : Rank(more, i) = Rank(kept, i) /\ Rank(kept, i) \in 1..Cardinality(kept)
  BY <1>4, RankNext
<1>6. /\ Len(Append(d, x)) = Len(d) + 1 /\ Append(d, x)[Len(d) + 1] = x
      /\ \A i \in 1..Len(d) : Append(d, x)[i] = d[i]
  OBVIOUS
<1>7. more \in SUBSET (1..(k + 1))
  BY <1>4
<1>8. \A i \in 1..(k + 1) : Len(s[n.log[i]]) = 1 => i \in more
  <2>1. \A i \in 1..(k + 1) : i \in 1..k \/ i = k + 1
    OBVIOUS
  <2> QED BY <1>1, <1>4, <2>1
<1>9. Len(n.hist.data) = Cardinality(more)
  BY <1>1, <1>2, <1>3, <1>5, <1>6
<1>10. \A i \in more : n.hist.data[Rank(more, i)] = n.log[i]
  BY <1>1, <1>2, <1>3, <1>4, <1>5, <1>6, ZenonT(40)
<1> QED BY <1>7, <1>8, <1>9, <1>10 DEF Remembers

\* A pipeline may be missing.
LEMMA RemembersSkip ==
  ASSUME NEW m, NEW s, NEW k \in Nat, Remembers(m, s, k), Len(s[m.log[k + 1]]) # 1
  PROVE  Remembers(m, s, k + 1)
<1>1. PICK kept \in SUBSET (1..k) :
        /\ \A i \in 1..k : Len(s[m.log[i]]) = 1 => i \in kept
        /\ Len(m.hist.data) = Cardinality(kept)
        /\ \A i \in kept : m.hist.data[Rank(kept, i)] = m.log[i]
  BY DEF Remembers
<1>2. \A i \in 1..(k + 1) : i \in 1..k \/ i = k + 1
  OBVIOUS
<1>3. kept \in SUBSET (1..(k + 1))
  OBVIOUS
<1>4. \A i \in 1..(k + 1) : Len(s[m.log[i]]) = 1 => i \in kept
  BY <1>1, <1>2
<1> QED BY <1>1, <1>3, <1>4 DEF Remembers

-----------------------------------------------------------------------------
(* The inductive invariant *)

Kinds       == {"none", "wsh", "prog", "zombie"}
ProcRecords == [kind : Kinds, parent : Pids \cup {NoPid}, code : {0, 1, 139}]

Arrays == {d \in [made : BOOLEAN, capacity : Nat, data : Seq(Nat)] :
             Len(d.data) <= d.capacity /\ (~d.made => d.data = <<>>)}

MemRecords == [at : Places, rc : {0, 1}, line : Nat, end : Nat, log : Seq(Nat), alias : Tables,
               hist : Arrays, path : Words \cup {"/bin"}, argv : Seq(Words),
               segs : Seq(Seq(Words)), i : Nat, pids : Seq(Pids), status : {0, 1},
               lost : BOOLEAN]

Ends == (Pids \X Nat \X Nat) \X {"read", "write"}

\* The memory of a shell that executes script s: the buffer holds lines of it.
Buffers(m, s) == m \in MemRecords /\ m.end \in {0, Len(s)} /\ m.line \in 1..(m.end + 1)

\* The line that was taken last is not in the history yet.
Busy(m, s) ==
    /\ Buffers(m, s)
    /\ Len(m.log) > 0 /\ m.log[Len(m.log)] = m.line - 1
    /\ Remembers(m, s, Len(m.log) - 1)

\* Only while a line is executed the history is one line behind.
MemOK(m, s) ==
    /\ Buffers(m, s)
    /\ m.at = "read" => Remembers(m, s, Len(m.log))
    /\ m.at \in {"fork", "exec", "wait", "spawn", "reap"} => Busy(m, s)
    /\ m.at \in {"spawn", "reap"} => Len(s[m.line - 1]) # 1

\* Processes form a tree of live ones; the shell that was started is its root.
TreeOK ==
    /\ proc[Root].parent = NoPid /\ proc[Root].kind # "none"
    /\ \A q \in Pids : proc[q].kind # "none" =>
         \/ proc[q].parent = NoPid
         \/ /\ proc[q].parent \in Pids /\ proc[q].parent # q
            /\ proc[proc[q].parent].kind \in {"wsh", "prog"}

\* The children of a pipeline that the shell has still to wait for.
Awaited(m) == {m.pids[k] : k \in (IF m.at = "spawn" THEN 1 ELSE m.i)..Len(m.pids)}

\* The children of a shell are those it is going to wait for.
KidsOK(m, f, kids) ==
    /\ m.at \in {"read", "fork", "exec", "wait", "reap"} => f = {}
    /\ m.at \in {"spawn", "reap"} =>
         /\ Awaited(m) \subseteq kids
         /\ \A j, k \in 1..Len(m.pids) : m.pids[j] = m.pids[k] => j = k
    /\ m.at = "spawn" => m.i = Len(m.pids) + 1 /\ m.segs # <<>> /\ m.i <= Len(m.segs) + 1
    /\ m.at = "reap" => m.i \in 1..Len(m.pids)
    /\ ~m.lost =>
         /\ m.at \in {"read", "fork", "exec", "segment", "run"} => kids = {}
         /\ m.at = "wait" => \E c \in Pids : kids = {c}
         /\ m.at \in {"spawn", "reap"} => kids \subseteq Awaited(m)

Typed ==
    /\ script \in Seq(Seq(Seq(Words)))
    /\ proc \in [Pids -> ProcRecords] /\ mem \in [Pids -> MemRecords]
    /\ fds \in [Pids -> SUBSET Ends]
    /\ offset \in 0..Len(script) /\ failures \in 0..Failures

IInv ==
    /\ Typed /\ TreeOK
    /\ \A p \in Pids : MemOK(mem[p], script)
    /\ \A p \in Pids : proc[p].kind = "wsh" => KidsOK(mem[p], fds[p], Children(p))

-----------------------------------------------------------------------------
(* The memory of one shell *)

\* A table that was just made has no key twice.
LEMMA FreshTable == Aliases!hm_create \in Tables
<1>1. <<>> \in Chains
  BY DEF Chains
<1> QED BY <1>1 DEF Aliases!hm_create, Tables

\* The memory a shell starts with is in order.
LEMMA FreshOK ==
  ASSUME NEW s \in Seq(Seq(Seq(Words)))
  PROVE  MemOK(Fresh, s)
<1>1. NoArray \in Arrays
  BY DEF NoArray, Arrays
<1>2. /\ <<>> \in Seq(Nat) /\ <<>> \in Seq(Words) /\ <<>> \in Seq(Seq(Words)) /\ <<>> \in Seq(Pids)
      /\ "read" \in Places /\ "/bin" \in Words \cup {"/bin"}
  BY DEF Places
<1>3. Fresh \in MemRecords
  BY <1>1, <1>2, FreshTable DEF Fresh, MemRecords
<1>4. /\ Fresh.at = "read" /\ Fresh.line = 1 /\ Fresh.end = 0
      /\ Fresh.log = <<>> /\ Fresh.hist.data = <<>>
  BY DEF Fresh, NoArray
<1>5. Remembers(Fresh, s, 0)
  <2>1. Cardinality({}) = 0
    BY FS_EmptySet
  <2>2. {} \in SUBSET (1..0) /\ \A i \in 1..0 : FALSE
    OBVIOUS
  <2>3. Len(Fresh.hist.data) = 0
    BY <1>4
  <2> QED BY <2>1, <2>2, <2>3 DEF Remembers
<1>6. Len(Fresh.log) = 0
  BY <1>4
<1> QED BY <1>3, <1>4, <1>5, <1>6 DEF MemOK, Buffers

\* What da_put makes of a history: one element more, wherever it grows to.
LEMMA ArrayPut ==
  ASSUME NEW d \in Arrays, NEW x \in Nat
  PROVE  /\ da_put(d, x) \in Arrays
         /\ d.made => da_put(d, x).data = Append(d.data, x)
         /\ ~d.made => da_put(d, x) = d
<1>1. PICK data \in Seq(Nat) : data = d.data
  BY DEF Arrays
<1>2. d.capacity \in Nat /\ d.made \in BOOLEAN /\ Len(data) <= d.capacity /\ Len(data) \in Nat
  BY <1>1 DEF Arrays
<1>3. CASE d.made
  <2> DEFINE room == IF Len(data) < d.capacity THEN d.capacity
                     ELSE 2 * (IF d.capacity = 0 THEN 1 ELSE d.capacity)
  <2>1. room \in Nat /\ Len(data) + 1 <= room
    BY <1>2
  <2> HIDE DEF room
  <2>2. PICK more : more = Append(data, x)
    OBVIOUS
  <2>3. more \in Seq(Nat) /\ Len(more) = Len(data) + 1
    BY <2>2
  <2>4. da_put(d, x) = [d EXCEPT !.capacity = room, !.data = more]
    BY <1>1, <1>3, <2>2 DEF da_put, room
  <2>5. d \in [made : BOOLEAN, capacity : Nat, data : Seq(Nat)]
    BY DEF Arrays
  <2>6. [d EXCEPT !.capacity = room, !.data = more] \in Arrays
    BY <1>3, <2>1, <2>3, <2>5 DEF Arrays
  <2>7. [d EXCEPT !.capacity = room, !.data = more].data = more
    BY <2>5
  <2> QED BY <1>1, <1>3, <2>2, <2>4, <2>6, <2>7
<1>4. CASE ~d.made
  BY <1>4 DEF da_put
<1> QED BY <1>3, <1>4

\* da_create makes an empty array.
LEMMA ArrayNew ==
  /\ da_create(HistoryCap) \in Arrays /\ da_create(HistoryCap).made
  /\ da_create(HistoryCap).data = <<>>
<1>1. HistoryCap \in Nat
  BY ShellAssumption
<1> QED BY <1>1 DEF da_create, Arrays

\* A memory in which only other parts changed is as busy as before.
LEMMA BusySame ==
  ASSUME NEW s, NEW m, NEW n \in MemRecords, Busy(m, s), n.line = m.line, n.end = m.end,
         n.log = m.log, n.hist.data = m.hist.data
  PROVE  Busy(n, s)
<1>1. Len(m.log) - 1 \in Nat
  BY DEF Busy, Buffers, MemRecords
<1>2. Remembers(n, s, Len(m.log) - 1)
  BY <1>1, RemembersSame DEF Busy
<1> QED BY <1>2 DEF Busy, Buffers

\* The tail of processCmd brings the history up to date.
LEMMA RecordedOK ==
  ASSUME NEW s, NEW m, Busy(m, s)
  PROVE  /\ MemOK(Recorded(m), s) /\ Recorded(m).at = "read"
         /\ Recorded(m).lost = m.lost /\ Recorded(m).alias = m.alias
<1>1. /\ m \in MemRecords /\ Len(m.log) > 0 /\ m.log[Len(m.log)] = m.line - 1
      /\ Remembers(m, s, Len(m.log) - 1) /\ m.end \in {0, Len(s)} /\ m.line \in 1..(m.end + 1)
  BY DEF Busy, Buffers
<1>2. PICK x \in Nat : x = m.line - 1
  BY <1>1 DEF MemRecords
<1>3. PICK d \in Arrays : d = IF m.hist.made THEN m.hist ELSE da_create(HistoryCap)
  BY <1>1, ArrayNew DEF MemRecords
<1>4. d.made /\ d.data = m.hist.data
  BY <1>1, <1>3, ArrayNew DEF MemRecords, Arrays
<1>5. PICK h \in Arrays : h = da_put(d, x)
  BY ArrayPut
<1>6. h.data = Append(m.hist.data, x)
  BY <1>4, <1>5, ArrayPut, ZenonT(40)
<1>7. PICK n : n = Recorded(m)
  OBVIOUS
<1>8. n = [m EXCEPT !.at = "read", !.argv = <<>>, !.hist = h]
  BY <1>2, <1>3, <1>5, <1>7 DEF Recorded
<1>9. <<>> \in Seq(Words) /\ "read" \in Places
  BY DEF Places
<1>10. /\ n \in MemRecords /\ n.at = "read" /\ n.lost = m.lost /\ n.alias = m.alias
       /\ n.line = m.line /\ n.end = m.end /\ n.log = m.log /\ n.hist = h
  BY <1>1, <1>8, <1>9 DEF MemRecords
<1>11. PICK k \in Nat : Len(m.log) = k + 1 /\ Len(m.log) - 1 = k
  <2>1. Len(m.log) \in Nat /\ Len(m.log) > 0
    BY <1>1 DEF MemRecords
  <2>2. Len(m.log) - 1 \in Nat /\ Len(m.log) = (Len(m.log) - 1) + 1
    BY <2>1
  <2> QED BY <2>2
<1>12. Remembers(n, s, k + 1)
  <2>1. Remembers(m, s, k) /\ m.log[k + 1] = x
    BY <1>1, <1>2, <1>11
  <2>2. m.hist.data \in Seq(Nat)
    BY <1>1 DEF MemRecords, Arrays
  <2>3. n.hist.data = Append(m.hist.data, m.log[k + 1])
    BY <1>6, <1>10, <2>1
  <2> QED BY <1>10, <2>1, <2>2, <2>3, RemembersMore
<1>13. MemOK(n, s)
  BY <1>1, <1>10, <1>11, <1>12 DEF MemOK, Buffers
<1> QED BY <1>7, <1>10, <1>13

\* A pipeline that is left out of the history.
LEMMA SkippedOK ==
  ASSUME NEW s, NEW m, Busy(m, s), m.at = "read", Len(s[m.line - 1]) # 1
  PROVE  MemOK(m, s)
<1>1. /\ Len(m.log) > 0 /\ m.log[Len(m.log)] = m.line - 1 /\ Buffers(m, s)
      /\ Remembers(m, s, Len(m.log) - 1) /\ Len(m.log) \in Nat
  BY DEF Busy, Buffers, MemRecords
<1>2. PICK k \in Nat : Len(m.log) = k + 1 /\ Len(m.log) - 1 = k
  <2>1. Len(m.log) - 1 \in Nat /\ Len(m.log) = (Len(m.log) - 1) + 1
    BY <1>1
  <2> QED BY <2>1
<1>3. Remembers(m, s, k + 1)
  BY <1>1, <1>2, RemembersSkip
<1> QED BY <1>1, <1>2, <1>3 DEF MemOK

\* Reap puts the pipeline into a history that is there.
LEMMA ReapedOK ==
  ASSUME NEW s, NEW m, NEW n, Busy(m, s), Len(s[m.line - 1]) # 1, n \in MemRecords,
         n.at = "read", n.line = m.line, n.end = m.end, n.log = m.log,
         n.hist = da_put(m.hist, m.line - 1)
  PROVE  MemOK(n, s)
<1>1. /\ m \in MemRecords /\ Len(m.log) > 0 /\ m.log[Len(m.log)] = m.line - 1 /\ Buffers(m, s)
      /\ Remembers(m, s, Len(m.log) - 1) /\ Len(m.log) \in Nat /\ m.line \in 1..(m.end + 1)
      /\ m.hist \in Arrays /\ m.hist.data \in Seq(Nat) /\ m.end \in Nat
  BY SMTT(30) DEF Busy, Buffers, MemRecords, Arrays
<1>2. PICK k \in Nat : Len(m.log) = k + 1 /\ Len(m.log) - 1 = k
  <2>1. Len(m.log) - 1 \in Nat /\ Len(m.log) = (Len(m.log) - 1) + 1
    BY <1>1
  <2> QED BY <2>1
<1>3. PICK x \in Nat : x = m.line - 1 /\ x = m.log[k + 1]
  BY <1>1, <1>2
<1>4. CASE m.hist.made
  <2>3. da_put(m.hist, x).data = Append(m.hist.data, x)
    BY <1>1, <1>4, ArrayPut
  <2>1. n.hist.data = Append(m.hist.data, m.log[k + 1])
    BY <1>3, <2>3
  <2>2. Remembers(n, s, k + 1)
    BY <1>1, <1>2, <1>3, <2>1, RemembersMore
  <2> QED BY <1>1, <1>2, <2>2 DEF MemOK, Buffers
<1>5. CASE ~m.hist.made
  <2>1. n.hist = m.hist
    BY <1>1, <1>3, <1>5, ArrayPut
  <2>2. Busy(n, s)
    BY <2>1, BusySame
  <2> QED BY <2>2, SkippedOK
<1> QED BY <1>4, <1>5

\* An alias has a text.
LEMMA AliasText ==
  ASSUME NEW m \in MemRecords, NEW w \in Words
  PROVE  Alias(m, w) \in Words \cup {NoWord}
<1>1. PICK t \in Tables : t = m.alias
  BY DEF MemRecords
<1>2. t[Hash[w]] \in Chains
  BY ShellAssumption DEF Tables
<1>3. Says(t[Hash[w]], w) \in Words \cup {NoWord}
  BY <1>2, SaysWord
<1> QED BY <1>1, <1>3, GetSays DEF Alias

\* What searchAlias makes of a command is a sequence of words.
LEMMA SearchOK ==
  ASSUME NEW m \in MemRecords, NEW argv \in Seq(Words)
  PROVE  searchAlias(m, argv) \in Seq(Words)
<1>1. CASE argv # <<>> /\ Alias(m, argv[1]) # NoWord
  <2>1. argv[1] \in Words /\ Tail(argv) \in Seq(Words)
    BY <1>1
  <2>2. Alias(m, argv[1]) \in Words
    BY <1>1, <2>1, AliasText
  <2>3. Parse[Alias(m, argv[1])] \in Seq(Words)
    BY <2>2, ShellAssumption
  <2>4. Parse[Alias(m, argv[1])] \o Tail(argv) \in Seq(Words)
    BY <2>1, <2>3
  <2> QED BY <1>1, <2>4 DEF searchAlias
<1>2. CASE ~ (argv # <<>> /\ Alias(m, argv[1]) # NoWord)
  BY <1>2 DEF searchAlias
<1> QED BY <1>1, <1>2

\* A builtin returns 0 or 1.
LEMMA ResultOK ==
  ASSUME NEW m, NEW argv, argv[1] \in Builtins
  PROVE  Result(m, argv) \subseteq {0, 1}
BY DEF Result, Builtins

\* One step of the dictionary, or none.
DictStep(t, u) ==
    \/ View(u) = View(t)
    \/ \E k \in Words : \/ View(u) = [View(t) EXCEPT ![k] = NoWord]
                        \/ \E v \in Words : View(u) = [View(t) EXCEPT ![k] = v]

\* What the builtins leave behind: the alias table makes a step of the
\* dictionary, a history is created or not.
LEMMA EffectOK ==
  ASSUME NEW s, NEW m, Busy(m, s), NEW argv \in Seq(Words), argv # <<>>
  PROVE  /\ Busy(Effect(m, argv), s) /\ Effect(m, argv).lost = m.lost
         /\ DictStep(m.alias, Effect(m, argv).alias)
<1>1. m \in MemRecords /\ m.alias \in Tables /\ m.hist \in Arrays
  BY DEF Busy, Buffers, MemRecords
<1>2. CASE argv[1] = "path" /\ Len(argv) = 2
  <2>1. PICK n : n = [m EXCEPT !.path = argv[2]]
    OBVIOUS
  <2>2. argv[2] \in Words
    BY <1>2
  <2>3. /\ n \in MemRecords /\ n.line = m.line /\ n.end = m.end /\ n.log = m.log
        /\ n.hist = m.hist /\ n.lost = m.lost /\ n.alias = m.alias
    BY <1>1, <2>1, <2>2 DEF MemRecords
  <2>4. Effect(m, argv) = n
    BY <1>2, <2>1 DEF Effect
  <2> QED BY <2>3, <2>4, BusySame DEF DictStep
<1>3. CASE argv[1] = "alias" /\ Aliasing(argv)
  <2>1. PICK v : v = IF Len(argv) = 3 THEN NoText ELSE argv[4]
    OBVIOUS
  <2>2. PICK k : k = argv[2]
    OBVIOUS
  <2>3. v \in Words /\ k \in Words
    <3>1. Len(argv) \in {3, 4}
      BY <1>3 DEF Aliasing
    <3> QED BY <2>1, <2>2, <3>1, ShellAssumption
  <2>4. PICK u : u = Aliases!hm_put(m.alias, k, v)
    OBVIOUS
  <2>5. u \in Tables /\ View(u) = [View(m.alias) EXCEPT ![k] = v]
    BY <1>1, <2>3, <2>4, TablePut
  <2>6. PICK n : n = [m EXCEPT !.alias = u]
    OBVIOUS
  <2>7. /\ n \in MemRecords /\ n.line = m.line /\ n.end = m.end /\ n.log = m.log
        /\ n.hist = m.hist /\ n.lost = m.lost /\ n.alias = u
    BY <1>1, <2>5, <2>6 DEF MemRecords
  <2>8. Effect(m, argv) = n
    BY <1>3, <2>1, <2>2, <2>4, <2>6 DEF Effect
  <2> QED BY <2>3, <2>5, <2>7, <2>8, BusySame DEF DictStep
<1>4. CASE argv[1] = "unalias" /\ Len(argv) = 2
  <2>1. PICK k : k = argv[2]
    OBVIOUS
  <2>2. k \in Words
    BY <1>4, <2>1
  <2>4. PICK u : u = Aliases!hm_delete(m.alias, k)
    OBVIOUS
  <2>5. u \in Tables /\ View(u) = [View(m.alias) EXCEPT ![k] = NoWord]
    BY <1>1, <2>2, <2>4, TableDelete
  <2>6. PICK n : n = [m EXCEPT !.alias = u]
    OBVIOUS
  <2>7. /\ n \in MemRecords /\ n.line = m.line /\ n.end = m.end /\ n.log = m.log
        /\ n.hist = m.hist /\ n.lost = m.lost /\ n.alias = u
    BY <1>1, <2>5, <2>6 DEF MemRecords
  <2>8. Effect(m, argv) = n
    BY <1>4, <2>1, <2>4, <2>6 DEF Effect
  <2> QED BY <2>2, <2>5, <2>7, <2>8, BusySame DEF DictStep
<1>5. CASE argv[1] = "history" /\ Len(argv) <= 2 /\ ~m.hist.made
  <2>1. PICK h : h = da_create(HistoryCap)
    OBVIOUS
  <2>2. h \in Arrays /\ h.data = m.hist.data
    BY <1>1, <1>5, <2>1, ArrayNew DEF Arrays
  <2>3. PICK n : n = [m EXCEPT !.hist = h]
    OBVIOUS
  <2>4. /\ n \in MemRecords /\ n.line = m.line /\ n.end = m.end /\ n.log = m.log
        /\ n.hist = h /\ n.lost = m.lost /\ n.alias = m.alias
    BY <1>1, <2>2, <2>3 DEF MemRecords
  <2>5. Effect(m, argv) = n
    BY <1>5, <2>1, <2>3 DEF Effect
  <2> QED BY <2>2, <2>4, <2>5, BusySame DEF DictStep
<1>6. CASE /\ ~ (argv[1] = "path" /\ Len(argv) = 2)
           /\ ~ (argv[1] = "alias" /\ Aliasing(argv))
           /\ ~ (argv[1] = "unalias" /\ Len(argv) = 2)
           /\ ~ (argv[1] = "history" /\ Len(argv) <= 2 /\ ~m.hist.made)
  <2>1. Effect(m, argv) = m
    BY <1>6 DEF Effect
  <2> QED BY <2>1 DEF DictStep
<1> QED BY <1>2, <1>3, <1>4, <1>5, <1>6

\* A memory with another return code.
LEMMA CodeOK ==
  ASSUME NEW s, NEW m, Busy(m, s), NEW r \in {0, 1}
  PROVE  LET n == [m EXCEPT !.rc = r]
         IN /\ Busy(n, s) /\ n.lost = m.lost /\ n.alias = m.alias /\ n.at = m.at
<1>1. m \in MemRecords
  BY DEF Busy, Buffers
<1>2. PICK n : n = [m EXCEPT !.rc = r]
  OBVIOUS
<1>3. /\ n \in MemRecords /\ n.line = m.line /\ n.end = m.end /\ n.log = m.log
      /\ n.hist = m.hist /\ n.lost = m.lost /\ n.alias = m.alias /\ n.at = m.at
  BY <1>1, <1>2 DEF MemRecords
<1>4. Busy(n, s)
  BY <1>3, BusySame
<1> QED BY <1>2, <1>3, <1>4

\* A line that fails leaves the memory as between two lines.
LEMMA FailedOK ==
  ASSUME NEW s, NEW m, Busy(m, s)
  PROVE  /\ MemOK(Failed(m), s) /\ Failed(m).at = "read"
         /\ Failed(m).lost = m.lost /\ Failed(m).alias = m.alias
<1>1. PICK g : g = [m EXCEPT !.rc = 1]
  OBVIOUS
<1>2. Busy(g, s) /\ g.lost = m.lost /\ g.alias = m.alias
  BY <1>1, CodeOK
<1>3. Failed(m) = Recorded(g)
  BY <1>1 DEF Failed
<1> QED BY <1>2, <1>3, RecordedOK

\* What processCmd makes of a shell that took a line.
LEMMA CommandOK ==
  ASSUME NEW s, NEW m, Busy(m, s), NEW argv \in Seq(Words), argv # <<>>, NEW n \in Command(m, argv)
  PROVE  /\ MemOK(n, s) /\ n.lost = m.lost /\ n.at \in {"read", "fork"}
         /\ DictStep(m.alias, n.alias)
<1>1. CASE argv[1] \in Builtins
  <2>1. PICK r \in Result(m, argv) : n = Recorded([Effect(m, argv) EXCEPT !.rc = r])
    BY <1>1 DEF Command
  <2>2. r \in {0, 1}
    BY <1>1, <2>1, ResultOK
  <2>3. PICK e : e = Effect(m, argv)
    OBVIOUS
  <2>4. Busy(e, s) /\ e.lost = m.lost /\ DictStep(m.alias, e.alias)
    BY <2>3, EffectOK
  <2>5. PICK g : g = [e EXCEPT !.rc = r]
    OBVIOUS
  <2>6. Busy(g, s) /\ g.lost = m.lost /\ DictStep(m.alias, g.alias)
    BY <2>2, <2>4, <2>5, CodeOK
  <2>7. n = Recorded(g)
    BY <2>1, <2>3, <2>5
  <2> QED BY <2>6, <2>7, RecordedOK
<1>2. CASE argv[1] \notin Builtins /\ Found(m, argv[1]) = "none"
  <2>1. n = Failed(m) \/ n = Recorded(m)
    BY <1>2 DEF Command
  <2>2. CASE n = Failed(m)
    BY <2>2, FailedOK DEF DictStep
  <2>3. CASE n = Recorded(m)
    BY <2>3, RecordedOK DEF DictStep
  <2> QED BY <2>1, <2>2, <2>3
<1>3. CASE argv[1] \notin Builtins /\ Found(m, argv[1]) # "none"
  <2>1. m \in MemRecords
    BY DEF Busy, Buffers
  <2>2. n = [m EXCEPT !.at = "fork", !.argv = argv]
    BY <1>3 DEF Command
  <2>3. /\ n \in MemRecords /\ n.line = m.line /\ n.end = m.end /\ n.log = m.log
        /\ n.hist = m.hist /\ n.lost = m.lost /\ n.alias = m.alias /\ n.at = "fork"
    BY <2>1, <2>2 DEF MemRecords, Places
  <2>4. Busy(n, s)
    BY <2>3, BusySame
  <2> QED BY <2>3, <2>4 DEF MemOK, DictStep, Busy
<1> QED BY <1>1, <1>2, <1>3

\* The next line is one of the script; the memory that holds it is busy.
LEMMA FetchedOK ==
  ASSUME IInv, NEW p \in Pids, More(p)
  PROVE  /\ Busy(Fetched(p), script) /\ Fetched(p).at = "read" /\ Fetched(p).lost = mem[p].lost
         /\ Fetched(p).alias = mem[p].alias /\ Fetched(p).rc = mem[p].rc
         /\ Fetched(p).line - 1 = Upcoming(p) /\ Upcoming(p) \in DOMAIN script
         /\ Segments(p) \in Seq(Seq(Words)) /\ FileRead(p) \in 0..Len(script)
<1>1. PICK m \in MemRecords : m = mem[p]
  BY DEF IInv, Typed
<1>2. /\ MemOK(m, script) /\ offset \in 0..Len(script) /\ script \in Seq(Seq(Seq(Words)))
      /\ Len(script) \in Nat /\ DOMAIN script = 1..Len(script)
  BY <1>1 DEF IInv, Typed
<1>3. /\ m.at = "read" /\ m.line \in Nat /\ m.end \in Nat /\ m.log \in Seq(Nat)
      /\ m.end \in {0, Len(script)} /\ m.line \in 1..(m.end + 1)
      /\ Remembers(m, script, Len(m.log)) /\ (m.line <= m.end \/ offset < Len(script))
  BY <1>1, <1>2 DEF MemOK, Buffers, MemRecords, More, Runs, Buffered
<1>4. PICK x : x = Upcoming(p)
  OBVIOUS
<1>5. x \in 1..Len(script) /\ x = IF m.line <= m.end THEN m.line ELSE offset + 1
  BY <1>1, <1>2, <1>3, <1>4 DEF Upcoming, Buffered
<1>6. PICK e : e = IF m.line <= m.end THEN m.end ELSE Len(script)
  OBVIOUS
<1>7. e = Len(script) /\ e \in Nat
  BY <1>2, <1>3, <1>6
<1>8. PICK log : log = Append(m.log, x)
  OBVIOUS
<1>9. /\ log \in Seq(Nat) /\ Len(log) = Len(m.log) + 1 /\ log[Len(log)] = x
      /\ Len(m.log) \in Nat /\ \A i \in 1..Len(m.log) : log[i] = m.log[i]
  BY <1>3, <1>5, <1>8
<1>10. PICK n : n = Fetched(p)
  OBVIOUS
<1>11. n = [m EXCEPT !.line = x + 1, !.end = e, !.log = log]
  BY <1>1, <1>4, <1>6, <1>8, <1>10 DEF Fetched, Buffered
<1>12. x + 1 \in Nat
  BY <1>5
<1>13. /\ n \in MemRecords /\ n.line = x + 1 /\ n.end = e /\ n.log = log /\ n.hist = m.hist
       /\ n.at = "read" /\ n.lost = m.lost /\ n.alias = m.alias /\ n.rc = m.rc
  BY <1>3, <1>7, <1>9, <1>11, <1>12 DEF MemRecords
<1>14. Remembers(n, script, Len(m.log))
  BY <1>3, <1>9, <1>13, RemembersSame
<1>15. Busy(n, script)
  <2>1. Len(n.log) > 0 /\ Len(n.log) - 1 = Len(m.log) /\ n.log[Len(n.log)] = n.line - 1
    BY <1>5, <1>9, <1>13, SMTT(30)
  <2>2. n.line \in 1..(n.end + 1)
    BY <1>5, <1>7, <1>13
  <2> QED BY <1>7, <1>13, <1>14, <2>1, <2>2 DEF Busy, Buffers
<1>16. Segments(p) \in Seq(Seq(Words))
  BY <1>2, <1>4, <1>5 DEF Segments
<1>17. FileRead(p) \in 0..Len(script)
  BY <1>2 DEF FileRead
<1>18. n.line - 1 = x
  BY <1>5, <1>13
<1> QED BY <1>1, <1>2, <1>4, <1>5, <1>10, <1>13, <1>15, <1>16, <1>17, <1>18

\* The offset that is given back stays in the file.
LEMMA RewoundOK ==
  ASSUME NEW s, Len(s) \in Nat, NEW m, Buffers(m, s), NEW o \in 0..Len(s)
  PROVE  Rewound(o, m) \in 0..Len(s)
<1>1. m.end \in Nat /\ m.line \in Nat /\ m.line <= m.end + 1
  BY DEF Buffers, MemRecords
<1> QED BY <1>1 DEF Rewound

-----------------------------------------------------------------------------
(* Steps *)

\* What a step means for the aliases of the shell that was started.
RootStep == proc'[Root].kind = "wsh" => DictStep(mem[Root].alias, mem'[Root].alias)

\* A step of p inside its own memory.
LEMMA LocalStep ==
  ASSUME IInv, NEW p \in Pids, NEW n, Set(p, n), MemOK(n, script),
         script' = script, proc' = proc, fds' \in [Pids -> SUBSET Ends],
         \A q \in Pids : q # p => fds'[q] = fds[q],
         offset' \in 0..Len(script), failures' \in 0..Failures,
         proc[p].kind = "wsh" => KidsOK(n, fds'[p], Children(p)),
         DictStep(mem[p].alias, n.alias)
  PROVE  IInv' /\ RootStep
<1>1. n \in MemRecords
  BY DEF MemOK, Buffers
<1>2. mem' = [mem EXCEPT ![p] = n] /\ mem \in [Pids -> MemRecords]
  BY DEF Set, IInv, Typed
<1>3. mem' \in [Pids -> MemRecords] /\ mem'[p] = n /\ \A q \in Pids : q # p => mem'[q] = mem[q]
  BY <1>1, <1>2
<1>4. \A q \in Pids : Children(q)' = Children(q)
  BY DEF Children
<1>5. Typed' /\ TreeOK'
  BY <1>3 DEF IInv, Typed, TreeOK
<1>6. \A q \in Pids : MemOK(mem'[q], script')
  BY <1>3 DEF IInv
<1>7. ASSUME NEW q \in Pids, proc'[q].kind = "wsh"
      PROVE  KidsOK(mem'[q], fds'[q], Children(q)')
  BY <1>3, <1>4, <1>7 DEF IInv
<1>8. RootStep
  <2>1. Root \in Pids
    BY ShellAssumption
  <2>2. CASE Root = p
    BY <1>3, <2>2 DEF RootStep
  <2>3. CASE Root # p
    BY <1>3, <2>1, <2>3 DEF RootStep, DictStep
  <2> QED BY <2>2, <2>3
<1> QED BY <1>5, <1>6, <1>7, <1>8 DEF IInv

\* A process that ends leaves the children of all others alone.
LEMMA EndedOK ==
  ASSUME Typed, TreeOK, NEW p \in Pids, proc[p].kind \in {"wsh", "prog"}, NEW c \in {0, 1, 139},
         proc' = Ended(p, c)
  PROVE  /\ proc' \in [Pids -> ProcRecords] /\ TreeOK'
         /\ proc'[p].kind \in {"none", "zombie"}
         /\ \A q \in Pids : q # p /\ proc'[q].kind = "wsh" =>
              proc[q].kind = "wsh" /\ Children(q)' = Children(q)
<1>1. PICK r \in [Pids -> ProcRecords] : r = proc
  BY DEF Typed
<1>2. /\ \A q \in Pids : r[q].kind \in Kinds /\ r[q].parent \in Pids \cup {NoPid}
      /\ NoPid \notin Pids /\ Root \in Pids
  BY <1>1, ShellAssumption, ZenonT(40) DEF ProcRecords
<1>0. NoProc \in ProcRecords /\ NoProc.kind = "none" /\ r[p] \in ProcRecords
  BY DEF ProcRecords, NoProc, Kinds
<1>z. PICK y : y = [r[p] EXCEPT !.kind = "zombie", !.code = c]
  OBVIOUS
<1>y. y \in ProcRecords /\ y.kind = "zombie" /\ y.parent = r[p].parent
  BY <1>0, <1>z DEF ProcRecords, Kinds
<1>3. PICK z : z = IF r[p].parent = NoPid /\ p # Root THEN NoProc ELSE y
  OBVIOUS
<1>4. /\ z \in ProcRecords /\ z.kind \in {"none", "zombie"}
      /\ (z.kind = "zombie" => z.parent = r[p].parent)
      /\ (z.kind = "none" <=> r[p].parent = NoPid /\ p # Root)
  BY <1>0, <1>y, <1>3
<1>5. \A q \in Pids : proc'[q] = IF q = p THEN z ELSE IF r[q].parent # p THEN r[q]
                                 ELSE IF r[q].kind = "zombie" THEN NoProc
                                 ELSE [r[q] EXCEPT !.parent = NoPid]
  BY <1>1, <1>z, <1>3 DEF Ended
<1>6. ASSUME NEW q \in Pids
      PROVE  /\ (q # p /\ r[q].parent # p => proc'[q] = r[q])
             /\ (q # p /\ r[q].parent = p => /\ proc'[q].parent = NoPid
                                             /\ proc'[q].kind = IF r[q].kind = "zombie" THEN "none"
                                                                ELSE r[q].kind)
             /\ proc'[q] \in ProcRecords
  <2>1. PICK v \in ProcRecords : v = r[q]
    OBVIOUS
  <2>2. PICK x : x = [v EXCEPT !.parent = NoPid]
    OBVIOUS
  <2>3. x \in ProcRecords /\ x.parent = NoPid /\ x.kind = v.kind
    BY <2>2 DEF ProcRecords
  <2>4. NoProc.parent = NoPid
    BY DEF NoProc
  <2> QED BY <1>0, <1>4, <1>5, <2>1, <2>2, <2>3, <2>4
<1>7. proc' = [q \in Pids |-> proc'[q]]
  BY DEF Ended
<1>8. proc' \in [Pids -> ProcRecords]
  BY <1>6, <1>7
<1>9. proc'[p] = z
  BY <1>5
<1>10. r[p].kind \in {"wsh", "prog"}
  BY <1>1
<1>11. TreeOK'
  <2>1. proc'[Root].parent = NoPid /\ proc'[Root].kind # "none"
    BY <1>1, <1>2, <1>4, <1>6, <1>9 DEF TreeOK
  <2>2. ASSUME NEW q \in Pids, proc'[q].kind # "none", proc'[q].parent # NoPid
        PROVE  /\ proc'[q].parent \in Pids /\ proc'[q].parent # q
               /\ proc'[proc'[q].parent].kind \in {"wsh", "prog"}
    <3>1. proc'[q].parent = r[q].parent /\ r[q].kind # "none" /\ r[q].parent # p
      BY <1>1, <1>4, <1>6, <1>9, <1>10, <2>2 DEF TreeOK
    <3>2. PICK u \in Pids : u = r[q].parent
      BY <1>2, <2>2, <3>1
    <3>3. u # q /\ r[u].kind \in {"wsh", "prog"} /\ u # p
      BY <1>1, <1>2, <2>2, <3>1, <3>2 DEF TreeOK
    <3>4. proc'[u].kind = r[u].kind
      BY <1>6, <3>3
    <3> QED BY <3>1, <3>2, <3>3, <3>4
  <2> QED BY <2>1, <2>2 DEF TreeOK
<1>12. ASSUME NEW q \in Pids, q # p, proc'[q].kind = "wsh"
       PROVE  proc[q].kind = "wsh" /\ Children(q)' = Children(q)
  <2>1. proc[q].kind = "wsh"
    BY <1>1, <1>6, <1>12
  <2>2. ASSUME NEW d \in Pids
        PROVE  proc'[d].parent = q /\ proc'[d].kind # "none"
                 <=> proc[d].parent = q /\ proc[d].kind # "none"
    <3>1. CASE d = p
      BY <1>1, <1>2, <1>4, <1>9, <1>10, <1>12, <3>1
    <3>2. CASE d # p /\ r[d].parent = p
      BY <1>1, <1>2, <1>6, <1>12, <3>2
    <3>3. CASE d # p /\ r[d].parent # p
      BY <1>1, <1>6, <3>3
    <3> QED BY <3>1, <3>2, <3>3
  <2> QED BY <2>1, <2>2 DEF Children
<1> QED BY <1>4, <1>8, <1>9, <1>11, <1>12

\* A process that ends keeps the invariant.
LEMMA EndStep ==
  ASSUME IInv, NEW p \in Pids, proc[p].kind \in {"wsh", "prog"}, NEW c \in {0, 1, 139},
         End(p, c), offset' \in 0..Len(script)
  PROVE  IInv' /\ RootStep
<1>1. /\ proc' = Ended(p, c) /\ mem' = [mem EXCEPT ![p] = Fresh] /\ fds' = [fds EXCEPT ![p] = {}]
      /\ script' = script /\ failures' = failures
  BY DEF End
<1>2. Typed /\ TreeOK /\ script \in Seq(Seq(Seq(Words)))
  BY DEF IInv, Typed
<1>3. /\ proc' \in [Pids -> ProcRecords] /\ TreeOK' /\ proc'[p].kind \in {"none", "zombie"}
      /\ \A q \in Pids : q # p /\ proc'[q].kind = "wsh" =>
           proc[q].kind = "wsh" /\ Children(q)' = Children(q)
  BY <1>1, <1>2, EndedOK
<1>4. MemOK(Fresh, script)
  BY <1>2, FreshOK
<1>5. Fresh \in MemRecords
  BY <1>4 DEF MemOK, Buffers
<1>6. /\ mem' \in [Pids -> MemRecords] /\ mem'[p] = Fresh /\ fds' \in [Pids -> SUBSET Ends]
      /\ \A q \in Pids : q # p => mem'[q] = mem[q] /\ fds'[q] = fds[q]
  BY <1>1, <1>2, <1>5 DEF Typed
<1>7. Typed'
  BY <1>1, <1>2, <1>3, <1>6 DEF Typed
<1>8. \A q \in Pids : MemOK(mem'[q], script')
  BY <1>1, <1>4, <1>6 DEF IInv
<1>9. ASSUME NEW q \in Pids, proc'[q].kind = "wsh"
      PROVE  KidsOK(mem'[q], fds'[q], Children(q)')
  BY <1>3, <1>6, <1>9 DEF IInv
<1>10. RootStep
  <2>1. Root \in Pids
    BY ShellAssumption
  <2> QED BY <1>3, <1>6, <2>1 DEF RootStep, DictStep
<1> QED BY <1>3, <1>7, <1>8, <1>9, <1>10 DEF IInv

\* A child that becomes a program keeps the invariant.
LEMMA BecomesStep ==
  ASSUME IInv, NEW p \in Pids, proc[p].kind = "wsh", Becomes(p, "prog")
  PROVE  IInv' /\ RootStep
<1>1. /\ proc' = [proc EXCEPT ![p].kind = "prog"] /\ mem' = [mem EXCEPT ![p] = Fresh] /\ fds' = fds
      /\ script' = script /\ failures' = failures /\ offset' = offset
  BY DEF Becomes
<1>2. Typed /\ TreeOK /\ script \in Seq(Seq(Seq(Words)))
  BY DEF IInv, Typed
<1>3. /\ proc' \in [Pids -> ProcRecords] /\ proc'[p].kind = "prog" /\ proc'[p].parent = proc[p].parent
      /\ \A q \in Pids : q # p => proc'[q] = proc[q]
  <2>1. PICK x : x = [proc[p] EXCEPT !.kind = "prog"]
    OBVIOUS
  <2>2. proc[p] \in ProcRecords
    BY <1>2 DEF Typed
  <2>3. x \in ProcRecords /\ x.kind = "prog" /\ x.parent = proc[p].parent
    BY <2>1, <2>2 DEF ProcRecords, Kinds
  <2>4. proc' = [proc EXCEPT ![p] = x]
    BY <1>1, <2>1
  <2> QED BY <1>2, <2>3, <2>4 DEF Typed
<1>4. MemOK(Fresh, script)
  BY <1>2, FreshOK
<1>5. Fresh \in MemRecords
  BY <1>4 DEF MemOK, Buffers
<1>6. /\ mem' \in [Pids -> MemRecords] /\ mem'[p] = Fresh
      /\ \A q \in Pids : q # p => mem'[q] = mem[q]
  BY <1>1, <1>2, <1>5 DEF Typed
<1>7. Typed'
  BY <1>1, <1>2, <1>3, <1>6 DEF Typed
<1>8. TreeOK'
  <2>1. proc'[Root].parent = NoPid /\ proc'[Root].kind # "none"
    BY <1>2, <1>3, ShellAssumption DEF TreeOK
  <2>2. ASSUME NEW q \in Pids, proc'[q].kind # "none", proc'[q].parent # NoPid
        PROVE  /\ proc'[q].parent \in Pids /\ proc'[q].parent # q
               /\ proc'[proc'[q].parent].kind \in {"wsh", "prog"}
    <3>1. proc'[q].parent = proc[q].parent /\ proc[q].kind # "none"
      BY <1>3, <2>2
    <3>2. PICK u \in Pids : u = proc[q].parent
      BY <1>2, <2>2, <3>1 DEF TreeOK
    <3>3. u # q /\ proc[u].kind \in {"wsh", "prog"}
      BY <1>2, <2>2, <3>1, <3>2 DEF TreeOK
    <3> QED BY <1>3, <3>1, <3>2, <3>3
  <2> QED BY <2>1, <2>2 DEF TreeOK
<1>9. \A q \in Pids : MemOK(mem'[q], script')
  BY <1>1, <1>4, <1>6 DEF IInv
<1>10. ASSUME NEW q \in Pids, proc'[q].kind = "wsh"
       PROVE  KidsOK(mem'[q], fds'[q], Children(q)')
  <2>1. q # p /\ proc[q].kind = "wsh" /\ mem'[q] = mem[q]
    BY <1>3, <1>6, <1>10
  <2>2. Children(q)' = Children(q)
    <3>1. \A d \in Pids : proc'[d].parent = proc[d].parent /\ (proc'[d].kind # "none" <=> proc[d].kind # "none")
      BY <1>3
    <3> QED BY <3>1 DEF Children
  <2> QED BY <1>1, <2>1, <2>2 DEF IInv
<1>11. RootStep
  <2>1. Root \in Pids
    BY ShellAssumption
  <2> QED BY <1>3, <1>6, <2>1 DEF RootStep, DictStep
<1> QED BY <1>7, <1>8, <1>9, <1>10, <1>11 DEF IInv

\* A shell takes the exit code of a child that ended.
LEMMA FreedStep ==
  ASSUME IInv, NEW p \in Pids, proc[p].kind = "wsh", NEW c \in Children(p), proc[c].kind = "zombie",
         proc' = [proc EXCEPT ![c] = NoProc], NEW n, Set(p, n), MemOK(n, script),
         UNCHANGED <<script, fds, offset, failures>>,
         KidsOK(n, fds[p], Children(p) \ {c}), n.alias = mem[p].alias
  PROVE  IInv' /\ RootStep
<1>1. n \in MemRecords
  BY DEF MemOK, Buffers
<1>2. Typed /\ TreeOK
  BY DEF IInv
<1>3. mem' \in [Pids -> MemRecords] /\ mem'[p] = n /\ \A q \in Pids : q # p => mem'[q] = mem[q]
  BY <1>1, <1>2 DEF Set, Typed
<1>4. c \in Pids /\ proc[c].parent = p /\ Root \in Pids /\ NoPid \notin Pids
  BY ShellAssumption DEF Children
<1>5. c # p /\ c # Root
  BY <1>2, <1>4 DEF TreeOK
<1>6. NoProc \in ProcRecords /\ NoProc.kind = "none"
  BY DEF NoProc, ProcRecords, Kinds
<1>7. /\ proc' \in [Pids -> ProcRecords] /\ proc'[c].kind = "none"
      /\ \A q \in Pids : q # c => proc'[q] = proc[q]
  BY <1>2, <1>4, <1>6 DEF Typed
<1>8. Typed'
  BY <1>2, <1>3, <1>7 DEF Typed
<1>9. TreeOK'
  <2>1. proc'[Root].parent = NoPid /\ proc'[Root].kind # "none"
    BY <1>2, <1>4, <1>5, <1>7 DEF TreeOK
  <2>2. ASSUME NEW q \in Pids, proc'[q].kind # "none", proc'[q].parent # NoPid
        PROVE  /\ proc'[q].parent \in Pids /\ proc'[q].parent # q
               /\ proc'[proc'[q].parent].kind \in {"wsh", "prog"}
    <3>1. proc'[q] = proc[q]
      BY <1>7, <2>2
    <3>2. PICK u \in Pids : u = proc[q].parent
      BY <1>2, <2>2, <3>1 DEF TreeOK
    <3>3. u # q /\ proc[u].kind \in {"wsh", "prog"}
      BY <1>2, <2>2, <3>1, <3>2 DEF TreeOK
    <3> QED BY <1>7, <3>1, <3>2, <3>3
  <2> QED BY <2>1, <2>2 DEF TreeOK
<1>10. \A q \in Pids : MemOK(mem'[q], script')
  BY <1>3 DEF IInv
<1>11. ASSUME NEW q \in Pids, proc'[q].kind = "wsh"
       PROVE  KidsOK(mem'[q], fds'[q], Children(q)')
  <2>1. Children(q)' = IF q = p THEN Children(p) \ {c} ELSE Children(q)
    BY <1>4, <1>7 DEF Children
  <2>2. proc[q].kind = "wsh"
    BY <1>7, <1>11
  <2> QED BY <1>3, <2>1, <2>2 DEF IInv
<1>12. RootStep
  BY <1>3, <1>4 DEF RootStep, DictStep
<1> QED BY <1>8, <1>9, <1>10, <1>11, <1>12 DEF IInv

\* The memory of a shell that forked.
LEMMA ParentOK ==
  ASSUME NEW s, NEW m, MemOK(m, s), NEW l \in {"exec", "segment"}, NEW c \in Pids, NEW f, NEW kids,
         m.at = IF l = "exec" THEN "fork" ELSE "spawn", KidsOK(m, f, kids), c \notin kids,
         l = "segment" => m.i <= Len(m.segs)
  PROVE  LET n == IF l = "exec" THEN [m EXCEPT !.at = "wait"]
                  ELSE [m EXCEPT !.i = @ + 1, !.pids = Append(@, c)]
         IN MemOK(n, s) /\ n.alias = m.alias /\ KidsOK(n, f, kids \cup {c})
<1>1. m \in MemRecords /\ Busy(m, s)
  BY DEF MemOK, Busy, Buffers
<1>2. CASE l = "exec"
  <2>1. PICK n : n = [m EXCEPT !.at = "wait"]
    OBVIOUS
  <2>2. /\ n \in MemRecords /\ n.line = m.line /\ n.end = m.end /\ n.log = m.log
        /\ n.hist = m.hist /\ n.lost = m.lost /\ n.alias = m.alias /\ n.at = "wait"
    BY <1>1, <2>1 DEF MemRecords, Places
  <2>3. MemOK(n, s)
    BY <1>1, <2>2, BusySame DEF MemOK, Busy
  <2>4. f = {} /\ (~m.lost => kids = {})
    BY <1>2 DEF KidsOK
  <2>5. ~n.lost => kids \cup {c} = {c}
    BY <2>2, <2>4
  <2>6. KidsOK(n, f, kids \cup {c})
    BY <2>2, <2>4, <2>5 DEF KidsOK
  <2> QED BY <1>2, <2>1, <2>2, <2>3, <2>6
<1>3. CASE l = "segment"
  <2>1. PICK ps \in Seq(Pids) : ps = m.pids
    BY <1>1 DEF MemRecords
  <2>2. m.i \in Nat /\ m.at = "spawn" /\ m.segs \in Seq(Seq(Words)) /\ Len(m.segs) \in Nat
    BY <1>1, <1>3 DEF MemRecords
  <2>3. PICK qs : qs = Append(ps, c)
    OBVIOUS
  <2>4. /\ qs \in Seq(Pids) /\ Len(qs) = Len(ps) + 1 /\ qs[Len(ps) + 1] = c /\ Len(ps) \in Nat
        /\ \A k \in 1..Len(ps) : qs[k] = ps[k]
    BY <2>3
  <2>15. PICK next \in Nat : next = m.i + 1
    BY <2>2
  <2>5. PICK n : n = [m EXCEPT !.i = next, !.pids = qs]
    OBVIOUS
  <2>6. /\ n \in MemRecords /\ n.line = m.line /\ n.end = m.end /\ n.log = m.log /\ n.segs = m.segs
        /\ n.hist = m.hist /\ n.lost = m.lost /\ n.alias = m.alias /\ n.at = "spawn"
        /\ n.i = next /\ n.pids = qs
    BY <1>1, <2>2, <2>4, <2>5 DEF MemRecords, Places
  <2>7. MemOK(n, s)
    BY <1>1, <2>2, <2>6, BusySame DEF MemOK, Busy
  <2>8. Awaited(m) = {ps[k] : k \in 1..Len(ps)} /\ Awaited(n) = {qs[k] : k \in 1..Len(qs)}
    BY <2>1, <2>2, <2>6 DEF Awaited
  <2>9. Awaited(n) = Awaited(m) \cup {c}
    <3>1. \A k \in 1..Len(qs) : k \in 1..Len(ps) \/ k = Len(ps) + 1
      BY <2>4
    <3>2. \A k \in 1..Len(ps) : k \in 1..Len(qs)
      BY <2>4
    <3>3. Len(ps) + 1 \in 1..Len(qs)
      BY <2>4
    <3> QED BY <2>4, <2>8, <3>1, <3>2, <3>3
  <2>10. /\ Awaited(m) \subseteq kids /\ (~m.lost => kids \subseteq Awaited(m))
         /\ m.i = Len(ps) + 1 /\ m.i <= Len(m.segs) /\ m.segs # <<>>
         /\ \A j, k \in 1..Len(ps) : ps[j] = ps[k] => j = k
    BY <1>3, <2>1, <2>2 DEF KidsOK
  <2>11. \A j, k \in 1..Len(qs) : qs[j] = qs[k] => j = k
    <3>1. \A k \in 1..Len(ps) : ps[k] # c
      BY <2>8, <2>10
    <3>2. \A k \in 1..Len(qs) : k \in 1..Len(ps) \/ k = Len(ps) + 1
      BY <2>4
    <3> QED BY <2>4, <2>10, <3>1, <3>2
  <2>12. n.i = Len(qs) + 1 /\ n.i <= Len(n.segs) + 1
    BY <2>2, <2>4, <2>6, <2>10, <2>15
  <2>13. KidsOK(n, f, kids \cup {c})
    BY <2>6, <2>9, <2>10, <2>11, <2>12 DEF KidsOK
  <2>14. n = IF l = "exec" THEN [m EXCEPT !.at = "wait"]
             ELSE [m EXCEPT !.i = @ + 1, !.pids = Append(@, c)]
    BY <1>3, <2>1, <2>3, <2>5, <2>15
  <2> QED BY <2>6, <2>7, <2>13, <2>14
<1> QED BY <1>2, <1>3

\* A child that is made, for a command or a segment, keeps the invariant.
LEMMA BornStep ==
  ASSUME IInv, NEW p \in Pids, proc[p].kind = "wsh", NEW l \in {"exec", "segment"}, Born(p, l),
         mem[p].at = IF l = "exec" THEN "fork" ELSE "spawn",
         l = "segment" => mem[p].i <= Len(mem[p].segs)
  PROVE  IInv' /\ RootStep
<1>1. PICK c \in Free :
        /\ proc' = [proc EXCEPT ![c] = [kind |-> "wsh", parent |-> p, code |-> 0]]
        /\ mem' = [mem EXCEPT ![c] = [mem[p] EXCEPT !.at = l, !.pids = <<>>],
                              ![p] = IF l = "exec" THEN [mem[p] EXCEPT !.at = "wait"]
                                     ELSE [mem[p] EXCEPT !.i = @ + 1, !.pids = Append(@, c)]]
        /\ fds' = [fds EXCEPT ![c] = fds[p]]
        /\ UNCHANGED <<script, offset, taken, failures>>
  BY DEF Born
<1>2. Typed /\ TreeOK /\ Root \in Pids /\ NoPid \notin Pids
  BY ShellAssumption DEF IInv
<1>3. c \in Pids /\ c # p /\ c # Root /\ proc[c].kind = "none"
  BY <1>1, <1>2 DEF Free, TreeOK
<1>4. PICK m \in MemRecords : m = mem[p]
  BY <1>2 DEF Typed
<1>5. MemOK(m, script) /\ KidsOK(m, fds[p], Children(p)) /\ Busy(m, script)
  BY <1>4 DEF IInv, MemOK
<1>6. PICK u : u = [m EXCEPT !.at = l, !.pids = <<>>]
  OBVIOUS
<1>7. MemOK(u, script) /\ u.at = l /\ u.lost = m.lost /\ u.alias = m.alias
  <2>1. <<>> \in Seq(Pids) /\ l \in Places
    BY DEF Places
  <2>2. /\ u \in MemRecords /\ u.line = m.line /\ u.end = m.end /\ u.log = m.log
        /\ u.hist = m.hist /\ u.lost = m.lost /\ u.alias = m.alias /\ u.at = l
    BY <1>6, <2>1 DEF MemRecords
  <2>3. Busy(u, script)
    BY <1>5, <2>2, BusySame
  <2>4. MemOK(u, script)
    BY <2>2, <2>3 DEF MemOK, Busy
  <2> QED BY <2>2, <2>4
<1>8. PICK n : n = IF l = "exec" THEN [m EXCEPT !.at = "wait"]
                   ELSE [m EXCEPT !.i = @ + 1, !.pids = Append(@, c)]
  OBVIOUS
<1>9. c \notin Children(p)
  BY <1>3 DEF Children
<1>10. MemOK(n, script) /\ n.alias = m.alias /\ KidsOK(n, fds[p], Children(p) \cup {c})
  <2>1. /\ m.at = IF l = "exec" THEN "fork" ELSE "spawn"
        /\ l = "segment" => m.i <= Len(m.segs)
    BY <1>4
  <2>2. LET w == IF l = "exec" THEN [m EXCEPT !.at = "wait"]
                 ELSE [m EXCEPT !.i = @ + 1, !.pids = Append(@, c)]
        IN MemOK(w, script) /\ w.alias = m.alias /\ KidsOK(w, fds[p], Children(p) \cup {c})
    BY <1>3, <1>5, <1>9, <2>1, ParentOK
  <2> QED BY <1>8, <2>2
<1>11. u \in MemRecords /\ n \in MemRecords
  BY <1>7, <1>10 DEF MemOK, Buffers
<1>12. /\ mem' \in [Pids -> MemRecords] /\ mem'[p] = n /\ mem'[c] = u
       /\ \A q \in Pids : q # p /\ q # c => mem'[q] = mem[q]
  <2>1. mem' = [mem EXCEPT ![c] = u, ![p] = n]
    BY <1>1, <1>4, <1>6, <1>8
  <2> QED BY <1>2, <1>3, <1>11, <2>1 DEF Typed
<1>13. /\ fds' \in [Pids -> SUBSET Ends] /\ fds'[c] = fds[p]
       /\ \A q \in Pids : q # c => fds'[q] = fds[q]
  BY <1>1, <1>2, <1>3 DEF Typed
<1>14. PICK x : x = [kind |-> "wsh", parent |-> p, code |-> 0]
  OBVIOUS
<1>15. x \in ProcRecords /\ x.kind = "wsh" /\ x.parent = p
  BY <1>14 DEF ProcRecords, Kinds
<1>16. /\ proc' \in [Pids -> ProcRecords] /\ proc'[c] = x
       /\ \A q \in Pids : q # c => proc'[q] = proc[q]
  BY <1>1, <1>2, <1>3, <1>14, <1>15 DEF Typed
<1>17. Typed'
  BY <1>1, <1>2, <1>12, <1>13, <1>16 DEF Typed
<1>18. TreeOK'
  <2>1. proc'[Root].parent = NoPid /\ proc'[Root].kind # "none"
    BY <1>2, <1>3, <1>16 DEF TreeOK
  <2>2. ASSUME NEW q \in Pids, proc'[q].kind # "none", proc'[q].parent # NoPid
        PROVE  /\ proc'[q].parent \in Pids /\ proc'[q].parent # q
               /\ proc'[proc'[q].parent].kind \in {"wsh", "prog"}
    <3>1. CASE q = c
      BY <1>3, <1>15, <1>16, <3>1
    <3>2. CASE q # c
      <4>1. proc'[q] = proc[q]
        BY <1>16, <3>2
      <4>2. PICK v \in Pids : v = proc[q].parent
        BY <1>2, <2>2, <4>1 DEF TreeOK
      <4>3. v # q /\ proc[v].kind \in {"wsh", "prog"}
        BY <1>2, <2>2, <4>1, <4>2 DEF TreeOK
      <4> QED BY <1>3, <1>16, <4>1, <4>2, <4>3
    <3> QED BY <3>1, <3>2
  <2> QED BY <2>1, <2>2 DEF TreeOK
<1>19. \A q \in Pids : MemOK(mem'[q], script')
  BY <1>1, <1>7, <1>10, <1>12 DEF IInv
<1>20. ASSUME NEW q \in Pids, proc'[q].kind = "wsh"
       PROVE  KidsOK(mem'[q], fds'[q], Children(q)')
  <2>1. CASE q = c
    <3>1. Children(c)' = {}
      <4>1. \A d \in Pids : proc[d].kind # "none" => proc[d].parent # c
        BY <1>2, <1>3 DEF TreeOK
      <4> QED BY <1>3, <1>15, <1>16, <4>1 DEF Children
    <3>2. l = "exec" => fds[p] = {}
      BY <1>4, <1>5 DEF KidsOK
    <3>3. KidsOK(u, fds[p], {})
      BY <1>7, <3>2 DEF KidsOK
    <3> QED BY <1>12, <1>13, <2>1, <3>1, <3>3
  <2>2. CASE q = p
    <3>1. Children(p)' = Children(p) \cup {c}
      BY <1>3, <1>15, <1>16 DEF Children
    <3> QED BY <1>3, <1>10, <1>12, <1>13, <2>2, <3>1
  <2>3. CASE q # c /\ q # p
    <3>1. Children(q)' = Children(q)
      BY <1>3, <1>15, <1>16, <2>3 DEF Children
    <3> QED BY <1>12, <1>13, <1>16, <1>20, <2>3, <3>1 DEF IInv
  <2> QED BY <2>1, <2>2, <2>3
<1>21. RootStep
  BY <1>2, <1>3, <1>4, <1>10, <1>12 DEF RootStep, DictStep
<1> QED BY <1>17, <1>18, <1>19, <1>20, <1>21 DEF IInv

-----------------------------------------------------------------------------
(* Every action keeps the invariant, and the aliases as they should be *)

\* What is known of a shell at place l.
LEMMA AtPlace ==
  ASSUME IInv, NEW p \in Pids, NEW l, Runs(p, l)
  PROVE  /\ proc[p].kind = "wsh" /\ mem[p].at = l /\ mem[p] \in MemRecords
         /\ MemOK(mem[p], script) /\ Buffers(mem[p], script)
         /\ KidsOK(mem[p], fds[p], Children(p))
         /\ fds \in [Pids -> SUBSET Ends] /\ offset \in 0..Len(script) /\ Len(script) \in Nat
         /\ script \in Seq(Seq(Seq(Words))) /\ failures \in 0..Failures /\ Failures \in Nat
BY ShellAssumption DEF IInv, Typed, Runs, MemOK

\* The failing calls stay within their bound.
LEMMA CallFailsOK == IInv /\ CallFails => failures' \in 0..Failures
BY ShellAssumption DEF IInv, Typed, CallFails

\* Between commands there are no children.
LEMMA IdleKids ==
  ASSUME NEW m, NEW n, NEW f, NEW kids, KidsOK(m, f, kids), m.at \in {"read", "fork", "exec"},
         n.at \in {"read", "fork", "exec"}, n.lost = m.lost
  PROVE  KidsOK(n, f, kids)
BY DEF KidsOK

\* The end of the script keeps the invariant.
LEMMA AtEofStep ==
  ASSUME IInv, NEW p \in Pids, AtEof(p)
  PROVE  IInv' /\ RootStep
<1>1. Runs(p, "read") /\ End(p, mem[p].rc) /\ offset' = Rewound(offset, mem[p])
  BY DEF AtEof, Exit
<1>2. mem[p].rc \in {0, 1, 139}
  BY <1>1, AtPlace DEF MemRecords
<1>3. offset' \in 0..Len(script)
  BY <1>1, AtPlace, RewoundOK
<1>4. proc[p].kind = "wsh"
  BY <1>1, AtPlace
<1> QED BY <1>1, <1>2, <1>3, <1>4, EndStep

\* A line without a bar.
LEMMA OneSegment ==
  ASSUME IInv, NEW p \in Pids, More(p), Len(Segments(p)) = 1
  PROVE  Segments(p)[1] \in Seq(Words)
<1>1. PICK segs \in Seq(Seq(Words)) : segs = Segments(p)
  BY FetchedOK
<1>2. 1 \in DOMAIN segs
  BY <1>1
<1>3. segs[1] \in Seq(Words)
  BY <1>2
<1> QED BY <1>1, <1>3

\* Reading a line, remembering it and executing it if it is a builtin keeps the invariant.
LEMMA LineStep ==
  ASSUME IInv, NEW p \in Pids, Line(p)
  PROVE  IInv' /\ RootStep
<1>1. /\ More(p) /\ Runs(p, "read") /\ Len(Segments(p)) = 1 /\ offset' = FileRead(p)
      /\ UNCHANGED <<script, proc, fds, failures>>
  BY DEF Line, Take, More
<1>2. PICK m : m = Fetched(p)
  OBVIOUS
<1>3. /\ Busy(m, script) /\ m.at = "read" /\ m.lost = mem[p].lost /\ m.alias = mem[p].alias
      /\ FileRead(p) \in 0..Len(script) /\ m \in MemRecords
  BY <1>1, <1>2, FetchedOK DEF Busy, Buffers
<1>4. PICK argv \in Seq(Words) : argv = Segments(p)[1]
  BY <1>1, OneSegment
<1>5. \E n : /\ Set(p, n) /\ MemOK(n, script) /\ n.lost = mem[p].lost /\ n.at \in {"read", "fork"}
             /\ DictStep(mem[p].alias, n.alias)
  <2>1. CASE argv = BadQuote
    <3>1. Set(p, Failed(m))
      BY <1>2, <1>4, <2>1, ShellAssumption DEF Line
    <3> QED BY <1>3, <3>1, FailedOK DEF DictStep
  <2>2. CASE argv # BadQuote /\ argv = <<>>
    <3>1. Set(p, Recorded(m))
      BY <1>2, <1>4, <2>2 DEF Line
    <3> QED BY <1>3, <3>1, RecordedOK DEF DictStep
  <2>3. CASE argv # BadQuote /\ argv # <<>>
    <3>1. PICK full : full = searchAlias(m, argv)
      OBVIOUS
    <3>2. full # <<>> /\ \E n \in Command(m, full) : Set(p, n)
      BY <1>2, <1>4, <2>3, <3>1 DEF Line
    <3>3. PICK n \in Command(m, full) : Set(p, n)
      BY <3>2
    <3>4. full \in Seq(Words)
      BY <1>3, <3>1, SearchOK
    <3>5. /\ MemOK(n, script) /\ n.lost = m.lost /\ n.at \in {"read", "fork"}
          /\ DictStep(m.alias, n.alias)
      BY <1>3, <3>2, <3>4, CommandOK
    <3> QED BY <1>3, <3>3, <3>5
  <2> QED BY <2>1, <2>2, <2>3
<1>6. PICK n : /\ Set(p, n) /\ MemOK(n, script) /\ n.lost = mem[p].lost /\ n.at \in {"read", "fork"}
               /\ DictStep(mem[p].alias, n.alias)
  BY <1>5
<1>7. KidsOK(n, fds[p], Children(p))
  BY <1>1, <1>6, AtPlace, IdleKids
<1>8. /\ fds' \in [Pids -> SUBSET Ends] /\ failures' \in 0..Failures
      /\ \A q \in Pids : q # p => fds'[q] = fds[q]
  BY <1>1, AtPlace
<1> QED BY <1>1, <1>3, <1>6, <1>7, <1>8, LocalStep

\* A shell that leaves by exit keeps the invariant.
LEMMA LeaveStep ==
  ASSUME IInv, NEW p \in Pids, Leave(p)
  PROVE  IInv' /\ RootStep
<1>1. More(p) /\ Runs(p, "read")
  BY DEF Leave, Take, More
<1>2. /\ Busy(Fetched(p), script) /\ FileRead(p) \in 0..Len(script)
      /\ Buffers(Fetched(p), script) /\ Len(script) \in Nat
  BY <1>1, FetchedOK, AtPlace DEF Busy
<1>3. proc[p].kind = "wsh" /\ mem[p].rc \in {0, 1, 139}
  BY <1>1, AtPlace DEF MemRecords
<1>4. CASE End(p, mem[p].rc) /\ offset' = Rewound(FileRead(p), Fetched(p))
  <2>1. offset' \in 0..Len(script)
    BY <1>2, <1>4, RewoundOK
  <2> QED BY <1>3, <1>4, <2>1, EndStep
<1>5. CASE End(p, 139) /\ offset' = FileRead(p)
  BY <1>2, <1>3, <1>5, EndStep
<1> QED BY <1>4, <1>5 DEF Leave

\* A command that failed in the shell.
LEMMA FailedStep ==
  ASSUME IInv, NEW p \in Pids, NEW l \in {"fork", "exec"}, Runs(p, l), Set(p, Failed(mem[p])),
         UNCHANGED <<script, proc, fds, offset>>, failures' \in 0..Failures
  PROVE  IInv' /\ RootStep
<1>1. PICK m : m = mem[p]
  OBVIOUS
<1>2. m.at = l /\ MemOK(m, script) /\ KidsOK(m, fds[p], Children(p))
  BY <1>1, AtPlace
<1>3. Busy(m, script)
  BY <1>2 DEF MemOK
<1>4. PICK n : n = Failed(m)
  OBVIOUS
<1>5. MemOK(n, script) /\ n.at = "read" /\ n.lost = m.lost /\ n.alias = m.alias
  BY <1>3, <1>4, FailedOK
<1>6. KidsOK(n, fds[p], Children(p))
  BY <1>2, <1>5, IdleKids
<1>7. DictStep(mem[p].alias, n.alias)
  BY <1>1, <1>5 DEF DictStep
<1>8. /\ fds' \in [Pids -> SUBSET Ends] /\ offset' \in 0..Len(script)
      /\ \A q \in Pids : q # p => fds'[q] = fds[q]
  BY AtPlace
<1> QED BY <1>1, <1>4, <1>5, <1>6, <1>7, <1>8, LocalStep

\* fork in execCommand, failing or not, keeps the invariant.
LEMMA ForkStep ==
  ASSUME IInv, NEW p \in Pids, Fork(p)
  PROVE  IInv' /\ RootStep
<1>1. Runs(p, "fork") /\ mem[p].at = "fork" /\ proc[p].kind = "wsh"
  BY AtPlace DEF Fork, Runs
<1>2. CASE Born(p, "exec")
  BY <1>1, <1>2, BornStep
<1>3. CASE /\ CallFails /\ Set(p, Failed(mem[p]))
           /\ UNCHANGED <<script, proc, fds, offset, taken>>
  BY <1>1, <1>3, CallFailsOK, FailedStep
<1> QED BY <1>2, <1>3 DEF Fork

\* execv in the child, failing or not, keeps the invariant.
LEMMA ExecStep ==
  ASSUME IInv, NEW p \in Pids, Exec(p)
  PROVE  IInv' /\ RootStep
<1>1. Runs(p, "exec") /\ proc[p].kind = "wsh" /\ failures \in 0..Failures
  BY AtPlace DEF Exec
<1>2. CASE Becomes(p, "prog")
  BY <1>1, <1>2, BecomesStep
<1>3. CASE /\ Set(p, Failed(mem[p]))
           /\ UNCHANGED <<script, proc, fds, offset, taken, failures>>
  BY <1>1, <1>3, FailedStep
<1> QED BY <1>2, <1>3 DEF Exec

\* waitpid in execCommand keeps the invariant.
LEMMA WaitStep ==
  ASSUME IInv, NEW p \in Pids, Wait(p)
  PROVE  IInv' /\ RootStep
<1>1. /\ Runs(p, "wait") /\ Set(p, Recorded(mem[p]))
      /\ UNCHANGED <<script, fds, offset, failures>>
  BY DEF Wait
<1>2. PICK c \in Zombies(p) : proc' = [proc EXCEPT ![c] = NoProc]
  BY DEF Wait
<1>3. c \in Children(p) /\ proc[c].kind = "zombie"
  BY <1>2 DEF Zombies
<1>4. PICK m : m = mem[p]
  OBVIOUS
<1>5. m.at = "wait" /\ MemOK(m, script) /\ KidsOK(m, fds[p], Children(p)) /\ proc[p].kind = "wsh"
  BY <1>1, <1>4, AtPlace
<1>6. Busy(m, script)
  BY <1>5 DEF MemOK
<1>7. PICK n : n = Recorded(m)
  OBVIOUS
<1>8. MemOK(n, script) /\ n.at = "read" /\ n.lost = m.lost /\ n.alias = m.alias
  BY <1>6, <1>7, RecordedOK
<1>9. KidsOK(n, fds[p], Children(p) \ {c})
  <2>1. fds[p] = {}
    BY <1>5 DEF KidsOK
  <2>2. ~m.lost => Children(p) \ {c} = {}
    BY <1>3, <1>5 DEF KidsOK
  <2> QED BY <1>8, <2>1, <2>2 DEF KidsOK
<1> QED BY <1>1, <1>2, <1>3, <1>4, <1>5, <1>7, <1>8, <1>9, FreedStep

\* The ends of the pipes between n segments.
LEMMA PipeEndsOK ==
  ASSUME NEW p \in Pids, mem[p].line \in Nat, NEW n \in Nat
  PROVE  PipeEnds(p, n) \subseteq Ends
<1>1. \A k \in 1..(n - 1) : <<p, mem[p].line, k>> \in Pids \X Nat \X Nat
  OBVIOUS
<1> QED BY <1>1 DEF PipeEnds, Ends

\* A pipeline that is refused, or for which there are no pipes.
LEMMA RefusedOK ==
  ASSUME IInv, NEW p \in Pids, More(p), Len(Segments(p)) > 1, NEW n,
         n = [Fetched(p) EXCEPT !.rc = 1]
  PROVE  /\ MemOK(n, script) /\ n.alias = mem[p].alias
         /\ KidsOK(n, fds[p], Children(p))
<1>1. PICK m : m = Fetched(p)
  OBVIOUS
<1>2. /\ Busy(m, script) /\ m.at = "read" /\ m.lost = mem[p].lost /\ m.alias = mem[p].alias
      /\ m.line - 1 = Upcoming(p) /\ m \in MemRecords
  BY <1>1, FetchedOK DEF Busy, Buffers
<1>3. /\ n \in MemRecords /\ n.line = m.line /\ n.end = m.end /\ n.log = m.log
      /\ n.hist = m.hist /\ n.lost = m.lost /\ n.alias = m.alias /\ n.at = m.at
  BY <1>1, <1>2 DEF MemRecords
<1>4. Busy(n, script)
  BY <1>2, <1>3, BusySame
<1>5. Len(script[n.line - 1]) # 1
  <2>1. PICK segs \in Seq(Seq(Words)) : segs = Segments(p)
    BY FetchedOK
  <2>4. PICK l \in Nat : l = Len(segs) /\ l > 1
    BY <2>1
  <2>2. Len(segs) # 1
    BY <2>4
  <2>3. Segments(p) = script[n.line - 1]
    BY <1>2, <1>3 DEF Segments
  <2> QED BY <2>1, <2>2, <2>3
<1>6. MemOK(n, script)
  BY <1>2, <1>3, <1>4, <1>5, SkippedOK
<1>7. mem[p].at = "read" /\ KidsOK(mem[p], fds[p], Children(p))
  BY AtPlace DEF More, Runs
<1>8. KidsOK(n, fds[p], Children(p))
  BY <1>2, <1>3, <1>7, IdleKids
<1> QED BY <1>2, <1>3, <1>6, <1>8

\* A pipeline whose first segment is to be forked.
LEMMA PipelineOK ==
  ASSUME IInv, NEW p \in Pids, More(p), Len(Segments(p)) > 1, NEW n, NEW segs,
         segs = [k \in DOMAIN Segments(p) |-> searchAlias(Fetched(p), Segments(p)[k])],
         n = [Fetched(p) EXCEPT !.at = "spawn", !.i = 1, !.status = 0, !.pids = <<>>, !.segs = segs]
  PROVE  /\ MemOK(n, script) /\ n.alias = mem[p].alias
         /\ \A f : KidsOK(n, f, Children(p))
<1>1. PICK m : m = Fetched(p)
  OBVIOUS
<1>2. /\ Busy(m, script) /\ m.at = "read" /\ m.lost = mem[p].lost /\ m.alias = mem[p].alias
      /\ m.line - 1 = Upcoming(p) /\ m \in MemRecords
  BY <1>1, FetchedOK DEF Busy, Buffers
<1>3. PICK line \in Seq(Seq(Words)) : line = Segments(p)
  BY FetchedOK
<1>4. Len(line) \in Nat /\ Len(line) > 1 /\ DOMAIN line = 1..Len(line)
  BY <1>3
<1>5. segs \in Seq(Seq(Words)) /\ Len(segs) = Len(line)
  <2>1. ASSUME NEW k \in 1..Len(line) PROVE searchAlias(m, line[k]) \in Seq(Words)
    <3>1. line[k] \in Seq(Words)
      BY <1>3
    <3> QED BY <1>2, <3>1, SearchOK
  <2>2. segs = [k \in 1..Len(line) |-> searchAlias(m, line[k])]
    BY <1>1, <1>3, <1>4
  <2>3. segs \in [1..Len(line) -> Seq(Words)]
    BY <2>1, <2>2
  <2> QED BY <1>4, <2>3
<1>6. <<>> \in Seq(Pids) /\ Len(<<>>) = 0
  OBVIOUS
<1>7. PICK ps : ps = <<>>
  OBVIOUS
<1>8. /\ n \in MemRecords /\ n.line = m.line /\ n.end = m.end /\ n.log = m.log /\ n.hist = m.hist
      /\ n.lost = m.lost /\ n.alias = m.alias /\ n.at = "spawn" /\ n.i = 1 /\ n.segs = segs
      /\ n.pids = ps
  <2>1. PICK a : a = [m EXCEPT !.at = "spawn", !.i = 1, !.status = 0]
    OBVIOUS
  <2>2. /\ a \in MemRecords /\ a.line = m.line /\ a.end = m.end /\ a.log = m.log
        /\ a.hist = m.hist /\ a.lost = m.lost /\ a.alias = m.alias /\ a.at = "spawn" /\ a.i = 1
    BY <1>2, <2>1 DEF MemRecords, Places
  <2>3. n = [a EXCEPT !.pids = ps, !.segs = segs]
    BY <1>1, <1>7, <2>1
  <2>4. ps \in Seq(Pids)
    BY <1>6, <1>7
  <2> QED BY <1>5, <2>2, <2>3, <2>4, ZenonT(40) DEF MemRecords
<1>9. Busy(n, script)
  BY <1>2, <1>8, BusySame
<1>10. Len(script[n.line - 1]) # 1
  <2>1. Segments(p) = script[n.line - 1]
    BY <1>2, <1>8 DEF Segments
  <2> QED BY <1>3, <1>4, <2>1
<1>11. MemOK(n, script)
  BY <1>8, <1>9, <1>10 DEF MemOK, Busy
<1>12. mem[p].at = "read" /\ KidsOK(mem[p], fds[p], Children(p))
  BY AtPlace DEF More, Runs
<1>13. Len(n.pids) = 0 /\ Len(n.segs) > 1 /\ Len(n.segs) \in Nat /\ n.segs # <<>>
  BY <1>4, <1>5, <1>6, <1>7, <1>8
<1>14. Awaited(n) = {}
  BY <1>8, <1>13 DEF Awaited
<1>15. ~n.lost => Children(p) = {}
  BY <1>2, <1>8, <1>12 DEF KidsOK
<1>16. ASSUME NEW f PROVE KidsOK(n, f, Children(p))
  <2>1. n.i = Len(n.pids) + 1 /\ n.i <= Len(n.segs) + 1 /\ \A j \in 1..Len(n.pids) : FALSE
    BY <1>8, <1>13
  <2> QED BY <1>8, <1>13, <1>14, <1>15, <2>1 DEF KidsOK
<1> QED BY <1>2, <1>8, <1>11, <1>16

\* The start of runPipe, which opens the pipes, keeps the invariant.
LEMMA PipelineStep ==
  ASSUME IInv, NEW p \in Pids, Pipeline(p)
  PROVE  IInv' /\ RootStep
<1>1. /\ More(p) /\ Runs(p, "read") /\ Len(Segments(p)) > 1 /\ offset' = FileRead(p)
      /\ UNCHANGED <<script, proc>>
  BY DEF Pipeline, Take, More
<1>2. FileRead(p) \in 0..Len(script)
  BY <1>1, FetchedOK
<1>3. CASE /\ Set(p, [Fetched(p) EXCEPT !.rc = 1]) /\ UNCHANGED fds
           /\ failures' = failures \/ CallFails
  <2>1. PICK n : n = [Fetched(p) EXCEPT !.rc = 1]
    OBVIOUS
  <2>2. MemOK(n, script) /\ n.alias = mem[p].alias /\ KidsOK(n, fds[p], Children(p))
    BY <1>1, <2>1, RefusedOK
  <2>3. DictStep(mem[p].alias, n.alias)
    BY <2>2 DEF DictStep
  <2>4. /\ fds' \in [Pids -> SUBSET Ends] /\ failures' \in 0..Failures
        /\ \A q \in Pids : q # p => fds'[q] = fds[q]
    BY <1>1, <1>3, AtPlace, CallFailsOK
  <2> QED BY <1>1, <1>2, <1>3, <2>1, <2>2, <2>3, <2>4, LocalStep
<1>4. CASE /\ fds' = [fds EXCEPT ![p] = PipeEnds(p, Len(Segments(p)))] /\ failures' = failures
           /\ Set(p, [Fetched(p) EXCEPT !.at = "spawn", !.i = 1, !.status = 0, !.pids = <<>>,
                        !.segs = [k \in DOMAIN Segments(p) |->
                                    searchAlias(Fetched(p), Segments(p)[k])]])
  <2>1. PICK segs : segs = [k \in DOMAIN Segments(p) |-> searchAlias(Fetched(p), Segments(p)[k])]
    OBVIOUS
  <2>2. PICK n : n = [Fetched(p) EXCEPT !.at = "spawn", !.i = 1, !.status = 0, !.pids = <<>>,
                                        !.segs = segs]
    OBVIOUS
  <2>3. MemOK(n, script) /\ n.alias = mem[p].alias /\ KidsOK(n, fds'[p], Children(p))
    BY <1>1, <2>1, <2>2, PipelineOK
  <2>4. Set(p, n)
    BY <1>4, <2>1, <2>2
  <2>5. DictStep(mem[p].alias, n.alias)
    BY <2>3 DEF DictStep
  <2>6. PipeEnds(p, Len(Segments(p))) \subseteq Ends
    <3>1. Len(Segments(p)) \in Nat
      BY <1>1, FetchedOK
    <3>2. mem[p].line \in Nat
      BY <1>1, AtPlace DEF MemRecords
    <3> QED BY <3>1, <3>2, PipeEndsOK
  <2>7. /\ fds' \in [Pids -> SUBSET Ends] /\ failures' \in 0..Failures
        /\ \A q \in Pids : q # p => fds'[q] = fds[q]
    BY <1>1, <1>4, <2>6, AtPlace
  <2> QED BY <1>1, <1>2, <2>3, <2>4, <2>5, <2>7, LocalStep
<1> QED BY <1>3, <1>4 DEF Pipeline

\* Making the child of a segment, or failing to, keeps the invariant.
LEMMA SpawnStep ==
  ASSUME IInv, NEW p \in Pids, Spawn(p)
  PROVE  IInv' /\ RootStep
<1>1. Runs(p, "spawn") /\ ~Forked(p)
  BY DEF Spawn
<1>2. PICK m \in MemRecords : m = mem[p]
  BY <1>1, AtPlace
<1>3. /\ m.at = "spawn" /\ MemOK(m, script) /\ KidsOK(m, fds[p], Children(p))
      /\ proc[p].kind = "wsh"
  BY <1>1, <1>2, AtPlace
<1>4. /\ m.i \in Nat /\ Len(m.segs) \in Nat /\ Len(m.pids) \in Nat /\ m.i <= Len(m.segs)
      /\ m.i = Len(m.pids) + 1
  BY <1>1, <1>2, <1>3, SMTT(30) DEF MemRecords, Forked, KidsOK
<1>5. CASE Born(p, "segment")
  BY <1>2, <1>3, <1>4, <1>5, BornStep
<1>6. CASE /\ CallFails
           /\ Set(p, [Dropped(mem[p]) EXCEPT !.rc = 1, !.lost = @ \/ mem[p].i > 1])
           /\ fds' = [fds EXCEPT ![p] = {}]
           /\ UNCHANGED <<script, proc, offset, taken>>
  <2>1. PICK d : d = Dropped(m)
    OBVIOUS
  <2>2. /\ d \in MemRecords /\ d.line = m.line /\ d.end = m.end /\ d.log = m.log
        /\ d.hist = m.hist /\ d.lost = m.lost /\ d.alias = m.alias /\ d.at = "read"
    <3>1. <<>> \in Seq(Pids) /\ <<>> \in Seq(Seq(Words)) /\ "read" \in Places
      BY DEF Places
    <3> QED BY <2>1, <3>1 DEF Dropped, MemRecords
  <2>3. PICK lost : lost = (m.lost \/ m.i > 1)
    OBVIOUS
  <2>4. lost \in BOOLEAN
    BY <2>3
  <2>5. PICK n : n = [d EXCEPT !.rc = 1, !.lost = lost]
    OBVIOUS
  <2>6. /\ n \in MemRecords /\ n.line = m.line /\ n.end = m.end /\ n.log = m.log
        /\ n.hist = m.hist /\ n.lost = lost /\ n.alias = m.alias /\ n.at = "read"
    BY <2>2, <2>4, <2>5 DEF MemRecords
  <2>7. Set(p, n)
    BY <1>2, <1>6, <2>1, <2>2, <2>3, <2>5 DEF MemRecords
  <2>8. MemOK(n, script)
    <3>1. Busy(m, script) /\ Len(script[m.line - 1]) # 1
      BY <1>3 DEF MemOK
    <3>2. Busy(n, script)
      BY <2>6, <3>1, BusySame
    <3> QED BY <2>6, <3>1, <3>2, SkippedOK
  <2>9. KidsOK(n, {}, Children(p))
    <3>1. ASSUME ~lost PROVE Children(p) = {}
      <4>1. ~m.lost /\ Len(m.pids) = 0
        <5>1. ~ (m.lost \/ m.i > 1)
          BY <2>3, <3>1
        <5> QED BY <1>4, <5>1
      <4>2. Awaited(m) = {}
        BY <1>3, <4>1 DEF Awaited
      <4> QED BY <1>3, <4>1, <4>2 DEF KidsOK
    <3> QED BY <2>6, <3>1 DEF KidsOK
  <2>10. DictStep(mem[p].alias, n.alias)
    BY <1>2, <2>6 DEF DictStep
  <2>11. /\ fds' \in [Pids -> SUBSET Ends] /\ offset' \in 0..Len(script) /\ fds'[p] = {}
         /\ \A q \in Pids : q # p => fds'[q] = fds[q]
    BY <1>1, <1>6, AtPlace
  <2> QED BY <1>6, <2>7, <2>8, <2>9, <2>10, <2>11, CallFailsOK, LocalStep
<1> QED BY <1>5, <1>6 DEF Spawn

\* Closing the pipe ends in the shell keeps the invariant.
LEMMA CloseAllStep ==
  ASSUME IInv, NEW p \in Pids, CloseAll(p)
  PROVE  IInv' /\ RootStep
<1>1. /\ Runs(p, "spawn") /\ Forked(p) /\ Set(p, [mem[p] EXCEPT !.at = "reap", !.i = 1])
      /\ fds' = [fds EXCEPT ![p] = {}] /\ UNCHANGED <<script, proc, offset, failures>>
  BY DEF CloseAll
<1>2. PICK m \in MemRecords : m = mem[p]
  BY <1>1, AtPlace
<1>3. m.at = "spawn" /\ MemOK(m, script) /\ KidsOK(m, fds[p], Children(p))
  BY <1>1, <1>2, AtPlace
<1>4. PICK n : n = [m EXCEPT !.at = "reap", !.i = 1]
  OBVIOUS
<1>5. /\ n \in MemRecords /\ n.line = m.line /\ n.end = m.end /\ n.log = m.log /\ n.pids = m.pids
      /\ n.hist = m.hist /\ n.lost = m.lost /\ n.alias = m.alias /\ n.at = "reap" /\ n.i = 1
  BY <1>4 DEF MemRecords, Places
<1>6. MemOK(n, script)
  <2>1. Busy(m, script) /\ Len(script[m.line - 1]) # 1
    BY <1>3 DEF MemOK
  <2>2. Busy(n, script)
    BY <1>5, <2>1, BusySame
  <2> QED BY <1>5, <2>1, <2>2 DEF MemOK, Busy
<1>7. KidsOK(n, {}, Children(p))
  <2>1. /\ m.i \in Nat /\ Len(m.segs) \in Nat /\ Len(m.pids) \in Nat /\ m.i > Len(m.segs)
        /\ m.i = Len(m.pids) + 1 /\ m.segs \in Seq(Seq(Words)) /\ m.segs # <<>>
    BY <1>1, <1>2, <1>3 DEF MemRecords, Forked, KidsOK
  <2>2. Len(m.segs) # 0
    BY <2>1
  <2>3. n.i \in 1..Len(n.pids)
    BY <1>5, <2>1, <2>2
  <2>4. Awaited(n) = Awaited(m)
    BY <1>3, <1>5 DEF Awaited
  <2> QED BY <1>3, <1>5, <2>3, <2>4 DEF KidsOK
<1>8. DictStep(mem[p].alias, n.alias)
  BY <1>2, <1>5 DEF DictStep
<1>9. /\ fds' \in [Pids -> SUBSET Ends] /\ fds'[p] = {} /\ offset' \in 0..Len(script)
      /\ failures' \in 0..Failures /\ \A q \in Pids : q # p => fds'[q] = fds[q]
  BY <1>1, AtPlace
<1> QED BY <1>1, <1>2, <1>4, <1>6, <1>7, <1>8, <1>9, LocalStep

\* A segment that takes its two pipe ends and closes the others keeps the invariant.
LEMMA RedirectStep ==
  ASSUME IInv, NEW p \in Pids, Redirect(p)
  PROVE  IInv' /\ RootStep
<1>1. /\ Runs(p, "segment") /\ Set(p, [mem[p] EXCEPT !.at = "run"])
      /\ fds' = [fds EXCEPT ![p] = Own(p)] /\ UNCHANGED <<script, proc, offset, failures>>
  BY DEF Redirect
<1>2. PICK m \in MemRecords : m = mem[p]
  BY <1>1, AtPlace
<1>3. m.at = "segment" /\ MemOK(m, script) /\ KidsOK(m, fds[p], Children(p))
  BY <1>1, <1>2, AtPlace
<1>4. PICK n : n = [m EXCEPT !.at = "run"]
  OBVIOUS
<1>5. /\ n \in MemRecords /\ n.line = m.line /\ n.end = m.end
      /\ n.lost = m.lost /\ n.alias = m.alias /\ n.at = "run"
  BY <1>4 DEF MemRecords, Places
<1>6. MemOK(n, script)
  BY <1>3, <1>5 DEF MemOK, Buffers
<1>7. KidsOK(n, fds'[p], Children(p))
  BY <1>3, <1>5 DEF KidsOK
<1>8. DictStep(mem[p].alias, n.alias)
  BY <1>2, <1>5 DEF DictStep
<1>9. /\ fds' \in [Pids -> SUBSET Ends] /\ offset' \in 0..Len(script)
      /\ failures' \in 0..Failures /\ \A q \in Pids : q # p => fds'[q] = fds[q]
  <2>1. Own(p) \subseteq fds[p]
    BY DEF Own
  <2>2. Own(p) \in SUBSET Ends
    BY <1>1, <2>1, AtPlace
  <2> QED BY <1>1, <2>2, AtPlace
<1> QED BY <1>1, <1>2, <1>4, <1>6, <1>7, <1>8, <1>9, LocalStep

\* exit keeps the invariant, with the lines stdio gives back to the script.
LEMMA ExitStep ==
  ASSUME IInv, NEW p \in Pids, proc[p].kind \in {"wsh", "prog"}, NEW c \in {0, 1}, Exit(p, c)
  PROVE  IInv' /\ RootStep
<1>1. End(p, c) /\ offset' = Rewound(offset, mem[p])
  BY DEF Exit
<1>2. Buffers(mem[p], script) /\ offset \in 0..Len(script) /\ Len(script) \in Nat
  BY DEF IInv, Typed, MemOK
<1>3. offset' \in 0..Len(script)
  BY <1>1, <1>2, RewoundOK
<1> QED BY <1>1, <1>3, EndStep

\* A segment that runs a builtin or a program keeps the invariant.
LEMMA RunSegmentStep ==
  ASSUME IInv, NEW p \in Pids, RunSegment(p)
  PROVE  IInv' /\ RootStep
<1>1. Runs(p, "run")
  BY DEF RunSegment
<1>2. /\ proc[p].kind = "wsh" /\ mem[p].rc \in {0, 1} /\ offset \in 0..Len(script)
  BY <1>1, AtPlace DEF MemRecords
<1>3. PICK argv : argv = mem[p].segs[mem[p].i]
  OBVIOUS
<1>4. CASE Killed(p)
  <2>1. End(p, 139) /\ offset' = offset
    BY <1>4 DEF Killed
  <2> QED BY <1>2, <2>1, EndStep
<1>5. CASE argv[1] \in Builtins /\ \E r \in IF Exits(argv) THEN {mem[p].rc} ELSE Result(mem[p], argv) : Exit(p, r)
  <2>1. PICK r \in IF Exits(argv) THEN {mem[p].rc} ELSE Result(mem[p], argv) : Exit(p, r)
    BY <1>5
  <2>2. Result(mem[p], argv) \subseteq {0, 1}
    BY <1>5, ResultOK
  <2>3. r \in {0, 1}
    BY <1>2, <2>1, <2>2
  <2> QED BY <1>2, <2>1, <2>3, ExitStep
<1>6. CASE Becomes(p, "prog")
  BY <1>2, <1>6, BecomesStep
<1>7. CASE Exit(p, 1)
  BY <1>2, <1>7, ExitStep
<1> QED BY <1>3, <1>4, <1>5, <1>6, <1>7 DEF RunSegment

\* A program that ends keeps the invariant.
LEMMA ProgramEndsStep ==
  ASSUME IInv, NEW p \in Pids, ProgramEnds(p)
  PROVE  IInv' /\ RootStep
BY ExitStep DEF ProgramEnds

\* What is left to wait for.
LEMMA ReapKids ==
  ASSUME NEW m \in MemRecords, m.at = "reap", NEW f, NEW kids, KidsOK(m, f, kids)
  PROVE  /\ m.i \in 1..Len(m.pids) /\ m.pids[m.i] \in kids /\ f = {}
         /\ m.i < Len(m.pids) => \A n \in MemRecords :
              n.at = "reap" /\ n.i = m.i + 1 /\ n.pids = m.pids /\ n.lost = m.lost
                => KidsOK(n, f, kids \ {m.pids[m.i]})
         /\ m.i = Len(m.pids) => \A n \in MemRecords :
              n.at = "read" /\ n.lost = m.lost => KidsOK(n, f, kids \ {m.pids[m.i]})
<1>1. PICK ps \in Seq(Pids) : ps = m.pids
  BY DEF MemRecords
<1>2. PICK i \in 1..Len(ps) : i = m.i
  BY <1>1 DEF KidsOK
<1>3. Len(ps) \in Nat /\ i \in Nat /\ i <= Len(ps)
  BY <1>2
<1>4. Awaited(m) = {ps[k] : k \in i..Len(ps)}
  BY <1>1, <1>2 DEF Awaited
<1>5. /\ f = {} /\ Awaited(m) \subseteq kids /\ (~m.lost => kids \subseteq Awaited(m))
      /\ \A j, k \in 1..Len(ps) : ps[j] = ps[k] => j = k
  BY <1>1 DEF KidsOK
<1>6. ps[i] \in Awaited(m)
  BY <1>3, <1>4
<1>7. ASSUME i < Len(ps), NEW n \in MemRecords, n.at = "reap", n.i = i + 1, n.pids = ps,
             n.lost = m.lost
      PROVE  KidsOK(n, f, kids \ {ps[i]})
  <2>1. Awaited(n) = {ps[k] : k \in (i + 1)..Len(ps)}
    BY <1>7 DEF Awaited
  <2>2. Awaited(n) = Awaited(m) \ {ps[i]}
    <3>1. \A k \in i..Len(ps) : k \in 1..Len(ps) /\ (k = i \/ k \in (i + 1)..Len(ps))
      BY <1>2, <1>3
    <3>2. \A k \in (i + 1)..Len(ps) : k \in i..Len(ps) /\ k \in 1..Len(ps) /\ k # i
      BY <1>2, <1>3
    <3> QED BY <1>2, <1>4, <1>5, <2>1, <3>1, <3>2
  <2>3. n.i \in 1..Len(ps)
    BY <1>3, <1>7
  <2> QED BY <1>5, <1>7, <2>2, <2>3 DEF KidsOK
<1>8. ASSUME i = Len(ps), NEW n \in MemRecords, n.at = "read", n.lost = m.lost
      PROVE  KidsOK(n, f, kids \ {ps[i]})
  <2>1. \A k \in i..Len(ps) : k = i
    BY <1>3, <1>8
  <2>2. Awaited(m) \subseteq {ps[i]}
    BY <1>4, <2>1
  <2>3. ~n.lost => kids \ {ps[i]} = {}
    BY <1>5, <1>8, <2>2
  <2> QED BY <1>5, <1>8, <2>3 DEF KidsOK
<1> QED BY <1>1, <1>2, <1>5, <1>6, <1>7, <1>8

\* Waiting for the segments of a pipeline keeps the invariant.
LEMMA ReapStep ==
  ASSUME IInv, NEW p \in Pids, Reap(p)
  PROVE  IInv' /\ RootStep
<1>1. Runs(p, "reap") /\ UNCHANGED <<script, fds, offset, failures>>
  BY DEF Reap
<1>2. PICK m \in MemRecords : m = mem[p]
  BY <1>1, AtPlace
<1>3. PICK c : c = m.pids[m.i]
  OBVIOUS
<1>4. proc[c].kind = "zombie" /\ proc' = [proc EXCEPT ![c] = NoProc]
  BY <1>2, <1>3 DEF Reap
<1>5. PICK st \in {0, 1} : st = IF proc[c].code = 0 THEN m.status ELSE 1
  BY DEF MemRecords
<1>6. /\ m.at = "reap" /\ MemOK(m, script) /\ KidsOK(m, fds[p], Children(p))
      /\ proc[p].kind = "wsh"
  BY <1>1, <1>2, AtPlace
<1>7. Busy(m, script) /\ Len(script[m.line - 1]) # 1
  BY <1>6 DEF MemOK
<1>8. /\ m.i \in 1..Len(m.pids) /\ c \in Children(p)
      /\ (m.i < Len(m.pids) => \A n \in MemRecords :
            n.at = "reap" /\ n.i = m.i + 1 /\ n.pids = m.pids /\ n.lost = m.lost
              => KidsOK(n, fds[p], Children(p) \ {c}))
      /\ (m.i = Len(m.pids) => \A n \in MemRecords :
            n.at = "read" /\ n.lost = m.lost => KidsOK(n, fds[p], Children(p) \ {c}))
  BY <1>3, <1>6, ReapKids
<1>9. Len(m.pids) \in Nat /\ m.i \in Nat
  BY DEF MemRecords
<1>10. CASE m.i < Len(m.pids)
  <2>1. Set(p, [m EXCEPT !.i = @ + 1, !.status = st])
    BY <1>2, <1>3, <1>5, <1>10 DEF Reap
  <2>2. PICK j \in Nat : j = m.i + 1
    BY <1>9
  <2>3. PICK n : n = [m EXCEPT !.i = j, !.status = st]
    OBVIOUS
  <2>4. /\ n \in MemRecords /\ n.line = m.line /\ n.end = m.end /\ n.log = m.log /\ n.pids = m.pids
        /\ n.hist = m.hist /\ n.lost = m.lost /\ n.alias = m.alias /\ n.at = "reap" /\ n.i = j
    BY <1>6, <2>3 DEF MemRecords
  <2>5. Set(p, n)
    BY <2>1, <2>2, <2>3
  <2>6. Busy(n, script)
    BY <1>7, <2>4, BusySame
  <2>7. MemOK(n, script)
    BY <1>7, <2>4, <2>6 DEF MemOK, Busy
  <2>8. KidsOK(n, fds[p], Children(p) \ {c})
    BY <1>8, <1>10, <2>2, <2>4
  <2> QED BY <1>1, <1>2, <1>4, <1>6, <1>8, <2>4, <2>5, <2>7, <2>8, FreedStep
<1>11. CASE m.i = Len(m.pids)
  <2>1. Set(p, [Dropped(m) EXCEPT !.rc = st, !.hist = da_put(@, m.line - 1)])
    BY <1>2, <1>3, <1>5, <1>9, <1>11 DEF Reap
  <2>2. PICK d : d = Dropped(m)
    OBVIOUS
  <2>3. /\ d \in MemRecords /\ d.line = m.line /\ d.end = m.end /\ d.log = m.log
        /\ d.hist = m.hist /\ d.lost = m.lost /\ d.alias = m.alias /\ d.at = "read"
    <3>1. <<>> \in Seq(Pids) /\ <<>> \in Seq(Seq(Words)) /\ "read" \in Places
      BY DEF Places
    <3> QED BY <2>2, <3>1 DEF Dropped, MemRecords
  <2>4. PICK h : h = da_put(m.hist, m.line - 1)
    OBVIOUS
  <2>5. h \in Arrays
    <3>1. m.line - 1 \in Nat /\ m.hist \in Arrays
      BY <1>7 DEF Busy, Buffers, MemRecords
    <3> QED BY <2>4, <3>1, ArrayPut
  <2>6. PICK n : n = [d EXCEPT !.rc = st, !.hist = h]
    OBVIOUS
  <2>7. /\ n \in MemRecords /\ n.line = m.line /\ n.end = m.end /\ n.log = m.log
        /\ n.hist = h /\ n.lost = m.lost /\ n.alias = m.alias /\ n.at = "read"
    BY <2>3, <2>5, <2>6 DEF MemRecords
  <2>8. Set(p, n)
    BY <2>1, <2>2, <2>3, <2>4, <2>6
  <2>9. MemOK(n, script)
    BY <1>7, <2>4, <2>7, ReapedOK
  <2>10. KidsOK(n, fds[p], Children(p) \ {c})
    BY <1>8, <1>11, <2>7
  <2> QED BY <1>1, <1>2, <1>4, <1>6, <1>8, <2>7, <2>8, <2>9, <2>10, FreedStep
<1> QED BY <1>8, <1>9, <1>10, <1>11

\* Every step keeps the invariant and does to the aliases what a dictionary allows.
LEMMA StepIInv ==
  ASSUME IInv, [Next]_vars
  PROVE  IInv' /\ RootStep
<1>1. CASE UNCHANGED vars
  <2>1. /\ script' = script /\ proc' = proc /\ mem' = mem /\ fds' = fds
        /\ offset' = offset /\ failures' = failures
    BY <1>1 DEF vars
  <2>2. \A p \in Pids : Children(p)' = Children(p)
    BY <2>1 DEF Children
  <2>3. IInv'
    BY <2>1, <2>2 DEF IInv, Typed, TreeOK
  <2> QED BY <2>1, <2>3 DEF RootStep, DictStep
<1>2. ASSUME NEW p \in Pids, Step(p) PROVE IInv' /\ RootStep
  <2>1. CASE AtEof(p)
    BY <2>1, AtEofStep
  <2>2. CASE Line(p)
    BY <2>2, LineStep
  <2>3. CASE Leave(p)
    BY <2>3, LeaveStep
  <2>4. CASE Fork(p)
    BY <2>4, ForkStep
  <2>5. CASE Exec(p)
    BY <2>5, ExecStep
  <2>6. CASE Wait(p)
    BY <2>6, WaitStep
  <2>7. CASE Pipeline(p)
    BY <2>7, PipelineStep
  <2>8. CASE Spawn(p)
    BY <2>8, SpawnStep
  <2>9. CASE CloseAll(p)
    BY <2>9, CloseAllStep
  <2>10. CASE Redirect(p)
    BY <2>10, RedirectStep
  <2>11. CASE RunSegment(p)
    BY <2>11, RunSegmentStep
  <2>12. CASE Reap(p)
    BY <2>12, ReapStep
  <2>13. CASE ProgramEnds(p)
    BY <2>13, ProgramEndsStep
  <2> QED BY <1>2, <2>1, <2>2, <2>3, <2>4, <2>5, <2>6, <2>7, <2>8, <2>9, <2>10, <2>11, <2>12,
             <2>13 DEF Step
<1> QED BY <1>1, <1>2 DEF Next

\* The invariant holds when wsh has opened its script.
LEMMA InitIInv == Init => IInv
<1> SUFFICES ASSUME Init PROVE IInv
  OBVIOUS
<1>1. script \in Seq(Seq(Seq(Words))) /\ Root \in Pids /\ NoPid \notin Pids /\ Failures \in Nat
  BY ShellAssumption DEF Init
<1>2. MemOK(Fresh, script)
  BY <1>1, FreshOK
<1>3. Fresh \in MemRecords /\ Fresh.at = "read"
  BY <1>2 DEF MemOK, Buffers, Fresh
<1>4. NoProc \in ProcRecords /\ NoProc.kind = "none" /\ NoProc.parent = NoPid
  BY DEF NoProc, ProcRecords, Kinds
<1>5. PICK r : r = [NoProc EXCEPT !.kind = "wsh"]
  OBVIOUS
<1>6. r \in ProcRecords /\ r.kind = "wsh" /\ r.parent = NoPid
  BY <1>4, <1>5 DEF ProcRecords, Kinds
<1>7. proc = [p \in Pids |-> IF p = Root THEN r ELSE NoProc]
  BY <1>5 DEF Init
<1>8. /\ mem = [p \in Pids |-> Fresh] /\ fds = [p \in Pids |-> {}] /\ offset = 0 /\ failures = 0
  BY DEF Init
<1>9. Typed
  <2>1. Len(script) \in Nat
    BY <1>1
  <2> QED BY <1>1, <1>3, <1>4, <1>6, <1>7, <1>8, <2>1 DEF Typed
<1>10. TreeOK
  BY <1>1, <1>4, <1>6, <1>7 DEF TreeOK
<1>11. \A p \in Pids : MemOK(mem[p], script)
  BY <1>2, <1>8
<1>12. ASSUME NEW p \in Pids PROVE KidsOK(mem[p], fds[p], Children(p))
  <2>1. Children(p) = {}
    BY <1>1, <1>4, <1>6, <1>7 DEF Children
  <2> QED BY <1>3, <1>8, <2>1 DEF KidsOK
<1> QED BY <1>9, <1>10, <1>11, <1>12 DEF IInv

\* What every reachable state satisfies, whatever is executed and fails.
THEOREM InvariantHolds == Spec => []IInv
<1>1. IInv /\ [Next]_vars => IInv'
  BY StepIInv
<1> QED BY <1>1, InitIInv, PTL DEF Spec

-----------------------------------------------------------------------------
(* Theorems *)

(* For all scripts: process records, places, return codes and the offset   *)
(* of the script keep their types, and no history outgrows its array.      *)
THEOREM TypeCorrect == Spec => []TypeOK
<1>1. IInv => TypeOK
  <2> SUFFICES ASSUME IInv PROVE TypeOK
    OBVIOUS
  <2>1. /\ proc \in [Pids -> [kind : {"none", "wsh", "prog", "zombie"},
                              parent : Pids \union {NoPid}, code : {0, 1, 139}]]
        /\ offset \in 0..Len(script) /\ failures \in 0..Failures
    BY DEF IInv, Typed, ProcRecords, Kinds
  <2>2. ASSUME NEW p \in Pids
        PROVE  /\ mem[p].at \in Places /\ mem[p].rc \in {0, 1} /\ mem[p].status \in {0, 1}
               /\ mem[p].line \in 1..(Len(script) + 1) /\ mem[p].end \in {0, Len(script)}
               /\ Len(mem[p].hist.data) <= mem[p].hist.capacity
               /\ \A e \in fds[p] : e[1][1] \in Pids /\ e[2] \in {"read", "write"}
    <3>1. mem[p] \in MemRecords /\ Buffers(mem[p], script) /\ Len(script) \in Nat
      BY DEF IInv, Typed, MemOK
    <3>2. mem[p].line \in 1..(Len(script) + 1) /\ mem[p].end \in {0, Len(script)}
      BY <3>1 DEF Buffers
    <3>3. mem[p].hist \in Arrays
      BY <3>1 DEF MemRecords
    <3>4. Len(mem[p].hist.data) <= mem[p].hist.capacity
      BY <3>3 DEF Arrays
    <3>5. fds[p] \subseteq Ends
      BY DEF IInv, Typed
    <3>6. \A e \in fds[p] : e[1][1] \in Pids /\ e[2] \in {"read", "write"}
      BY <3>5 DEF Ends
    <3> QED BY <3>1, <3>2, <3>4, <3>6 DEF MemRecords
  <2> QED BY <2>1, <2>2 DEF TypeOK
<1> QED BY <1>1, InvariantHolds, PTL

(* The history of a shell that reads, the children that came back from a   *)
(* failed execv included, keeps every line of one command it took, in      *)
(* order; what is more are pipelines it took, at their place.              *)
THEOREM CommandsAreKept == Spec => []HistoryKeepsCommands
<1>1. IInv => HistoryKeepsCommands
  BY DEF IInv, MemOK, HistoryKeepsCommands, Runs
<1> QED BY <1>1, InvariantHolds, PTL

(* A shell that reads its next line has no child left and no pipe open,    *)
(* unless it gave up a pipeline for want of a process.                     *)
THEOREM NothingLeftRunning == Spec => []Foreground
<1>1. IInv => Foreground
  BY DEF IInv, KidsOK, Foreground, Runs
<1> QED BY <1>1, InvariantHolds, PTL

(* The aliases of the shell are a dictionary, whatever the hash function,  *)
(* and no process but the shell itself changes them.                       *)
THEOREM AliasesDict == Spec => AliasesAreADict
<1>1. AliasView = View(mem[Root].alias)
  BY DEF AliasView, View, Alias
<1>2. ASSUME RootStep, proc'[Root].kind = "wsh"
      PROVE  AliasView' = AliasView \/ Names2Words!DictNext
  <2>1. AliasView' = View(mem'[Root].alias)
    BY DEF AliasView, View, Alias
  <2>2. DictStep(mem[Root].alias, mem'[Root].alias)
    BY <1>2 DEF RootStep
  <2> QED BY <1>1, <2>1, <2>2 DEF DictStep, Names2Words!DictNext, Names2Words!Put,
          Names2Words!Delete
<1>3. IInv /\ [Next]_vars =>
        [proc'[Root].kind = "wsh" => UNCHANGED AliasView \/ Names2Words!DictNext]_vars
  BY <1>2, StepIInv
<1> QED BY <1>3, InvariantHolds, PTL DEF Spec, AliasesAreADict
==============================================================================
