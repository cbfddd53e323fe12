------------------------- MODULE RegisterProxyProofs --------------------------
(***************************************************************************)
(* Proofs about module RegisterProxy, for every catalog, every set of      *)
(* answers of the xAI forwarder and all the lines an operator may write.   *)
(*                                                                         *)
(* The invariant, RegisterInv, adds to the types and to NamesOnce          *)
(*   Kept         where the operator's lines are, phase by phase;          *)
(*   FilesShaped  every file that a run may read keeps the operator's      *)
(*                lines out of the place where a block is spliced, also    *)
(*                when a crash has cut it and the operator has edited it.  *)
(*                                                                         *)
(* Files and lists are filtered by the recursive function of Only, of      *)
(* which the first half of the module says what it keeps of a sequence, of *)
(* a concatenation, of a prefix.  These facts are proved by induction; the *)
(* principle is stated for a set of sequences.                             *)
(***************************************************************************)
EXTENDS RegisterProxy, SequenceTheorems, WellFoundedInduction, TLAPS

(* Induction: a set of numbers that is not empty has a least one, so that  *)
(* a set with 0 that is closed under successor has every number, and one   *)
(* with <<>> that is closed under Append has every sequence.               *)
LEMMA NatMin ==
  ASSUME NEW T, T \subseteq Nat, T # {}
  PROVE  \E x \in T : \A y \in T : ~(y < x)
<1>1. IsWellFoundedOn(OpToRel(<, Nat), Nat)
  BY NatLessThanWellFounded
<1>2. \A x, y \in Nat : <<y, x>> \in OpToRel(<, Nat) <=> y < x
  BY DEF OpToRel
<1>3. \E x \in T : \A y \in T : ~ (<<y, x>> \in OpToRel(<, Nat))
  BY <1>1, WFMin
<1>. QED
  BY <1>2, <1>3

LEMMA SetInduction ==
  ASSUME NEW H, 0 \in H, \A n \in Nat : n \in H => n + 1 \in H
  PROVE  Nat \subseteq H
<1> SUFFICES ASSUME Nat \ H # {} PROVE FALSE
  OBVIOUS
<1>1. PICK x \in Nat \ H : \A y \in Nat \ H : ~(y < x)
  BY NatMin
<1>2. x # 0 /\ x - 1 \in Nat /\ x - 1 < x /\ (x - 1) + 1 = x
  BY <1>1
<1>. QED
  BY <1>1, <1>2

LEMMA SeqInduction ==
  ASSUME NEW S, NEW H, <<>> \in H,
         \A s \in Seq(S), e \in S : s \in H => Append(s, e) \in H
  PROVE  Seq(S) \subseteq H
<1> DEFINE N == {n \in Nat : \A s \in Seq(S) : Len(s) = n => s \in H}
<1>1. 0 \in N
  OBVIOUS
<1>2. ASSUME NEW n \in Nat, n \in N PROVE n + 1 \in N
  <2> SUFFICES ASSUME NEW s \in Seq(S), Len(s) = n + 1 PROVE s \in H
    OBVIOUS
  <2> DEFINE t == SubSeq(s, 1, n)
  <2>1. t \in Seq(S) /\ Len(t) = n /\ s[n + 1] \in S /\ s = Append(t, s[n + 1])
    OBVIOUS
  <2>. QED
    BY <1>2, <2>1
<1> HIDE DEF N
<1>3. Nat \subseteq N
  BY <1>1, <1>2, SetInduction
<1>. QED
  BY <1>3 DEF N

-----------------------------------------------------------------------------
(* The function that Only computes with.                                   *)

IsOnly(f, s, T, n) ==
  f = [i \in 0 .. n |-> IF i = 0 THEN <<>>
                        ELSE IF s[i] \in T THEN Append(f[i - 1], s[i]) ELSE f[i - 1]]

LEMMA IsOnlyValues ==
  ASSUME NEW f, NEW s, NEW T, NEW n \in Nat, IsOnly(f, s, T, n)
  PROVE  /\ f[0] = <<>>
         /\ \A i \in 1 .. n : f[i] = IF s[i] \in T THEN Append(f[i - 1], s[i]) ELSE f[i - 1]
<1> DEFINE v(i) == IF i = 0 THEN <<>>
                   ELSE IF s[i] \in T THEN Append(f[i - 1], s[i]) ELSE f[i - 1]
<1>1. f = [i \in 0 .. n |-> v(i)]
  BY Zenon DEF IsOnly
<1>2. \A i \in 0 .. n : f[i] = v(i)
  <2> HIDE DEF v
  <2>. QED
    BY <1>1
<1>3. 0 \in 0 .. n /\ \A i \in 1 .. n : i \in 0 .. n /\ i # 0
  OBVIOUS
<1>. QED
  BY <1>2, <1>3

LEMMA OnlyExists ==
  ASSUME NEW s, NEW T
  PROVE  \A n \in Nat : \E f : IsOnly(f, s, T, n)
<1> DEFINE H == {n \in Nat : \E f : IsOnly(f, s, T, n)}
<1>1. 0 \in H
  <2>1. IsOnly([i \in 0 .. 0 |-> <<>>], s, T, 0)
    BY DEF IsOnly
  <2>. QED
    BY <2>1
<1>2. ASSUME NEW m \in Nat, m \in H PROVE m + 1 \in H
  <2>1. PICK f : IsOnly(f, s, T, m)
    BY <1>2
  <2> DEFINE v(i) == IF i = 0 THEN <<>>
                     ELSE IF s[i] \in T THEN Append(f[i - 1], s[i]) ELSE f[i - 1]
             g == [i \in 0 .. m + 1 |-> v(i)]
  <2>2. \A i \in 0 .. m : f[i] = v(i)
    BY <2>1 DEF IsOnly
  <2>3. \A i \in 0 .. m : g[i] = f[i]
    <3> HIDE DEF v
    <3>. QED
      BY <2>2
  <2>4. \A i \in 0 .. m + 1 : v(i) = IF i = 0 THEN <<>>
                     ELSE IF s[i] \in T THEN Append(g[i - 1], s[i]) ELSE g[i - 1]
    <3> SUFFICES ASSUME NEW i \in 0 .. m + 1
                 PROVE  v(i) = IF i = 0 THEN <<>>
                     ELSE IF s[i] \in T THEN Append(g[i - 1], s[i]) ELSE g[i - 1]
      OBVIOUS
    <3>1. i # 0 => g[i - 1] = f[i - 1]
      <4>1. i # 0 => i - 1 \in 0 .. m
        OBVIOUS
      <4> HIDE DEF g
      <4>. QED
        BY <2>3, <4>1
    <3> HIDE DEF g
    <3>. QED
      BY <3>1
  <2>5. IsOnly(g, s, T, m + 1)
    <3>1. g = [i \in 0 .. m + 1 |-> v(i)]
      OBVIOUS
    <3> HIDE DEF g, v
    <3>. QED
      BY <2>4, <3>1 DEF IsOnly
  <2>. QED
    BY <2>5
<1> HIDE DEF H
<1>3. Nat \subseteq H
  BY <1>1, <1>2, SetInduction
<1>. QED
  BY <1>3 DEF H

LEMMA OnlyIs ==
  ASSUME NEW s, NEW T, Len(s) \in Nat
  PROVE  \E f : IsOnly(f, s, T, Len(s)) /\ Only(s, T) = f[Len(s)]
<1> DEFINE g == CHOOSE f : f = [i \in 0 .. Len(s) |-> IF i = 0 THEN <<>>
        ELSE IF s[i] \in T THEN Append(f[i - 1], s[i]) ELSE f[i - 1]]
<1>1. Only(s, T) = g[Len(s)]
  BY DEF Only
<1>2. \E f : IsOnly(f, s, T, Len(s))
  BY OnlyExists
<1>3. IsOnly(g, s, T, Len(s))
  BY <1>2, Zenon DEF IsOnly
<1> HIDE DEF g
<1>. QED
  BY <1>1, <1>3

LEMMA OnlyNothing == ASSUME NEW T PROVE Only(<<>>, T) = <<>>
<1>1. PICK f : IsOnly(f, <<>>, T, 0) /\ Only(<<>>, T) = f[0]
  BY OnlyIs
<1>. QED
  BY <1>1, IsOnlyValues

LEMMA OnlyAppend ==
  ASSUME NEW S, NEW s \in Seq(S), NEW e \in S, NEW T
  PROVE  Only(Append(s, e), T) = IF e \in T THEN Append(Only(s, T), e) ELSE Only(s, T)
<1> DEFINE t == Append(s, e)
           n == Len(s)
<1>1. n \in Nat /\ Len(t) = n + 1 /\ t[n + 1] = e /\ \A i \in 1 .. n : t[i] = s[i]
  OBVIOUS
<1>2. PICK f : IsOnly(f, s, T, n) /\ Only(s, T) = f[n]
  BY <1>1, OnlyIs
<1>3. PICK g : IsOnly(g, t, T, n + 1) /\ Only(t, T) = g[n + 1]
  <2>1. Len(t) \in Nat
    BY <1>1
  <2>2. PICK g : IsOnly(g, t, T, Len(t)) /\ Only(t, T) = g[Len(t)]
    BY <2>1, OnlyIs
  <2>. QED
    BY <1>1, <2>2
<1> HIDE DEF t, n
<1>4. /\ f[0] = <<>>
      /\ \A i \in 1 .. n : f[i] = IF s[i] \in T THEN Append(f[i - 1], s[i]) ELSE f[i - 1]
  BY <1>1, <1>2, IsOnlyValues
<1>5. /\ g[0] = <<>>
      /\ \A i \in 1 .. n + 1 : g[i] = IF t[i] \in T THEN Append(g[i - 1], t[i]) ELSE g[i - 1]
  BY <1>1, <1>3, IsOnlyValues
<1> DEFINE H == {k \in Nat : k <= n => g[k] = f[k]}
<1>6. 0 \in H
  BY <1>4, <1>5
<1>7. ASSUME NEW k \in Nat, k \in H PROVE k + 1 \in H
  <2>1. k + 1 <= n => k + 1 \in 1 .. n /\ k + 1 \in 1 .. n + 1 /\ (k + 1) - 1 = k
    BY <1>1
  <2>. QED
    BY <1>1, <1>4, <1>5, <1>7, <2>1
<1>8. n \in H
  <2> HIDE DEF H
  <2>. QED
    BY <1>1, <1>6, <1>7, SetInduction
<1>9. n + 1 \in 1 .. n + 1 /\ (n + 1) - 1 = n
  BY <1>1
<1>. QED
  BY <1>1, <1>2, <1>3, <1>5, <1>8, <1>9 DEF t

-----------------------------------------------------------------------------
(* What Only selects.                                                      *)

LEMMA OnlyTyped ==
  ASSUME NEW S, NEW T
  PROVE  \A s \in Seq(S) : Only(s, T) \in Seq(S \cap T)
<1> DEFINE H == {s \in Seq(S) : Only(s, T) \in Seq(S \cap T)}
<1>1. <<>> \in H
  <2>1. Only(<<>>, T) = <<>> /\ <<>> \in Seq(S) /\ <<>> \in Seq(S \cap T)
    BY OnlyNothing
  <2>. QED
    BY <2>1
<1>2. ASSUME NEW s \in Seq(S), NEW e \in S, s \in H PROVE Append(s, e) \in H
  <2>1. Append(s, e) \in Seq(S)
    OBVIOUS
  <2>2. Only(Append(s, e), T) = IF e \in T THEN Append(Only(s, T), e) ELSE Only(s, T)
    BY OnlyAppend
  <2>. QED
    BY <1>2, <2>1, <2>2
<1> HIDE DEF H
<1>3. Seq(S) \subseteq H
  BY <1>1, <1>2, SeqInduction
<1>. QED
  BY <1>3 DEF H

LEMMA OnlyAll ==
  ASSUME NEW S, NEW T
  PROVE  \A s \in Seq(S \cap T) : Only(s, T) = s
<1> DEFINE H == {s \in Seq(S \cap T) : Only(s, T) = s}
<1>1. <<>> \in H
  BY OnlyNothing
<1>2. ASSUME NEW s \in Seq(S \cap T), NEW e \in S \cap T, s \in H PROVE Append(s, e) \in H
  <2>1. Append(s, e) \in Seq(S \cap T)
    OBVIOUS
  <2>2. Only(Append(s, e), T) = IF e \in T THEN Append(Only(s, T), e) ELSE Only(s, T)
    BY OnlyAppend
  <2>. QED
    BY <1>2, <2>1, <2>2
<1> HIDE DEF H
<1>3. Seq(S \cap T) \subseteq H
  BY <1>1, <1>2, SeqInduction
<1>. QED
  BY <1>3 DEF H

LEMMA OnlyNone ==
  ASSUME NEW S, NEW T
  PROVE  \A s \in Seq(S \ T) : Only(s, T) = <<>>
<1> DEFINE H == {s \in Seq(S \ T) : Only(s, T) = <<>>}
<1>1. <<>> \in H
  BY OnlyNothing
<1>2. ASSUME NEW s \in Seq(S \ T), NEW e \in S \ T, s \in H PROVE Append(s, e) \in H
  <2>1. Append(s, e) \in Seq(S \ T)
    OBVIOUS
  <2>2. Only(Append(s, e), T) = IF e \in T THEN Append(Only(s, T), e) ELSE Only(s, T)
    BY OnlyAppend
  <2>. QED
    BY <1>2, <2>1, <2>2
<1> HIDE DEF H
<1>3. Seq(S \ T) \subseteq H
  BY <1>1, <1>2, SeqInduction
<1>. QED
  BY <1>3 DEF H

LEMMA ConcatOneMore ==
  ASSUME NEW S, NEW e \in S
  PROVE  \A s, t \in Seq(S) : Append(s \o t, e) = s \o Append(t, e)
<1>. QED
  OBVIOUS

LEMMA OnlyConcat ==
  ASSUME NEW S, NEW T, NEW s \in Seq(S)
  PROVE  \A t \in Seq(S) : Only(s \o t, T) = Only(s, T) \o Only(t, T)
<1> DEFINE H == {t \in Seq(S) : Only(s \o t, T) = Only(s, T) \o Only(t, T)}
<1>1. <<>> \in H
  <2>1. Only(s, T) \in Seq(S \cap T)
    BY OnlyTyped
  <2>. QED
    BY <2>1, OnlyNothing
<1>2. ASSUME NEW t \in Seq(S), NEW e \in S, t \in H PROVE Append(t, e) \in H
  <2>1. Append(t, e) \in Seq(S) /\ s \o t \in Seq(S) /\ s \o Append(t, e) = Append(s \o t, e)
    OBVIOUS
  <2>2. Only(Append(t, e), T) = IF e \in T THEN Append(Only(t, T), e) ELSE Only(t, T)
    BY OnlyAppend
  <2>3. Only(Append(s \o t, e), T)
          = IF e \in T THEN Append(Only(s \o t, T), e) ELSE Only(s \o t, T)
    BY <2>1, OnlyAppend
  <2>4. Only(s, T) \in Seq(S \cap T) /\ Only(t, T) \in Seq(S \cap T)
    BY OnlyTyped
  <2>5. Only(s \o t, T) = Only(s, T) \o Only(t, T)
    BY <1>2
  <2>6. Only(s, T) \in Seq(S) /\ Only(t, T) \in Seq(S)
    BY <2>4
  <2>7. Append(Only(s, T) \o Only(t, T), e) = Only(s, T) \o Append(Only(t, T), e)
    BY <2>6, ConcatOneMore, Zenon
  <2>. QED
    BY <2>1, <2>2, <2>3, <2>5, <2>7
<1> HIDE DEF H
<1>3. Seq(S) \subseteq H
  BY <1>1, <1>2, SeqInduction
<1>. QED
  BY <1>3 DEF H

LEMMA InjectiveAppend ==
  ASSUME NEW S, NEW s \in Seq(S), NEW e \in S, NEW t, t = Append(s, e)
  PROVE  IsInjective(t) <=> (IsInjective(s) /\ \A i \in DOMAIN s : s[i] # e)
<1> DEFINE n == Len(s)
<1>1. /\ n \in Nat /\ DOMAIN t = 1 .. n + 1 /\ DOMAIN s = 1 .. n
      /\ t[n + 1] = e /\ \A i \in 1 .. n : t[i] = s[i]
  OBVIOUS
<1> HIDE DEF n
<1>2. /\ (IsInjective(t) <=> \A i, j \in 1 .. n + 1 : t[i] = t[j] => i = j)
      /\ (IsInjective(s) <=> \A i, j \in 1 .. n : s[i] = s[j] => i = j)
  BY <1>1 DEF IsInjective
<1>. QED
  BY <1>1, <1>2

LEMMA OnlyInjective ==
  ASSUME NEW S, NEW T
  PROVE  \A s \in Seq(S) : IsInjective(s) => IsInjective(Only(s, T))
<1> DEFINE H == {s \in Seq(S) : IsInjective(s) => IsInjective(Only(s, T))}
<1>1. <<>> \in H
  BY OnlyNothing
<1>2. ASSUME NEW s \in Seq(S), NEW e \in S, s \in H PROVE Append(s, e) \in H
  <2> DEFINE t == Append(s, e)
             o == Only(s, T)
  <2>1. t \in Seq(S) /\ t = Append(s, e)
    OBVIOUS
  <2>2. s \in Seq(Range(s)) /\ o \in Seq(S \cap T) /\ \A x \in Range(s) : \E i \in DOMAIN s : s[i] = x
    BY OnlyTyped DEF Range
  <2>3. o \in Seq(Range(s) \cap T)
    BY <2>2, OnlyTyped
  <2>4. Only(t, T) = IF e \in T THEN Append(o, e) ELSE o
    BY OnlyAppend
  <2> HIDE DEF t, o
  <2>5. o \in Seq(S) /\ \A i \in DOMAIN o : o[i] \in Range(s)
    BY <2>2, <2>3
  <2>6. IsInjective(t) <=> (IsInjective(s) /\ \A i \in DOMAIN s : s[i] # e)
    BY <2>1, InjectiveAppend
  <2>8. IsInjective(Append(o, e)) <=> (IsInjective(o) /\ \A i \in DOMAIN o : o[i] # e)
    BY <2>5, InjectiveAppend
  <2>7. ASSUME IsInjective(t) PROVE IsInjective(Only(t, T))
    <3>1. IsInjective(o) /\ \A i \in DOMAIN o : o[i] # e
      BY <1>2, <2>2, <2>5, <2>6, <2>7 DEF o
    <3>. QED
      BY <2>4, <2>8, <3>1, Zenon
  <2>. QED
    BY <2>1, <2>7 DEF t
<1> HIDE DEF H
<1>3. Seq(S) \subseteq H
  BY <1>1, <1>2, SeqInduction
<1>. QED
  BY <1>3 DEF H

-----------------------------------------------------------------------------
(* The loop of WithXai.                                                    *)

IsWith(f, names, chat, n) ==
  f = [i \in 0 .. n |-> IF i = 0 THEN names
                        ELSE IF chat[i] \in Range(f[i - 1]) THEN f[i - 1]
                             ELSE Append(f[i - 1], chat[i])]

LEMMA IsWithValues ==
  ASSUME NEW f, NEW names, NEW chat, NEW n \in Nat, IsWith(f, names, chat, n)
  PROVE  /\ f[0] = names
         /\ \A i \in 1 .. n : f[i] = IF chat[i] \in Range(f[i - 1]) THEN f[i - 1]
                                    ELSE Append(f[i - 1], chat[i])
<1> DEFINE v(i) == IF i = 0 THEN names
                   ELSE IF chat[i] \in Range(f[i - 1]) THEN f[i - 1]
                        ELSE Append(f[i - 1], chat[i])
<1>1. f = [i \in 0 .. n |-> v(i)]
  BY Zenon DEF IsWith
<1>2. \A i \in 0 .. n : f[i] = v(i)
  <2> HIDE DEF v
  <2>. QED
    BY <1>1
<1>3. 0 \in 0 .. n /\ \A i \in 1 .. n : i \in 0 .. n /\ i # 0
  OBVIOUS
<1>. QED
  BY <1>2, <1>3

LEMMA WithExists ==
  ASSUME NEW names, NEW chat
  PROVE  \A n \in Nat : \E f : IsWith(f, names, chat, n)
<1> DEFINE H == {n \in Nat : \E f : IsWith(f, names, chat, n)}
<1>1. 0 \in H
  <2>1. IsWith([i \in 0 .. 0 |-> names], names, chat, 0)
    BY DEF IsWith
  <2>. QED
    BY <2>1
<1>2. ASSUME NEW m \in Nat, m \in H PROVE m + 1 \in H
  <2>1. PICK f : IsWith(f, names, chat, m)
    BY <1>2
  <2> DEFINE v(i) == IF i = 0 THEN names
                     ELSE IF chat[i] \in Range(f[i - 1]) THEN f[i - 1]
                          ELSE Append(f[i - 1], chat[i])
             g == [i \in 0 .. m + 1 |-> v(i)]
  <2>2. \A i \in 0 .. m : f[i] = v(i)
    <3>1. f = [i \in 0 .. m |-> v(i)]
      BY <2>1, Zenon DEF IsWith
    <3> HIDE DEF v
    <3>. QED
      BY <3>1
  <2>3. \A i \in 0 .. m : g[i] = f[i]
    <3> HIDE DEF v
    <3>. QED
      BY <2>2
  <2>4. \A i \in 0 .. m + 1 : v(i) = IF i = 0 THEN names
                     ELSE IF chat[i] \in Range(g[i - 1]) THEN g[i - 1]
                          ELSE Append(g[i - 1], chat[i])
    <3> SUFFICES ASSUME NEW i \in 0 .. m + 1
                 PROVE  v(i) = IF i = 0 THEN names
                     ELSE IF chat[i] \in Range(g[i - 1]) THEN g[i - 1]
                          ELSE Append(g[i - 1], chat[i])
      OBVIOUS
    <3>1. i # 0 => g[i - 1] = f[i - 1]
      <4>1. i # 0 => i - 1 \in 0 .. m
        OBVIOUS
      <4> HIDE DEF g
      <4>. QED
        BY <2>3, <4>1
    <3> HIDE DEF g
    <3>. QED
      BY <3>1
  <2>5. IsWith(g, names, chat, m + 1)
    <3>1. g = [i \in 0 .. m + 1 |-> v(i)]
      OBVIOUS
    <3> HIDE DEF g, v
    <3>. QED
      BY <2>4, <3>1 DEF IsWith
  <2>. QED
    BY <2>5
<1> HIDE DEF H
<1>3. Nat \subseteq H
  BY <1>1, <1>2, SetInduction
<1>. QED
  BY <1>3 DEF H

LEMMA WithIs ==
  ASSUME NEW names, NEW ids, Len(ChatModels(ids)) \in Nat
  PROVE  \E f : /\ IsWith(f, names, ChatModels(ids), Len(ChatModels(ids)))
                /\ WithXai(names, ids) = f[Len(ChatModels(ids))]
<1> DEFINE chat == ChatModels(ids)
           g == CHOOSE f : f = [i \in 0 .. Len(chat) |->
                  IF i = 0 THEN names
                  ELSE IF chat[i] \in Range(f[i - 1]) THEN f[i - 1]
                       ELSE Append(f[i - 1], chat[i])]
<1>1. WithXai(names, ids) = g[Len(chat)]
  BY DEF WithXai
<1>2. \E f : IsWith(f, names, chat, Len(chat))
  BY WithExists
<1> HIDE DEF chat
<1>3. IsWith(g, names, chat, Len(chat))
  BY <1>2, Zenon DEF IsWith
<1> HIDE DEF g
<1>. QED
  BY <1>1, <1>3 DEF chat

(* The loop appends only names that are not there yet.                     *)
LEMMA WithXaiIs ==
  ASSUME NEW S, NEW names \in Seq(S), NEW ids, ChatModels(ids) \in Seq(S), IsInjective(names)
  PROVE  WithXai(names, ids) \in Seq(S) /\ IsInjective(WithXai(names, ids))
<1> DEFINE chat == ChatModels(ids)
           n == Len(chat)
<1>1. n \in Nat /\ \A i \in 1 .. n : chat[i] \in S
  OBVIOUS
<1>2. PICK f : IsWith(f, names, chat, n) /\ WithXai(names, ids) = f[n]
  BY <1>1, WithIs
<1> HIDE DEF chat, n
<1>3. /\ f[0] = names
      /\ \A i \in 1 .. n : f[i] = IF chat[i] \in Range(f[i - 1]) THEN f[i - 1]
                                 ELSE Append(f[i - 1], chat[i])
  BY <1>1, <1>2, IsWithValues
<1> DEFINE H == {k \in Nat : k <= n => (f[k] \in Seq(S) /\ IsInjective(f[k]))}
<1>4. 0 \in H
  BY <1>3
<1>5. ASSUME NEW k \in Nat, k \in H PROVE k + 1 \in H
  <2> SUFFICES ASSUME k + 1 <= n PROVE f[k + 1] \in Seq(S) /\ IsInjective(f[k + 1])
    OBVIOUS
  <2>1. k <= n /\ k + 1 \in 1 .. n /\ (k + 1) - 1 = k
    BY <1>1
  <2>2. f[k] \in Seq(S) /\ IsInjective(f[k]) /\ chat[k + 1] \in S
    BY <1>1, <1>5, <2>1
  <2>3. f[k + 1] = IF chat[k + 1] \in Range(f[k]) THEN f[k] ELSE Append(f[k], chat[k + 1])
    BY <1>3, <2>1
  <2>4. CASE chat[k + 1] \in Range(f[k])
    BY <2>2, <2>3, <2>4
  <2>5. CASE chat[k + 1] \notin Range(f[k])
    <3>1. f[k + 1] = Append(f[k], chat[k + 1])
      BY <2>3, <2>5
    <3>2. \A i \in DOMAIN f[k] : f[k][i] # chat[k + 1]
      BY <2>5 DEF Range
    <3>3. f[k + 1] \in Seq(S)
      BY <2>2, <3>1
    <3> DEFINE a == f[k]
               b == f[k + 1]
               e == chat[k + 1]
    <3>4. /\ a \in Seq(S) /\ e \in S /\ b = Append(a, e)
          /\ IsInjective(a) /\ \A i \in DOMAIN a : a[i] # e
      BY <2>2, <3>1, <3>2
    <3> HIDE DEF a, b, e
    <3>5. IsInjective(b)
      BY <3>4, InjectiveAppend
    <3>. QED
      BY <3>3, <3>5 DEF b
  <2>. QED
    BY <2>4, <2>5
<1>6. n \in H
  <2> HIDE DEF H
  <2>. QED
    BY <1>1, <1>4, <1>5, SetInduction
<1>. QED
  BY <1>1, <1>2, <1>6

-----------------------------------------------------------------------------
(* The list of models.                                                     *)

LEMMA CatalogIs ==
  /\ Catalog \in Seq(Range(Catalog)) /\ IsInjective(Catalog)
  /\ \A x, y \in Range(Catalog) :
       x.name \in Names \ Images /\ (x.name = y.name => x = y)
<1>1. Catalog \in Seq(Range(Catalog))
  BY CatalogAssumption
<1>2. \A i, j \in DOMAIN Catalog :
        /\ Catalog[i].name \notin Images /\ Catalog[i].name \in Names
        /\ Catalog[i].name = Catalog[j].name => i = j
  BY CatalogAssumption DEF Names, CatalogNames, Images
<1>3. IsInjective(Catalog)
  BY <1>2 DEF IsInjective
<1>4. ASSUME NEW x \in Range(Catalog), NEW y \in Range(Catalog)
      PROVE  x.name \in Names \ Images /\ (x.name = y.name => x = y)
  <2>1. PICK i, j \in DOMAIN Catalog : x = Catalog[i] /\ y = Catalog[j]
    BY DEF Range
  <2>. QED
    BY <1>2, <2>1
<1>. QED
  BY <1>1, <1>3, <1>4

LEMMA NamesOfOffered ==
  ASSUME NEW up
  PROVE  NamesOf(Offered(up)) \in Seq(Names \ Images) /\ IsInjective(NamesOf(Offered(up)))
<1> DEFINE specs == Offered(up)
           names == NamesOf(specs)
           S == Range(Catalog)
<1>1. specs \in Seq(S) /\ IsInjective(specs)
  <2>1. \A T : Only(Catalog, T) \in Seq(S \cap T) /\ IsInjective(Only(Catalog, T))
    BY CatalogIs, OnlyTyped, OnlyInjective
  <2>2. \A T : \A s \in Seq(S \cap T) : s \in Seq(S)
    OBVIOUS
  <2>. QED
    BY <2>1, <2>2, Zenon DEF Offered
<1> HIDE DEF specs
<1>2. names = [i \in 1 .. Len(specs) |-> specs[i].name] /\ Len(specs) \in Nat
  BY <1>1 DEF NamesOf
<1> HIDE DEF names
<1>3. \A i \in 1 .. Len(specs) : specs[i] \in S /\ names[i] = specs[i].name
  BY <1>1, <1>2
<1>4. \A i \in 1 .. Len(specs) : names[i] \in Names \ Images
  BY <1>3, CatalogIs
<1>5. names \in Seq(Names \ Images)
  BY <1>2, <1>4
<1>6. DOMAIN names = 1 .. Len(specs) /\ DOMAIN specs = 1 .. Len(specs)
  BY <1>1, <1>2
<1>7. ASSUME NEW i \in DOMAIN names, NEW j \in DOMAIN names, names[i] = names[j] PROVE i = j
  <2>1. specs[i] = specs[j]
    BY <1>3, <1>6, <1>7, CatalogIs
  <2>. QED
    BY <1>1, <1>6, <2>1 DEF IsInjective
<1>8. IsInjective(names)
  BY <1>7, Zenon DEF IsInjective
<1>. QED
  BY <1>5, <1>8 DEF names, specs

LEMMA ChatModelsTyped ==
  ASSUME NEW ids \in XaiAnswers \cup {<<>>}
  PROVE  ChatModels(ids) \in Seq(Names \ Images)
<1>1. CASE ids = <<>>
  <2>1. ChatModels(ids) = <<>>
    BY <1>1, OnlyNothing DEF ChatModels
  <2>. QED
    BY <2>1
<1>2. CASE ids \in XaiAnswers
  <2>1. ids \in Seq(Range(ids)) /\ Range(ids) \subseteq Names
    BY <1>2, XaiAssumption DEF Names
  <2>2. ChatModels(ids) \in Seq(Range(ids) \cap (Range(ids) \ Imagine))
    BY <2>1, OnlyTyped DEF ChatModels
  <2>. QED
    BY <2>1, <2>2 DEF Images
<1>. QED
  BY <1>1, <1>2

LEMMA ModelListsAre ==
  \A l \in ModelLists : l \in Seq(Names \ Images) /\ IsInjective(l)
<1> SUFFICES ASSUME NEW l \in ModelLists
             PROVE  l \in Seq(Names \ Images) /\ IsInjective(l)
  OBVIOUS
<1>1. PICK up, ids : ids \in XaiAnswers \cup {<<>>} /\ l = WithXai(NamesOf(Offered(up)), ids)
  BY DEF ModelLists
<1>. QED
  BY <1>1, NamesOfOffered, ChatModelsTyped, WithXaiIs

-----------------------------------------------------------------------------
(* Lines.                                                                  *)

Entries == {Entry(name) : name \in Names}

LEMMA LineKinds ==
  /\ \A l \in OwnLine : l.kind = "own" /\ l \notin BlockLine /\ l # BlockStart /\ l # BlockEnd
  /\ \A l \in Entries : l.kind = "entry" /\ l \in BlockLine /\ l # BlockStart /\ l # BlockEnd
  /\ BlockStart \in BlockLine /\ BlockEnd \in BlockLine /\ BlockStart # BlockEnd
  /\ Lines = OwnLine \cup BlockLine /\ BlockLine = Entries \cup {BlockStart, BlockEnd}
  /\ OwnLine \cap BlockLine = {}
<1>1. \A l \in OwnLine : l.kind = "own"
  BY DEF OwnLine, Own
<1>2. \A l \in Entries : l.kind = "entry"
  BY DEF Entries, Entry
<1>3. BlockStart.kind = "start" /\ BlockEnd.kind = "end"
  BY DEF BlockStart, BlockEnd
<1>4. Lines = OwnLine \cup BlockLine /\ BlockLine = Entries \cup {BlockStart, BlockEnd}
  BY DEF Lines, BlockLine, Entries
<1> HIDE DEF Entries
<1>. QED
  BY <1>1, <1>2, <1>3, <1>4

LEMMA BlockIs ==
  ASSUME list \in Seq(Names \ Images)
  PROVE  /\ Block \in Seq(BlockLine) /\ Len(Block) = Len(list) + 2 /\ Len(list) \in Nat
         /\ Block[1] = BlockStart /\ Block[Len(list) + 2] = BlockEnd
         /\ \A i \in 2 .. Len(list) + 1 : Block[i] \in Entries
<1> DEFINE n == Len(list)
           es == [i \in 1 .. n |-> Entry(list[i])]
<1>1. n \in Nat /\ \A i \in 1 .. n : Entry(list[i]) \in Entries
  BY DEF Entries
<1>2. es \in Seq(Entries) /\ Len(es) = n
  BY <1>1
<1>3. Block = <<BlockStart>> \o es \o <<BlockEnd>>
  BY DEF Block
<1> HIDE DEF es, n
<1>4. /\ es \in Seq(BlockLine) /\ \A i \in 1 .. n : es[i] \in Entries
      /\ <<BlockStart>> \in Seq(BlockLine) /\ <<BlockEnd>> \in Seq(BlockLine)
  BY <1>2, LineKinds
<1> DEFINE u == <<BlockStart>> \o es
<1>5. /\ u \in Seq(BlockLine) /\ Len(u) = n + 1 /\ u[1] = BlockStart
      /\ \A i \in 2 .. n + 1 : u[i] = es[i - 1]
  BY <1>1, <1>2, <1>4
<1>6. \A i \in 2 .. n + 1 : u[i] \in Entries
  <2> HIDE DEF u
  <2>1. \A i \in 2 .. n + 1 : i - 1 \in 1 .. n
    BY <1>1
  <2>. QED
    BY <1>4, <1>5, <2>1
<1>7. Block = u \o <<BlockEnd>>
  BY <1>3
<1> HIDE DEF u
<1>8. /\ Block \in Seq(BlockLine) /\ Len(Block) = n + 2
      /\ \A i \in 1 .. n + 1 : Block[i] = u[i]
      /\ Block[n + 2] = BlockEnd
  BY <1>1, <1>4, <1>5, <1>7
<1>. QED
  BY <1>1, <1>5, <1>6, <1>8 DEF n

(* The operator's lines of a file, and its other ones.                     *)
LEMMA OwnLinesOf ==
  /\ \A f \in Seq(Lines) : OwnLines(f) \in Seq(OwnLine)
  /\ \A f \in Seq(OwnLine) : OwnLines(f) = f /\ Only(f, BlockLine) = <<>>
  /\ \A f \in Seq(BlockLine) : OwnLines(f) = <<>> /\ Only(f, BlockLine) = f
  /\ \A f, g \in Seq(Lines) : /\ OwnLines(f \o g) = OwnLines(f) \o OwnLines(g)
                              /\ Only(f \o g, BlockLine) = Only(f, BlockLine) \o Only(g, BlockLine)
<1>1. /\ Lines \cap OwnLine = OwnLine /\ Lines \ OwnLine = BlockLine
      /\ Lines \cap BlockLine = BlockLine /\ Lines \ BlockLine = OwnLine
  BY LineKinds
<1>2. /\ \A f \in Seq(Lines) : Only(f, OwnLine) \in Seq(Lines \cap OwnLine)
      /\ \A f \in Seq(Lines \cap OwnLine) : Only(f, OwnLine) = f
      /\ \A f \in Seq(Lines \cap BlockLine) : Only(f, BlockLine) = f
      /\ \A f \in Seq(Lines \ OwnLine) : Only(f, OwnLine) = <<>>
      /\ \A f \in Seq(Lines \ BlockLine) : Only(f, BlockLine) = <<>>
  BY OnlyTyped, OnlyAll, OnlyNone
<1>3. \A f, g \in Seq(Lines) : \A T : Only(f \o g, T) = Only(f, T) \o Only(g, T)
  BY OnlyConcat
<1>4. \A f \in Seq(Lines) : Only(f, OwnLine) \in Seq(OwnLine)
  BY <1>1, <1>2
<1>5. \A f \in Seq(OwnLine) : Only(f, OwnLine) = f /\ Only(f, BlockLine) = <<>>
  BY <1>1, <1>2
<1>6. \A f \in Seq(BlockLine) : Only(f, OwnLine) = <<>> /\ Only(f, BlockLine) = f
  BY <1>1, <1>2
<1>7. \A f, g \in Seq(Lines) : /\ OwnLines(f \o g) = OwnLines(f) \o OwnLines(g)
                               /\ Only(f \o g, BlockLine) = Only(f, BlockLine) \o Only(g, BlockLine)
  BY <1>3, Zenon DEF OwnLines
<1>8. /\ \A f \in Seq(Lines) : OwnLines(f) \in Seq(OwnLine)
      /\ \A f \in Seq(OwnLine) : OwnLines(f) = f /\ Only(f, BlockLine) = <<>>
      /\ \A f \in Seq(BlockLine) : OwnLines(f) = <<>> /\ Only(f, BlockLine) = f
  BY <1>4, <1>5, <1>6 DEF OwnLines
<1>. QED
  BY <1>7, <1>8, Zenon

LEMMA PrefixesTyped ==
  ASSUME NEW S, NEW s \in Seq(S)
  PROVE  \A t \in Prefixes(s) : t \in Seq(S)
<1> SUFFICES ASSUME NEW t \in Prefixes(s) PROVE t \in Seq(S)
  OBVIOUS
<1>1. PICK l \in 0 .. Len(s) : t = SubSeq(s, 1, l)
  BY DEF Prefixes
<1>. QED
  BY <1>1

-----------------------------------------------------------------------------
(* The shape of a file: the operator's lines around what a run has left of *)
(* a block, in the places after a up to b, which has a sentinel at least.  *)

Shape(f, a, b) ==
  /\ a <= b
  /\ \A i \in DOMAIN f :
       /\ f[i] \in OwnLine <=> ~(a < i /\ i <= b)
       /\ f[i] = BlockStart => i = a + 1
       /\ f[i] = BlockEnd => i = b
  /\ a < b => (f[a + 1] = BlockStart \/ f[b] = BlockEnd)

Shaped(f) == \E a, b \in 0 .. Len(f) : Shape(f, a, b)

(* A file with both sentinels, or none: its parts.                         *)
LEMMA WellFormedParts ==
  ASSUME NEW f \in Seq(Lines), NEW a \in 0 .. Len(f), NEW b \in 0 .. Len(f), Shape(f, a, b),
         ~Malformed(f)
  PROVE  /\ SubSeq(f, 1, a) \in Seq(OwnLine)
         /\ SubSeq(f, a + 1, b) \in Seq(BlockLine)
         /\ SubSeq(f, b + 1, Len(f)) \in Seq(OwnLine)
         /\ f = (SubSeq(f, 1, a) \o SubSeq(f, a + 1, b)) \o SubSeq(f, b + 1, Len(f))
         /\ Has(f, BlockStart) => (a < b /\ LastOf(f, BlockStart) = a + 1 /\ LastOf(f, BlockEnd) = b)
         /\ ~Has(f, BlockStart) => a = b
<1>1. /\ Len(f) \in Nat /\ DOMAIN f = 1 .. Len(f) /\ a \in Nat /\ b \in Nat /\ a <= b /\ b <= Len(f)
      /\ \A i \in 1 .. Len(f) : f[i] \in Lines
  BY DEF Shape
<1>2. \A i \in 1 .. Len(f) : /\ (i <= a \/ b < i) => f[i] \in OwnLine
                             /\ (a < i /\ i <= b) => f[i] \in BlockLine
                             /\ f[i] \in BlockLine => (a < i /\ i <= b)
  BY <1>1, LineKinds DEF Shape
<1>3. SubSeq(f, 1, a) \in Seq(OwnLine)
  <2>1. \A i \in 1 .. a : i \in 1 .. Len(f) /\ i <= a
    BY <1>1
  <2>2. \A i \in 1 .. a : f[i] \in OwnLine
    BY <1>2, <2>1, Zenon
  <2>. QED
    BY <1>1, <2>2, SubSeqProperties
<1>4. SubSeq(f, a + 1, b) \in Seq(BlockLine)
  <2>1. \A i \in a + 1 .. b : i \in 1 .. Len(f) /\ a < i /\ i <= b
    BY <1>1
  <2>2. \A i \in a + 1 .. b : f[i] \in BlockLine
    BY <1>2, <2>1, Zenon
  <2>. QED
    BY <1>1, <2>2, SubSeqProperties
<1>5. SubSeq(f, b + 1, Len(f)) \in Seq(OwnLine)
  <2>1. \A i \in b + 1 .. Len(f) : i \in 1 .. Len(f) /\ b < i
    BY <1>1
  <2>2. \A i \in b + 1 .. Len(f) : f[i] \in OwnLine
    BY <1>2, <2>1, Zenon
  <2>. QED
    BY <1>1, <2>2, SubSeqProperties
<1>6. f = (SubSeq(f, 1, a) \o SubSeq(f, a + 1, b)) \o SubSeq(f, b + 1, Len(f))
  <2>1. SubSeq(f, 1, a) \o SubSeq(f, a + 1, b) = SubSeq(f, 1, b)
    BY <1>1, ConcatAdjacentSubSeq
  <2>2. SubSeq(f, 1, b) \o SubSeq(f, b + 1, Len(f)) = SubSeq(f, 1, Len(f))
    <3>1. 1 \in 1 .. Len(f) + 1 /\ b \in 1 - 1 .. Len(f) /\ Len(f) \in b .. Len(f)
      BY <1>1
    <3>. QED
      BY <3>1, ConcatAdjacentSubSeq, Zenon
  <2>3. SubSeq(f, 1, Len(f)) = f
    BY <1>1, SubSeqFull
  <2>. QED
    BY <2>1, <2>2, <2>3
<1>7. Has(f, BlockStart) <=> Has(f, BlockEnd)
  BY DEF Malformed, Has
<1>8. ASSUME Has(f, BlockStart)
      PROVE  a < b /\ LastOf(f, BlockStart) = a + 1 /\ LastOf(f, BlockEnd) = b
  <2>1. PICK i \in 1 .. Len(f), j \in 1 .. Len(f) : f[i] = BlockStart /\ f[j] = BlockEnd
    BY <1>1, <1>7, <1>8 DEF Has, Range
  <2>2. i = a + 1 /\ j = b /\ a < b
    BY <1>1, <1>2, <2>1, LineKinds DEF Shape
  <2>3. \A k \in DOMAIN f : (f[k] = BlockStart <=> k = a + 1) /\ (f[k] = BlockEnd <=> k = b)
    BY <1>1, <2>1, <2>2 DEF Shape
  <2>4. LastOf(f, BlockStart) = a + 1
    BY <1>1, <2>1, <2>2, <2>3 DEF LastOf
  <2>5. LastOf(f, BlockEnd) = b
    BY <1>1, <2>1, <2>2, <2>3 DEF LastOf
  <2>. QED
    BY <2>2, <2>4, <2>5
<1>9. ASSUME ~Has(f, BlockStart) PROVE a = b
  <2>1. \A i \in 1 .. Len(f) : f[i] # BlockStart /\ f[i] # BlockEnd
    BY <1>1, <1>7, <1>9 DEF Has, Range
  <2>. QED
    BY <1>1, <2>1 DEF Shape
<1>. QED
  BY <1>3, <1>4, <1>5, <1>6, <1>8, <1>9

(* What write_block writes: the block between the operator's lines.        *)
LEMMA ReplacedIs ==
  ASSUME NEW f \in Seq(Lines), Shaped(f), ~Malformed(f), list \in Seq(Names \ Images)
  PROVE  \E pre \in Seq(OwnLine), mid \in Seq(BlockLine), post \in Seq(OwnLine) :
           /\ f = (pre \o mid) \o post
           /\ Replaced(f) = (pre \o Block) \o post
<1>1. PICK a \in 0 .. Len(f), b \in 0 .. Len(f) : Shape(f, a, b)
  BY DEF Shaped
<1> DEFINE pre == SubSeq(f, 1, a)
           mid == SubSeq(f, a + 1, b)
           post == SubSeq(f, b + 1, Len(f))
<1>2. /\ pre \in Seq(OwnLine) /\ mid \in Seq(BlockLine) /\ post \in Seq(OwnLine)
      /\ f = (pre \o mid) \o post
  BY <1>1, WellFormedParts
<1>3. CASE Has(f, BlockStart)
  <2>1. a < b /\ LastOf(f, BlockStart) = a + 1 /\ LastOf(f, BlockEnd) = b
    BY <1>1, <1>3, WellFormedParts
  <2>2. (a + 1) - 1 = a
    OBVIOUS
  <2>3. Replaced(f) = (pre \o Block) \o post
    BY <1>3, <2>1, <2>2 DEF Replaced
  <2>. QED
    BY <1>2, <2>3
<1>4. CASE ~Has(f, BlockStart)
  <2>1. a = b
    BY <1>1, <1>4, WellFormedParts
  <2>2. mid = <<>>
    BY <2>1
  <2> HIDE DEF pre, mid, post
  <2>3. f \in Seq(OwnLine) /\ f = (f \o <<>>) \o <<>>
    BY <1>2, <2>2
  <2>4. Replaced(f) = f \o Block
    BY <1>4 DEF Replaced
  <2>5. (f \o Block) \o <<>> = f \o Block
    BY <2>3, BlockIs
  <2>6. <<>> \in Seq(BlockLine) /\ <<>> \in Seq(OwnLine)
    OBVIOUS
  <2>. QED
    BY <2>3, <2>4, <2>5, <2>6
<1>. QED
  BY <1>3, <1>4

LEMMA OwnFileShaped ==
  ASSUME NEW f \in Seq(OwnLine)
  PROVE  Shaped(f)
<1>1. Len(f) \in Nat /\ \A i \in DOMAIN f : f[i] \in OwnLine
  OBVIOUS
<1>2. Shape(f, 0, 0)
  BY <1>1, LineKinds DEF Shape
<1>. QED
  BY <1>1, <1>2 DEF Shaped

(* A line of the operator's before the others, or behind them.             *)
LEMMA FirstLineShaped ==
  ASSUME NEW f \in Seq(Lines), Shaped(f), NEW e \in OwnLine
  PROVE  Shaped(<<e>> \o f)
<1>1. PICK a \in 0 .. Len(f), b \in 0 .. Len(f) : Shape(f, a, b)
  BY DEF Shaped
<1> DEFINE g == <<e>> \o f
           n == Len(f)
<1>2. /\ n \in Nat /\ DOMAIN f = 1 .. n /\ a \in 0 .. n /\ b \in 0 .. n /\ e \in Lines
      /\ f \in Seq(Lines)
  BY <1>1, LineKinds
<1>3. Len(g) = n + 1 /\ DOMAIN g = 1 .. n + 1 /\ g[1] = e /\ \A i \in 2 .. n + 1 : g[i] = f[i - 1]
  BY <1>2
<1> HIDE DEF g, n
<1>4. ASSUME NEW i \in 1 .. n + 1
      PROVE  /\ g[i] \in OwnLine <=> ~(a + 1 < i /\ i <= b + 1)
             /\ g[i] = BlockStart => i = a + 2
             /\ g[i] = BlockEnd => i = b + 1
  <2>1. CASE i = 1
    BY <1>2, <1>3, <2>1, LineKinds
  <2>2. CASE i # 1
    <3>1. i - 1 \in 1 .. n /\ g[i] = f[i - 1]
      BY <1>2, <1>3, <2>2
    <3>. QED
      BY <1>1, <1>2, <3>1 DEF Shape
  <2>. QED
    BY <2>1, <2>2
<1>5. a + 1 < b + 1 => (g[a + 2] = BlockStart \/ g[b + 1] = BlockEnd)
  <2> SUFFICES ASSUME a + 1 < b + 1 PROVE g[a + 2] = BlockStart \/ g[b + 1] = BlockEnd
    OBVIOUS
  <2>1. /\ a + 2 \in 2 .. n + 1 /\ b + 1 \in 2 .. n + 1
        /\ (a + 2) - 1 = a + 1 /\ (b + 1) - 1 = b /\ a < b
    BY <1>2
  <2>2. g[a + 2] = f[a + 1] /\ g[b + 1] = f[b]
    BY <1>3, <2>1
  <2>. QED
    BY <1>1, <2>1, <2>2 DEF Shape
<1>6. /\ a + 1 <= b + 1 /\ (a + 1) + 1 = a + 2
      /\ a + 1 \in 0 .. n + 1 /\ b + 1 \in 0 .. n + 1
  BY <1>1, <1>2 DEF Shape
<1>7. Shape(g, a + 1, b + 1)
  BY <1>3, <1>4, <1>5, <1>6 DEF Shape
<1>. QED
  BY <1>3, <1>6, <1>7 DEF Shaped, g

LEMMA LastLineShaped ==
  ASSUME NEW f \in Seq(Lines), Shaped(f), NEW e \in OwnLine
  PROVE  Shaped(Append(f, e))
<1>1. PICK a \in 0 .. Len(f), b \in 0 .. Len(f) : Shape(f, a, b)
  BY DEF Shaped
<1> DEFINE g == Append(f, e)
           n == Len(f)
<1>2. /\ n \in Nat /\ DOMAIN f = 1 .. n /\ a \in 0 .. n /\ b \in 0 .. n /\ e \in Lines
  BY <1>1, LineKinds
<1>3. Len(g) = n + 1 /\ DOMAIN g = 1 .. n + 1 /\ g[n + 1] = e /\ \A i \in 1 .. n : g[i] = f[i]
  BY <1>2
<1> HIDE DEF g, n
<1>4. ASSUME NEW i \in 1 .. n + 1
      PROVE  /\ g[i] \in OwnLine <=> ~(a < i /\ i <= b)
             /\ g[i] = BlockStart => i = a + 1
             /\ g[i] = BlockEnd => i = b
  <2>1. CASE i = n + 1
    BY <1>2, <1>3, <2>1, LineKinds
  <2>2. CASE i # n + 1
    <3>1. i \in 1 .. n /\ g[i] = f[i]
      BY <1>2, <1>3, <2>2
    <3>. QED
      BY <1>1, <1>2, <3>1 DEF Shape
  <2>. QED
    BY <2>1, <2>2
<1>5. a < b => (g[a + 1] = BlockStart \/ g[b] = BlockEnd)
  <2>1. a < b => (a + 1 \in 1 .. n /\ b \in 1 .. n)
    BY <1>2
  <2>. QED
    BY <1>1, <1>3, <2>1 DEF Shape
<1>6. a <= b /\ a \in 0 .. n + 1 /\ b \in 0 .. n + 1
  BY <1>1, <1>2 DEF Shape
<1>7. Shape(g, a, b)
  BY <1>3, <1>4, <1>5, <1>6 DEF Shape
<1>. QED
  BY <1>3, <1>6, <1>7 DEF Shaped, g

(* A line of the operator's, or a sentinel, is deleted.                    *)
LEMMA RemovedIs ==
  ASSUME NEW S, NEW f \in Seq(S), NEW i \in DOMAIN f
  PROVE  /\ RemoveAt(f, i) \in Seq(S)
         /\ Len(f) \in Nat \ {0} /\ i \in 1 .. Len(f) /\ DOMAIN f = 1 .. Len(f)
         /\ Len(RemoveAt(f, i)) = Len(f) - 1
         /\ \A k \in 1 .. Len(f) - 1 : RemoveAt(f, i)[k] = IF k < i THEN f[k] ELSE f[k + 1]
<1> DEFINE n == Len(f)
           p == SubSeq(f, 1, i - 1)
           q == SubSeq(f, i + 1, n)
<1>1. n \in Nat \ {0} /\ i \in 1 .. n /\ DOMAIN f = 1 .. n /\ \A k \in 1 .. n : f[k] \in S
  OBVIOUS
<1>2. p \in Seq(S) /\ Len(p) = i - 1 /\ \A k \in 1 .. i - 1 : p[k] = f[k]
  BY <1>1
<1>3. q \in Seq(S) /\ Len(q) = n - i /\ \A k \in 1 .. n - i : q[k] = f[k + i]
  BY <1>1
<1>4. RemoveAt(f, i) = p \o q
  BY DEF RemoveAt
<1> HIDE DEF n, p, q
<1> DEFINE w == p \o q
<1>5. /\ w \in Seq(S) /\ Len(w) = Len(p) + Len(q)
      /\ \A k \in 1 .. Len(p) + Len(q) : w[k] = IF k <= Len(p) THEN p[k] ELSE q[k - Len(p)]
  BY <1>2, <1>3, ConcatProperties, Zenon
<1> HIDE DEF w
<1>6. ASSUME NEW k \in 1 .. n - 1
      PROVE  w[k] = IF k < i THEN f[k] ELSE f[k + 1]
  <2>1. k \in 1 .. Len(p) + Len(q) /\ (k <= Len(p) <=> k < i) /\ Len(p) = i - 1
    BY <1>1, <1>2, <1>3
  <2>2. CASE k < i
    <3>1. w[k] = p[k] /\ k \in 1 .. i - 1
      BY <1>1, <1>5, <2>1, <2>2
    <3>. QED
      BY <1>2, <2>2, <3>1
  <2>3. CASE ~(k < i)
    <3>1. w[k] = q[k - (i - 1)]
      BY <1>5, <2>1, <2>3
    <3>2. k - (i - 1) \in 1 .. n - i /\ (k - (i - 1)) + i = k + 1
      BY <1>1, <2>3
    <3>. QED
      BY <1>3, <2>3, <3>1, <3>2
  <2>. QED
    BY <2>2, <2>3
<1>7. RemoveAt(f, i) = w /\ Len(w) = n - 1
  BY <1>1, <1>2, <1>3, <1>4, <1>5 DEF w
<1>. QED
  BY <1>1, <1>5, <1>6, <1>7 DEF n

LEMMA RemovedShaped ==
  ASSUME NEW f \in Seq(Lines), Shaped(f), ~Malformed(f),
         NEW i \in DOMAIN f, f[i].kind # "entry"
  PROVE  Shaped(RemoveAt(f, i))
<1>1. PICK a \in 0 .. Len(f), b \in 0 .. Len(f) : Shape(f, a, b)
  BY DEF Shaped
<1> DEFINE g == RemoveAt(f, i)
           n == Len(f)
           c == IF i <= a THEN a - 1 ELSE a
           d == IF i <= b THEN b - 1 ELSE b
<1>2. /\ n \in Nat \ {0} /\ i \in 1 .. n /\ DOMAIN f = 1 .. n
      /\ a \in 0 .. n /\ b \in 0 .. n /\ a <= b
  BY <1>1, RemovedIs DEF Shape
<1>3. /\ g \in Seq(Lines) /\ Len(g) = n - 1 /\ DOMAIN g = 1 .. n - 1
      /\ \A k \in 1 .. n - 1 : g[k] = IF k < i THEN f[k] ELSE f[k + 1]
  <2>1. g \in Seq(Lines) /\ Len(g) = n - 1
    BY RemovedIs
  <2>2. \A k \in 1 .. n - 1 : g[k] = IF k < i THEN f[k] ELSE f[k + 1]
    BY RemovedIs
  <2> HIDE DEF g
  <2>. QED
    BY <2>1, <2>2
<1>4. a < b => (f[a + 1] = BlockStart /\ f[b] = BlockEnd)
  <2> SUFFICES ASSUME a < b PROVE f[a + 1] = BlockStart /\ f[b] = BlockEnd
    OBVIOUS
  <2>1. Has(f, BlockStart) /\ Has(f, BlockEnd)
    <3>1. a + 1 \in 1 .. n /\ b \in 1 .. n
      BY <1>2
    <3>2. f[a + 1] = BlockStart \/ f[b] = BlockEnd
      BY <1>1 DEF Shape
    <3>. QED
      BY <1>2, <3>1, <3>2 DEF Malformed, Has, Range
  <2>2. PICK k \in 1 .. n, l \in 1 .. n : f[k] = BlockStart /\ f[l] = BlockEnd
    BY <1>2, <2>1 DEF Has, Range
  <2>. QED
    BY <1>1, <1>2, <2>2 DEF Shape
<1>5. f[i] \in OwnLine \/ (i = a + 1 /\ f[i] = BlockStart) \/ (i = b /\ f[i] = BlockEnd)
  <2>1. f[i] \in Lines
    BY <1>2
  <2>. QED
    BY <1>1, <1>2, <2>1, LineKinds DEF Shape
<1>6. \A k \in 1 .. n : /\ f[k] \in OwnLine <=> ~(a < k /\ k <= b)
                        /\ f[k] = BlockStart => k = a + 1
                        /\ f[k] = BlockEnd => k = b
  BY <1>1, <1>2 DEF Shape
<1> HIDE DEF g, n
<1>7. c <= d /\ c \in 0 .. n - 1 /\ d \in 0 .. n - 1
  BY <1>2
<1>8. i <= a \/ b < i \/ i = a + 1 \/ i = b
  BY <1>2, <1>5, <1>6
<1>9. ASSUME NEW k \in 1 .. n - 1
      PROVE  /\ g[k] \in OwnLine <=> ~(c < k /\ k <= d)
             /\ g[k] = BlockStart => k = c + 1
             /\ g[k] = BlockEnd => k = d
  <2>1. CASE k < i
    <3>1. k \in 1 .. n /\ g[k] = f[k]
      BY <1>2, <1>3, <2>1
    <3>2. /\ (a < k /\ k <= b) <=> (c < k /\ k <= d)
          /\ k = a + 1 => k = c + 1
          /\ k = b => k = d
      BY <1>2, <2>1
    <3>. QED
      BY <1>6, <3>1, <3>2
  <2>2. CASE ~(k < i)
    <3>1. k + 1 \in 1 .. n /\ g[k] = f[k + 1]
      BY <1>2, <1>3, <2>2
    <3>2. /\ (a < k + 1 /\ k + 1 <= b) <=> (c < k /\ k <= d)
          /\ k + 1 = a + 1 => k = c + 1
          /\ k + 1 = b => k = d
      BY <1>2, <2>2, <1>8
    <3>. QED
      BY <1>6, <3>1, <3>2
  <2>. QED
    BY <2>1, <2>2
<1>10. c < d => (g[c + 1] = BlockStart \/ g[d] = BlockEnd)
  <2> SUFFICES ASSUME c < d PROVE g[c + 1] = BlockStart \/ g[d] = BlockEnd
    OBVIOUS
  <2>1. a < b
    BY <1>2
  <2>2. CASE i = a + 1
    <3>1. d = b - 1 /\ d \in 1 .. n - 1 /\ ~(d < i) /\ d + 1 = b
      BY <1>2, <2>1, <2>2
    <3>. QED
      BY <1>3, <1>4, <2>1, <3>1
  <2>3. CASE i # a + 1
    <3>1. c + 1 \in 1 .. n - 1 /\ (i <= a => (~(c + 1 < i) /\ (c + 1) + 1 = a + 1))
          /\ (~(i <= a) => (c + 1 < i /\ c + 1 = a + 1))
      BY <1>2, <2>1, <2>3
    <3>. QED
      BY <1>3, <1>4, <2>1, <3>1
  <2>. QED
    BY <2>2, <2>3
<1> HIDE DEF c, d
<1>11. Shape(g, c, d)
  BY <1>3, <1>7, <1>9, <1>10 DEF Shape
<1>. QED
  BY <1>3, <1>7, <1>11 DEF Shaped, g

(* A file with one block, and what a crash may leave of it.                *)
LEMMA SplicedShape ==
  ASSUME NEW pre \in Seq(OwnLine), NEW post \in Seq(OwnLine), list \in Seq(Names \ Images)
  PROVE  LET g == (pre \o Block) \o post
             b == Len(pre) + Len(Block)
         IN  /\ g \in Seq(Lines) /\ Len(pre) \in 0 .. Len(g) /\ b \in 0 .. Len(g)
             /\ Shape(g, Len(pre), b) /\ Len(pre) < b /\ g[Len(pre) + 1] = BlockStart
<1> DEFINE a == Len(pre)
           m == Len(Block)
           n == Len(post)
           u == pre \o Block
           g == u \o post
<1>1. /\ a \in Nat /\ n \in Nat /\ m \in Nat /\ m >= 2
      /\ pre \in Seq(Lines) /\ Block \in Seq(Lines) /\ post \in Seq(Lines)
      /\ \A i \in 1 .. a : pre[i] \in OwnLine
      /\ \A i \in 1 .. n : post[i] \in OwnLine
      /\ \A i \in 1 .. m : Block[i] \in BlockLine
  <2>1. Block \in Seq(BlockLine) /\ m = Len(list) + 2 /\ Len(list) \in Nat
    BY BlockIs
  <2>2. a \in Nat /\ n \in Nat /\ m \in Nat /\ m >= 2
    BY <2>1
  <2>3. pre \in Seq(Lines) /\ Block \in Seq(Lines) /\ post \in Seq(Lines)
    BY <2>1, LineKinds
  <2>4. \A i \in 1 .. a : pre[i] \in OwnLine
    OBVIOUS
  <2>5. \A i \in 1 .. n : post[i] \in OwnLine
    OBVIOUS
  <2>6. \A i \in 1 .. m : Block[i] \in BlockLine
    BY <2>1
  <2>. QED
    BY <2>2, <2>3, <2>4, <2>5, <2>6
<1>2. /\ u \in Seq(Lines) /\ Len(u) = a + m
      /\ \A i \in 1 .. a + m : u[i] = IF i <= a THEN pre[i] ELSE Block[i - a]
  <2>1. pre \in Seq(Lines) /\ Block \in Seq(Lines)
    BY <1>1
  <2>. QED
    BY <2>1, ConcatProperties, Zenon
<1> HIDE DEF u
<1>3. /\ g \in Seq(Lines) /\ Len(g) = Len(u) + n
      /\ \A i \in 1 .. Len(u) + n : g[i] = IF i <= Len(u) THEN u[i] ELSE post[i - Len(u)]
  <2>1. u \in Seq(Lines) /\ post \in Seq(Lines)
    BY <1>1, <1>2
  <2>. QED
    BY <2>1, ConcatProperties, Zenon
<1>4. /\ Block[1] = BlockStart /\ Block[m] = BlockEnd
      /\ \A i \in 1 .. m : (Block[i] = BlockStart => i = 1) /\ (Block[i] = BlockEnd => i = m)
  <2>1. /\ m = Len(list) + 2 /\ Block[1] = BlockStart /\ Block[m] = BlockEnd
        /\ Len(list) \in Nat /\ \A i \in 2 .. Len(list) + 1 : Block[i] \in Entries
    BY BlockIs
  <2> HIDE DEF m
  <2>2. ASSUME NEW i \in 1 .. m
        PROVE  (Block[i] = BlockStart => i = 1) /\ (Block[i] = BlockEnd => i = m)
    <3>1. i = 1 \/ i = m \/ i \in 2 .. Len(list) + 1
      BY <1>1, <2>1
    <3>. QED
      BY <2>1, <3>1, LineKinds
  <2>. QED
    BY <2>1, <2>2
<1> HIDE DEF g, a, m, n
<1>5. DOMAIN g = 1 .. a + m + n /\ Len(g) = a + m + n
  BY <1>1, <1>2, <1>3
<1>6. ASSUME NEW i \in 1 .. a + m + n
      PROVE  /\ g[i] \in OwnLine <=> ~(a < i /\ i <= a + m)
             /\ g[i] = BlockStart => i = a + 1
             /\ g[i] = BlockEnd => i = a + m
  <2>1. CASE i <= a
    <3>1. g[i] = pre[i] /\ i \in 1 .. a
      BY <1>1, <1>2, <1>3, <2>1
    <3>. QED
      BY <1>1, <2>1, <3>1, LineKinds
  <2>2. CASE a < i /\ i <= a + m
    <3>1. g[i] = Block[i - a] /\ i - a \in 1 .. m
      BY <1>1, <1>2, <1>3, <2>2
    <3>2. Block[i - a] \in BlockLine
      BY <1>1, <3>1
    <3>3. (i - a = 1 => i = a + 1) /\ (i - a = m => i = a + m)
      BY <1>1
    <3>. QED
      BY <1>4, <2>2, <3>1, <3>2, <3>3, LineKinds
  <2>3. CASE a + m < i
    <3>1. g[i] = post[i - (a + m)] /\ i - (a + m) \in 1 .. n
      BY <1>1, <1>2, <1>3, <2>3
    <3>2. post[i - (a + m)] \in OwnLine
      BY <1>1, <3>1
    <3>. QED
      BY <1>1, <2>3, <3>1, <3>2, LineKinds
  <2>. QED
    BY <1>1, <2>1, <2>2, <2>3
<1>7. g[a + 1] = BlockStart
  <2>1. a + 1 \in 1 .. a + m /\ (a + 1) - a = 1 /\ ~(a + 1 <= a)
    BY <1>1
  <2>2. g[a + 1] = u[a + 1] /\ u[a + 1] = Block[1]
    BY <1>1, <1>2, <1>3, <2>1
  <2>. QED
    BY <1>4, <2>2
<1>8. a <= a + m /\ a < a + m /\ a \in 0 .. Len(g) /\ a + m \in 0 .. Len(g)
  BY <1>1, <1>5
<1>9. Shape(g, a, a + m)
  BY <1>5, <1>6, <1>7, <1>8 DEF Shape
<1>. QED
  BY <1>3, <1>7, <1>8, <1>9 DEF g, a, m, u

LEMMA PrefixShaped ==
  ASSUME NEW g \in Seq(Lines), NEW a \in 0 .. Len(g), NEW b \in 0 .. Len(g), Shape(g, a, b),
         a < b, g[a + 1] = BlockStart,
         NEW t \in Prefixes(g)
  PROVE  Shaped(t)
<1>1. PICK l \in 0 .. Len(g) : t = SubSeq(g, 1, l)
  BY DEF Prefixes
<1>2. /\ Len(g) \in Nat /\ l \in Nat /\ Len(t) = l /\ DOMAIN t = 1 .. l
      /\ DOMAIN g = 1 .. Len(g) /\ \A i \in 1 .. l : t[i] = g[i]
  BY <1>1
<1> DEFINE c == IF l < a THEN l ELSE a
           d == IF l < b THEN l ELSE b
<1>3. c <= d /\ c \in 0 .. l /\ d \in 0 .. l
  BY <1>2
<1>4. ASSUME NEW i \in 1 .. l
      PROVE  /\ t[i] \in OwnLine <=> ~(c < i /\ i <= d)
             /\ t[i] = BlockStart => i = c + 1
             /\ t[i] = BlockEnd => i = d
  <2>1. i \in DOMAIN g /\ t[i] = g[i]
    BY <1>2
  <2>2. /\ g[i] \in OwnLine <=> ~(a < i /\ i <= b)
        /\ g[i] = BlockStart => i = a + 1
        /\ g[i] = BlockEnd => i = b
    BY <2>1 DEF Shape
  <2>3. /\ (a < i /\ i <= b) <=> (c < i /\ i <= d)
        /\ i = a + 1 => i = c + 1
        /\ i = b => i = d
    BY <1>2
  <2>. QED
    BY <2>1, <2>2, <2>3
<1>5. c < d => t[c + 1] = BlockStart
  <2>1. c < d => (c = a /\ c + 1 \in 1 .. l)
    BY <1>2
  <2>. QED
    BY <1>2, <2>1
<1> HIDE DEF c, d
<1>6. Shape(t, c, d)
  BY <1>2, <1>3, <1>4, <1>5 DEF Shape
<1>. QED
  BY <1>2, <1>3, <1>6 DEF Shaped

(* What write_block writes, and what a crash leaves of it, is a file of    *)
(* this shape again.                                                       *)
LEMMA WrittenShaped ==
  ASSUME NEW f \in Seq(Lines), Shaped(f), ~Malformed(f), list \in Seq(Names \ Images)
  PROVE  /\ Replaced(f) \in Seq(Lines) /\ Shaped(Replaced(f))
         /\ \A t \in Prefixes(Replaced(f)) : t \in Seq(Lines) /\ Shaped(t)
<1>1. PICK pre \in Seq(OwnLine), mid \in Seq(BlockLine), post \in Seq(OwnLine) :
        Replaced(f) = (pre \o Block) \o post
  BY ReplacedIs
<1> DEFINE g == Replaced(f)
           a == Len(pre)
           b == Len(pre) + Len(Block)
<1>2. /\ g \in Seq(Lines) /\ a \in 0 .. Len(g) /\ b \in 0 .. Len(g)
      /\ Shape(g, a, b) /\ a < b /\ g[a + 1] = BlockStart
  BY <1>1, SplicedShape, Zenon
<1> HIDE DEF g, a, b
<1>3. Shaped(g)
  BY <1>2 DEF Shaped
<1>4. \A t \in Prefixes(g) : t \in Seq(Lines) /\ Shaped(t)
  BY <1>2, PrefixesTyped, PrefixShaped
<1>. QED
  BY <1>2, <1>3, <1>4 DEF g

(* The new file has the operator's lines of the old one and its own block. *)
LEMMA WrittenIs ==
  ASSUME NEW f \in Seq(Lines), Shaped(f), ~Malformed(f), list \in Seq(Names \ Images)
  PROVE  /\ OwnLines(Replaced(f)) = OwnLines(f)
         /\ Only(Replaced(f), BlockLine) = Block
         /\ Only(f, BlockLine) = Block => Replaced(f) = f
<1>1. PICK pre \in Seq(OwnLine), mid \in Seq(BlockLine), post \in Seq(OwnLine) :
        f = (pre \o mid) \o post /\ Replaced(f) = (pre \o Block) \o post
  BY ReplacedIs
<1>2. ASSUME NEW blk \in Seq(BlockLine)
      PROVE  /\ OwnLines((pre \o blk) \o post) = pre \o post
             /\ Only((pre \o blk) \o post, BlockLine) = blk
  <2>1. pre \in Seq(Lines) /\ post \in Seq(Lines) /\ blk \in Seq(Lines)
    BY LineKinds
  <2>2. pre \o blk \in Seq(Lines)
    BY <2>1
  <2>3. /\ OwnLines((pre \o blk) \o post) = (OwnLines(pre) \o OwnLines(blk)) \o OwnLines(post)
        /\ Only((pre \o blk) \o post, BlockLine)
              = (Only(pre, BlockLine) \o Only(blk, BlockLine)) \o Only(post, BlockLine)
    <3>1. /\ OwnLines((pre \o blk) \o post) = OwnLines(pre \o blk) \o OwnLines(post)
          /\ Only((pre \o blk) \o post, BlockLine) = Only(pre \o blk, BlockLine) \o Only(post, BlockLine)
      BY <2>1, <2>2, OwnLinesOf, Zenon
    <3>2. /\ OwnLines(pre \o blk) = OwnLines(pre) \o OwnLines(blk)
          /\ Only(pre \o blk, BlockLine) = Only(pre, BlockLine) \o Only(blk, BlockLine)
      BY <2>1, OwnLinesOf, Zenon
    <3>. QED
      BY <3>1, <3>2, Zenon
  <2>4. /\ OwnLines(pre) = pre /\ OwnLines(blk) = <<>> /\ OwnLines(post) = post
        /\ Only(pre, BlockLine) = <<>> /\ Only(blk, BlockLine) = blk /\ Only(post, BlockLine) = <<>>
    BY OwnLinesOf, Zenon
  <2>5. /\ (pre \o <<>>) \o post = pre \o post
        /\ (<<>> \o blk) \o <<>> = blk
    BY ConcatEmptySeq
  <2>. QED
    BY <2>3, <2>4, <2>5, Zenon
<1>3. Block \in Seq(BlockLine)
  BY BlockIs
<1>. QED
  BY <1>1, <1>2, <1>3, Zenon

-----------------------------------------------------------------------------
(* The invariant.                                                          *)

Typed ==
  /\ file \in Seq(Lines) /\ bak \in Seq(Lines) /\ was \in Seq(Lines)
  /\ mine \in Seq(OwnLine)
  /\ pc \in Phases
  /\ list \in Seq(Names \ Images)

(* What is where: the operator's lines are in the file until the backup    *)
(* has been written, and in the backup until the file has been.            *)
Kept ==
  /\ pc \in {"build", "read", "backup"} => Whole
  /\ pc = "backup" => was = file
  /\ pc \in {"write", "reload"} => (bak = was /\ OwnLines(bak) = mine)
  /\ pc = "reload" => file = Replaced(was)
  /\ (pc = "idle" /\ ~Whole) => OwnLines(bak) = mine

(* Every file that a run may start from has the shape that it can splice.  *)
FilesShaped ==
  /\ Shaped(file)
  /\ pc \in {"backup", "write", "reload"} => Shaped(was)
  /\ pc \in {"write", "reload"} => ~Malformed(was)
  /\ (pc = "idle" /\ ~Whole) => Shaped(bak)

RegisterInv == Typed /\ NamesOnce /\ Kept /\ FilesShaped

LEMMA EmptyFile == <<>> \in Seq(Lines) /\ <<>> \in Seq(OwnLine) /\ Shaped(<<>>) /\ OwnLines(<<>>) = <<>>
<1>1. <<>> \in Seq(Lines) /\ <<>> \in Seq(OwnLine)
  OBVIOUS
<1>. QED
  BY <1>1, OwnFileShaped, OwnLinesOf, Zenon

LEMMA InitInv == Init => RegisterInv
<1> SUFFICES ASSUME Init PROVE RegisterInv
  OBVIOUS
<1>1. file \in Seq(OwnLine)
  <2>1. file = <<>> \/ \E line \in OwnLine : file = <<line>>
    BY DEF Init
  <2>2. <<>> \in Seq(OwnLine) /\ \A line \in OwnLine : <<line>> \in Seq(OwnLine)
    OBVIOUS
  <2>. QED
    BY <2>1, <2>2
<1>2. file \in Seq(Lines) /\ Shaped(file) /\ OwnLines(file) = mine
  <2>1. file \in Seq(Lines)
    BY <1>1, LineKinds
  <2>. QED
    BY <1>1, <2>1, OwnFileShaped, OwnLinesOf DEF Init
<1>3. pc = "idle" /\ mine = file /\ bak = <<>> /\ was = <<>> /\ list = <<>>
  BY DEF Init
<1>4. Typed
  BY <1>1, <1>2, <1>3 DEF Typed, Phases
<1>5. NamesOnce
  BY <1>3 DEF NamesOnce, IsInjective
<1>6. Kept /\ FilesShaped
  BY <1>2, <1>3 DEF Kept, FilesShaped, Whole
<1>. QED
  BY <1>4, <1>5, <1>6 DEF RegisterInv

LEMMA RunInv == RegisterInv /\ Run => RegisterInv'
<1> SUFFICES ASSUME RegisterInv, Run PROVE RegisterInv'
  OBVIOUS
<1>. QED
  BY DEF RegisterInv, Run, Typed, Phases, NamesOnce, Kept, FilesShaped, Whole

LEMMA RefuseInv == RegisterInv /\ Refuse => RegisterInv'
<1> SUFFICES ASSUME RegisterInv, Refuse PROVE RegisterInv'
  OBVIOUS
<1>. QED
  BY DEF RegisterInv, Refuse, Typed, Phases, NamesOnce, Kept, FilesShaped, Whole

LEMMA BuildInv == RegisterInv /\ Build => RegisterInv'
<1> SUFFICES ASSUME RegisterInv, Build PROVE RegisterInv'
  OBVIOUS
<1>1. list' \in Seq(Names \ Images) /\ IsInjective(list')
  BY ModelListsAre DEF Build
<1>. QED
  BY <1>1 DEF RegisterInv, Build, Typed, Phases, NamesOnce, Kept, FilesShaped, Whole

LEMMA OpenBackupInv == RegisterInv /\ OpenBackup => RegisterInv'
<1> SUFFICES ASSUME RegisterInv, OpenBackup PROVE RegisterInv'
  OBVIOUS
<1>. QED
  BY EmptyFile DEF RegisterInv, OpenBackup, Typed, Phases, NamesOnce, Kept, FilesShaped, Whole

LEMMA WriteBackupInv == RegisterInv /\ WriteBackup => RegisterInv'
<1> SUFFICES ASSUME RegisterInv, WriteBackup PROVE RegisterInv'
  OBVIOUS
<1>. QED
  BY EmptyFile
     DEF RegisterInv, WriteBackup, Saved, Typed, Phases, NamesOnce, Kept, FilesShaped, Whole, Malformed

LEMMA RefuseMalformedInv == RegisterInv /\ RefuseMalformed => RegisterInv'
<1> SUFFICES ASSUME RegisterInv, RefuseMalformed PROVE RegisterInv'
  OBVIOUS
<1>. QED
  BY DEF RegisterInv, RefuseMalformed, Saved, Typed, Phases, NamesOnce, Kept, FilesShaped, Whole

LEMMA WriteFileInv == RegisterInv /\ WriteFile => RegisterInv'
<1> SUFFICES ASSUME RegisterInv, WriteFile PROVE RegisterInv'
  OBVIOUS
<1>1. Replaced(was) \in Seq(Lines) /\ Shaped(Replaced(was))
  BY WrittenShaped DEF RegisterInv, WriteFile, Typed, FilesShaped
<1>2. Replaced(was)' = Replaced(was) /\ Malformed(was)' = Malformed(was)
  BY DEF WriteFile, Replaced, Block, Malformed
<1>. QED
  BY <1>1, <1>2 DEF RegisterInv, WriteFile, Typed, Phases, NamesOnce, Kept, FilesShaped, Whole

LEMMA ReloadInv == RegisterInv /\ Reload => RegisterInv'
<1> SUFFICES ASSUME RegisterInv, Reload PROVE RegisterInv'
  OBVIOUS
<1>. QED
  BY DEF RegisterInv, Reload, Typed, Phases, NamesOnce, Kept, FilesShaped, Whole

LEMMA CrashInv == RegisterInv /\ Crash => RegisterInv'
<1> SUFFICES ASSUME RegisterInv, Crash PROVE RegisterInv'
  OBVIOUS
<1>1. bak' \in Seq(Lines)
  BY PrefixesTyped DEF RegisterInv, Crash, Typed, Saved
<1>2. file' \in Seq(Lines) /\ Shaped(file')
  BY WrittenShaped DEF RegisterInv, Crash, Typed, FilesShaped
<1>3. UNCHANGED <<list, was, mine>> /\ pc' = "idle"
  BY DEF Crash
<1>4. ~Whole' => (bak' = was /\ OwnLines(bak') = mine /\ Shaped(was))
  BY DEF RegisterInv, Crash, Kept, FilesShaped, Whole, Phases, Typed
<1>. QED
  BY <1>1, <1>2, <1>3, <1>4 DEF RegisterInv, Typed, Phases, NamesOnce, Kept, FilesShaped, Whole

LEMMA EditInv == RegisterInv /\ (\E text \in OwnTexts : Edit(text)) => RegisterInv'
<1> SUFFICES ASSUME RegisterInv, NEW text \in OwnTexts, Edit(text) PROVE RegisterInv'
  OBVIOUS
<1> DEFINE e == Own(text)
<1>1. /\ e \in OwnLine /\ <<e>> \in Seq(OwnLine) /\ <<e>> \in Seq(Lines)
      /\ file \in Seq(Lines) /\ mine \in Seq(OwnLine) /\ OwnLines(file) = mine /\ Shaped(file)
  <2>1. e \in OwnLine
    BY DEF OwnLine
  <2>. QED
    BY <2>1, LineKinds DEF RegisterInv, Typed, FilesShaped, Edit, Whole
<1>2. UNCHANGED <<bak, pc, list, was>> /\ pc = "idle"
  BY DEF Edit
<1> HIDE DEF e
<1>3. /\ file' \in Seq(Lines) /\ mine' \in Seq(OwnLine) /\ Shaped(file') /\ OwnLines(file') = mine'
  <2>1. CASE file' = <<e>> \o file /\ mine' = <<e>> \o mine
    <3>1. <<e>> \o file \in Seq(Lines) /\ <<e>> \o mine \in Seq(OwnLine)
      BY <1>1
    <3>2. OwnLines(<<e>> \o file) = OwnLines(<<e>>) \o OwnLines(file) /\ OwnLines(<<e>>) = <<e>>
      BY <1>1, OwnLinesOf, Zenon
    <3>3. Shaped(<<e>> \o file)
      BY <1>1, FirstLineShaped
    <3>. QED
      BY <1>1, <2>1, <3>1, <3>2, <3>3
  <2>2. CASE file' = Append(file, e) /\ mine' = Append(mine, e)
    <3>1. Append(file, e) = file \o <<e>> /\ Append(mine, e) = mine \o <<e>> /\ e \in Lines
      BY <1>1, LineKinds
    <3>2. Append(file, e) \in Seq(Lines) /\ Append(mine, e) \in Seq(OwnLine)
      BY <1>1, <3>1
    <3>3. OwnLines(file \o <<e>>) = OwnLines(file) \o OwnLines(<<e>>) /\ OwnLines(<<e>>) = <<e>>
      BY <1>1, OwnLinesOf, Zenon
    <3>4. Shaped(Append(file, e))
      BY <1>1, LastLineShaped
    <3>. QED
      BY <1>1, <2>2, <3>1, <3>2, <3>3, <3>4
  <2>. QED
    BY <2>1, <2>2 DEF Edit, e
<1>. QED
  BY <1>2, <1>3 DEF RegisterInv, Typed, NamesOnce, Kept, FilesShaped, Whole

LEMMA DeleteInv == RegisterInv /\ (\E i \in DOMAIN file : Delete(i)) => RegisterInv'
<1> SUFFICES ASSUME RegisterInv, NEW i \in DOMAIN file, Delete(i) PROVE RegisterInv'
  OBVIOUS
<1>1. file' = RemoveAt(file, i) /\ mine' = OwnLines(RemoveAt(file, i))
  BY DEF Delete
<1>2. file' \in Seq(Lines)
  BY <1>1, RemovedIs DEF RegisterInv, Typed
<1>3. mine' \in Seq(OwnLine)
  BY <1>1, <1>2, OwnLinesOf
<1>4. Shaped(file')
  BY <1>1, RemovedShaped DEF RegisterInv, Typed, FilesShaped, Delete
<1>5. UNCHANGED <<bak, pc, list, was>> /\ pc = "idle" /\ OwnLines(file') = mine'
  BY <1>1 DEF Delete
<1>. QED
  BY <1>2, <1>3, <1>4, <1>5 DEF RegisterInv, Typed, NamesOnce, Kept, FilesShaped, Whole

LEMMA FixInv == RegisterInv /\ Fix => RegisterInv'
<1> SUFFICES ASSUME RegisterInv, Fix PROVE RegisterInv'
  OBVIOUS
<1>1. mine \in Seq(OwnLine) /\ mine \in Seq(Lines)
  BY LineKinds DEF RegisterInv, Typed
<1>2. Shaped(mine) /\ OwnLines(mine) = mine
  BY <1>1, OwnFileShaped, OwnLinesOf
<1>. QED
  BY <1>1, <1>2 DEF RegisterInv, Fix, Typed, NamesOnce, Kept, FilesShaped, Whole

LEMMA RestoreInv == RegisterInv /\ Restore => RegisterInv'
<1> SUFFICES ASSUME RegisterInv, Restore PROVE RegisterInv'
  OBVIOUS
<1>. QED
  BY DEF RegisterInv, Restore, Typed, NamesOnce, Kept, FilesShaped, Whole

LEMMA NextInv == RegisterInv /\ [Next]_vars => RegisterInv'
<1> SUFFICES ASSUME RegisterInv, [Next]_vars PROVE RegisterInv'
  OBVIOUS
<1>1. CASE UNCHANGED vars
  BY <1>1 DEF vars, RegisterInv, Typed, NamesOnce, Kept, FilesShaped, Whole, Replaced, Block, Malformed
<1>. QED
  BY <1>1, RunInv, RefuseInv, BuildInv, OpenBackupInv, WriteBackupInv, RefuseMalformedInv,
     WriteFileInv, ReloadInv, CrashInv, EditInv, DeleteInv, FixInv, RestoreInv DEF Next

(* The inductive invariant: types, where the operator's lines are, and the *)
(* shape of every file that a run may start from.                          *)
THEOREM RegisterInvariance == Spec => []RegisterInv
<1>. QED
  BY InitInv, NextInv, PTL DEF Spec

(* The files are sequences of lines, and fetch_xai_models keeps the image  *)
(* models out of the list.                                                 *)
THEOREM TypeOKHolds == Spec => []TypeOK
<1>1. RegisterInv => TypeOK
  BY LineKinds DEF RegisterInv, Typed, TypeOK
<1>. QED
  BY <1>1, RegisterInvariance, PTL

(* build_model_list offers a name once, whatever the catalog and the       *)
(* forwarder have in common.                                               *)
THEOREM NamesOnceHolds == Spec => []NamesOnce
<1>1. RegisterInv => NamesOnce
  BY DEF RegisterInv
<1>. QED
  BY <1>1, RegisterInvariance, PTL

(* write_block leaves the operator's lines as they were, puts one block    *)
(* among them, and changes nothing the second time.                        *)
THEOREM BlockReplacedHolds == Spec => []BlockReplaced
<1>1. ASSUME RegisterInv, pc = "reload"
      PROVE  was \in Seq(Lines) /\ Shaped(was) /\ ~Malformed(was) /\ file = Replaced(was)
               /\ list \in Seq(Names \ Images)
  BY <1>1 DEF RegisterInv, Typed, Kept, FilesShaped
<1>2. RegisterInv => BlockReplaced
  BY <1>1, WrittenIs DEF BlockReplaced
<1>. QED
  BY <1>2, RegisterInvariance, PTL

(* A crash, or a full disk, at any point of register-proxy leaves all of   *)
(* the operator's lines in the file or in its backup.                      *)
THEOREM NothingLostHolds == Spec => []NothingLost
<1>1. RegisterInv => NothingLost
  BY DEF RegisterInv, Typed, Phases, Kept, Whole, NothingLost
<1>. QED
  BY <1>1, RegisterInvariance, PTL

=============================================================================
