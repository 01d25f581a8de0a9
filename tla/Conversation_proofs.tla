------------------------ MODULE Conversation_proofs ------------------------
(***************************************************************************)
(* For conversations of any length, any messages, tools, inputs and call   *)
(* IDs: that a history is converted to all that was said, that a client is *)
(* called by the tools it declared, that what the plugin answered it       *)
(* accepts again, and that the upstream can tell the tools apart.          *)
(*                                                                         *)
(* A history is converted as a whole at each request, but it grows by one  *)
(* item at a time.  So the proof says of each operator on a whole history  *)
(* what one element more makes of it, which needs induction only in the    *)
(* first place: that a list flattened or converted agrees with the same    *)
(* list in front of one more.  What an answer adds is then put together of *)
(* the items it consists of.                                               *)
(***************************************************************************)
EXTENDS Conversation, WellFoundedInduction, FiniteSetTheorems, TLAPS

-----------------------------------------------------------------------------
(* Lists. *)

\* A sequence over any set is a list.
LEMMA ListIntro == ASSUME NEW S, NEW s \in Seq(S) PROVE IsList(s)
<1>1. \A i \in 1 .. Len(s) : s[i] \in ToSet(s)
    BY DEF ToSet
<1> QED BY <1>1 DEF IsList

\* A list is a function on the numbers up to its length.
LEMMA ListShape ==
    ASSUME NEW s, IsList(s)
    PROVE  /\ Len(s) \in Nat /\ DOMAIN s = 1 .. Len(s)
           /\ s = [i \in 1 .. Len(s) |-> s[i]]
BY DEF IsList

\* s is a function on the first n numbers.
Indexed(s, n) == s = [i \in 1 .. n |-> s[i]]

\* Such a function is a list.
LEMMA FunctionIsList ==
    ASSUME NEW n \in Nat, NEW s, Indexed(s, n) PROVE IsList(s) /\ Len(s) = n
<1> USE DEF Indexed
<1>1. \A i \in 1 .. n : s[i] \in {s[j] : j \in 1 .. n}
    OBVIOUS
<1>2. [i \in 1 .. n |-> s[i]] \in [1 .. n -> {s[j] : j \in 1 .. n}]
    BY <1>1
<1>3. s \in Seq({s[j] : j \in 1 .. n})
    BY <1>2
<1>4. Len(s) = n
    BY <1>3
<1> QED BY <1>3, <1>4, ListIntro

\* Lists are equal if they are as long and agree everywhere.
LEMMA SameList ==
    ASSUME NEW s, NEW t, IsList(s), IsList(t), Len(s) = Len(t),
           \A i \in 1 .. Len(s) : s[i] = t[i]
    PROVE  s = t
<1>1. s = [i \in 1 .. Len(s) |-> s[i]] /\ t = [i \in 1 .. Len(s) |-> t[i]]
    BY ListShape
<1>2. [i \in 1 .. Len(s) |-> s[i]] = [i \in 1 .. Len(s) |-> t[i]]
    OBVIOUS
<1> QED BY <1>1, <1>2

\* Two lists make one, with the elements of the first before those of the second.
LEMMA Joined ==
    ASSUME NEW s, NEW t, IsList(s), IsList(t)
    PROVE  /\ IsList(s \o t) /\ Len(s \o t) = Len(s) + Len(t)
           /\ \A i \in 1 .. Len(s) : (s \o t)[i] = s[i]
           /\ \A i \in 1 .. Len(t) : (s \o t)[Len(s) + i] = t[i]
           /\ s \o <<>> = s /\ <<>> \o s = s
<1> DEFINE S == ToSet(s) \cup ToSet(t)
<1>1. s \in Seq(S) /\ t \in Seq(S)
    BY DEF IsList
<1>2. s \o t \in Seq(S)
    BY <1>1
<1>3. IsList(s \o t)
    BY <1>2, ListIntro
<1> HIDE DEF S
<1> QED BY <1>1, <1>3

\* It does not matter in which order lists are joined.
LEMMA Associated ==
    ASSUME NEW s, NEW t, NEW u, IsList(s), IsList(t), IsList(u)
    PROVE  (s \o t) \o u = s \o (t \o u)
<1> DEFINE S == ToSet(s) \cup ToSet(t) \cup ToSet(u)
<1>1. s \in Seq(S) /\ t \in Seq(S) /\ u \in Seq(S)
    BY DEF IsList
<1> HIDE DEF S
<1> QED BY <1>1

\* One element more makes a list of one element more.
LEMMA Appended ==
    ASSUME NEW s, NEW x, IsList(s)
    PROVE  /\ IsList(Append(s, x)) /\ Len(Append(s, x)) = Len(s) + 1
           /\ DOMAIN Append(s, x) = 1 .. Len(s) + 1
           /\ \A i \in 1 .. Len(s) : Append(s, x)[i] = s[i]
           /\ Append(s, x)[Len(s) + 1] = x
           /\ s \o <<x>> = Append(s, x)
<1> DEFINE S == ToSet(s) \cup {x}
<1>1. s \in Seq(S) /\ x \in S
    BY DEF IsList
<1>2. Append(s, x) \in Seq(S)
    BY <1>1
<1>3. IsList(Append(s, x))
    BY <1>2, ListIntro
<1> HIDE DEF S
<1> QED BY <1>1, <1>2, <1>3

\* The lists of no, one and two elements.
LEMMA Short ==
    ASSUME NEW x, NEW y
    PROVE  /\ IsList(<<>>) /\ IsList(<<x>>) /\ IsList(<<x, y>>)
           /\ Append(<<>>, x) = <<x>> /\ Append(<<x>>, y) = <<x, y>>
<1>1. <<>> \in Seq({}) /\ <<x>> \in Seq({x}) /\ <<x, y>> \in Seq({x, y})
    OBVIOUS
<1>2. IsList(<<>>) /\ IsList(<<x>>) /\ IsList(<<x, y>>)
    BY <1>1, ListIntro
<1>3. Append(<<>>, x) = <<x>>
    OBVIOUS
<1>4. Append(<<x>>, y) = <<x, y>>
    <2>1. IsList(Append(<<x>>, y)) /\ Len(Append(<<x>>, y)) = 2
        BY <1>2, Appended
    <2>2. Append(<<x>>, y)[1] = x /\ Append(<<x>>, y)[2] = y
        <3>1. Len(<<x>>) = 1 /\ <<x>>[1] = x
            OBVIOUS
        <3> QED BY <1>2, <3>1, Appended
    <2>3. Len(<<x, y>>) = 2 /\ <<x, y>>[1] = x /\ <<x, y>>[2] = y
        OBVIOUS
    <2>4. \A i \in 1 .. 2 : Append(<<x>>, y)[i] = <<x, y>>[i]
        <3>1. \A i \in 1 .. 2 : i = 1 \/ i = 2
            OBVIOUS
        <3> QED BY <2>2, <2>3, <3>1
    <2> DEFINE s == Append(<<x>>, y)
               t == <<x, y>>
    <2>5. IsList(s) /\ IsList(t) /\ Len(s) = Len(t) /\ \A i \in 1 .. Len(s) : s[i] = t[i]
        BY <1>2, <2>1, <2>3, <2>4
    <2> HIDE DEF s, t
    <2>6. s = t
        BY <2>5, SameList
    <2> QED BY <2>6 DEF s, t
<1> QED BY <1>2, <1>3, <1>4

\* A function that agrees with a list and has one place more is the list with one more.
LEMMA AppendsOne ==
    ASSUME NEW t, IsList(t), NEW u, Indexed(u, Len(t) + 1),
           \A i \in 1 .. Len(t) : u[i] = t[i]
    PROVE  u = Append(t, u[Len(t) + 1])
<1> DEFINE n == Len(t)
           v == Append(t, u[n + 1])
<1>1. n \in Nat /\ n + 1 \in Nat
    BY ListShape
<1>2. IsList(u) /\ Len(u) = n + 1
    BY <1>1, FunctionIsList
<1>3. IsList(v) /\ Len(v) = n + 1 /\ v[n + 1] = u[n + 1] /\ \A i \in 1 .. n : v[i] = t[i]
    BY Appended
<1>4. \A i \in 1 .. n + 1 : i \in 1 .. n \/ i = n + 1
    BY <1>1
<1>5. \A i \in 1 .. n + 1 : u[i] = v[i]
    BY <1>3, <1>4
<1> HIDE DEF v
<1>6. u = v
    BY <1>2, <1>3, <1>5, SameList
<1> QED BY <1>6 DEF v
-----------------------------------------------------------------------------
(* Induction over the length of a list, for the functions defined by recursion on it. *)

\* A set of numbers with 0 and every successor of a member has every number.
LEMMA EveryNumber ==
    ASSUME NEW T \in SUBSET Nat, 0 \in T, \A n \in T : n + 1 \in T
    PROVE  T = Nat
<1> SUFFICES ASSUME Nat \ T # {} PROVE FALSE
    OBVIOUS
<1>1. PICK first \in Nat \ T : \A n \in Nat \ T : <<n, first>> \notin OpToRel(<, Nat)
    BY NatLessThanWellFounded, WFMin, Zenon
<1>2. \A n \in Nat : n < first => n \in T
    BY <1>1 DEF OpToRel
<1>3. first \in Nat /\ first # 0
    BY <1>1
<1>4. first - 1 \in Nat /\ first - 1 < first /\ (first - 1) + 1 = first
    BY <1>3
<1>5. first - 1 \in T
    BY <1>2, <1>4
<1>6. (first - 1) + 1 \in T
    BY <1>5
<1> QED BY <1>1, <1>4, <1>6

\* f is the function by which FlattenSeq is defined, up to n.
Flattening(f, seqs, n) ==
    f = [i \in 1 .. n |-> IF i = 1 THEN seqs[i] ELSE f[i - 1] \o seqs[i]]

\* The partial results begin with the first list and grow by one list each.
LEMMA FlatteningShape ==
    ASSUME NEW f, NEW seqs, NEW n \in Nat, Flattening(f, seqs, n)
    PROVE  /\ DOMAIN f = 1 .. n
           /\ n > 0 => f[1] = seqs[1]
           /\ \A i \in Nat : 0 < i /\ i < n => f[i + 1] = f[i] \o seqs[i + 1]
<1>1. DOMAIN f = 1 .. n
    BY DEF Flattening
<1>2. \A i \in 1 .. n : f[i] = IF i = 1 THEN seqs[i] ELSE f[i - 1] \o seqs[i]
    BY DEF Flattening
<1>3. ASSUME NEW i \in Nat, 0 < i, i < n PROVE f[i + 1] = f[i] \o seqs[i + 1]
    <2>1. i + 1 \in 1 .. n /\ i + 1 # 1 /\ (i + 1) - 1 = i
        BY <1>3
    <2> QED BY <1>2, <2>1
<1>4. n > 0 => f[1] = seqs[1]
    <2>1. n > 0 => 1 \in 1 .. n
        OBVIOUS
    <2> QED BY <1>2, <2>1
<1> QED BY <1>1, <1>3, <1>4

\* For every number of lists there are such partial results.
LEMMA FlatteningExists ==
    ASSUME NEW seqs, NEW n \in Nat PROVE \E f : Flattening(f, seqs, n)
<1> DEFINE T == {m \in Nat : \E f : Flattening(f, seqs, m)}
<1>1. 0 \in T
    <2>1. Flattening([i \in 1 .. 0 |-> seqs], seqs, 0)
        BY DEF Flattening
    <2> QED BY <2>1
<1>2. ASSUME NEW m \in T PROVE m + 1 \in T
    <2>1. PICK f : Flattening(f, seqs, m)
        OBVIOUS
    <2> DEFINE last == IF m = 0 THEN seqs[1] ELSE f[m] \o seqs[m + 1]
               g == [i \in 1 .. m + 1 |-> IF i = m + 1 THEN last ELSE f[i]]
    <2> HIDE DEF last
    <2>2. DOMAIN g = 1 .. m + 1 /\ g[m + 1] = last /\ \A i \in 1 .. m : g[i] = f[i]
        OBVIOUS
    <2>3. ASSUME NEW i \in 1 .. m + 1
          PROVE  g[i] = IF i = 1 THEN seqs[i] ELSE g[i - 1] \o seqs[i]
        <3>1. CASE i = m + 1 /\ m = 0
            BY <2>2, <3>1 DEF last
        <3>2. CASE i = m + 1 /\ m # 0
            <4>1. i # 1 /\ i - 1 = m /\ m \in 1 .. m
                BY <3>2
            <4>2. g[i] = last /\ g[i - 1] = f[m]
                BY <2>2, <3>2, <4>1
            <4> HIDE DEF g
            <4> QED BY <3>2, <4>1, <4>2 DEF last
        <3>3. CASE i # m + 1
            <4>1. i \in 1 .. m
                BY <3>3
            <4>2. f[i] = IF i = 1 THEN seqs[i] ELSE f[i - 1] \o seqs[i]
                BY <2>1, <4>1 DEF Flattening
            <4>3. g[i] = f[i] /\ (i # 1 => i - 1 \in 1 .. m)
                BY <2>2, <4>1
            <4>4. i # 1 => g[i - 1] = f[i - 1]
                BY <2>2, <4>3
            <4> HIDE DEF g
            <4> QED BY <4>2, <4>3, <4>4
        <3> QED BY <3>1, <3>2, <3>3
    <2>4. g = [i \in 1 .. m + 1 |-> g[i]]
        BY <2>2
    <2> HIDE DEF g
    <2>5. Flattening(g, seqs, m + 1)
        BY <2>3, <2>4 DEF Flattening
    <2> QED BY <2>5
<1> HIDE DEF T
<1>3. T = Nat
    <2>1. T \in SUBSET Nat
        BY DEF T
    <2> QED BY <1>1, <1>2, <2>1, EveryNumber
<1> QED BY <1>3 DEF T

\* What is flattened up to k depends on the first k lists only.
LEMMA FlatteningAgrees ==
    ASSUME NEW f, NEW s, NEW m \in Nat, Flattening(f, s, m),
           NEW g, NEW t, NEW n \in Nat, Flattening(g, t, n),
           NEW k \in Nat, k <= m, k <= n, \A i \in 1 .. k : s[i] = t[i]
    PROVE  \A i \in 1 .. k : f[i] = g[i]
<1>a. m > 0 => f[1] = s[1]
    BY FlatteningShape
<1>b. n > 0 => g[1] = t[1]
    BY FlatteningShape
<1> DEFINE T == {i \in Nat : 0 < i /\ i <= k => f[i] = g[i]}
<1>1. 0 \in T
    OBVIOUS
<1>2. ASSUME NEW i \in T PROVE i + 1 \in T
    <2> SUFFICES ASSUME i + 1 <= k PROVE f[i + 1] = g[i + 1]
        OBVIOUS
    <2>1. CASE i = 0
        <3>1. m > 0 /\ n > 0 /\ 1 \in 1 .. k
            BY <2>1
        <3> QED BY <2>1, <3>1, <1>a, <1>b
    <2>2. CASE i # 0
        <3>1. 0 < i /\ i < m /\ i < n /\ i \in Nat /\ i + 1 \in 1 .. k
            BY <2>2
        <3>2. f[i] = g[i]
            BY <3>1
        <3>3. f[i + 1] = f[i] \o s[i + 1] /\ g[i + 1] = g[i] \o t[i + 1]
            BY <3>1, FlatteningShape
        <3> QED BY <3>1, <3>2, <3>3
    <2> QED BY <2>1, <2>2
<1> HIDE DEF T
<1>3. T = Nat
    <2>1. T \in SUBSET Nat
        BY DEF T
    <2> QED BY <1>1, <1>2, <2>1, EveryNumber
<1> QED BY <1>3 DEF T

\* FlattenSeq is the last of its partial results.
LEMMA FlattenAt ==
    ASSUME NEW seqs, IsList(seqs), seqs # <<>>
    PROVE  \E f : Flattening(f, seqs, Len(seqs)) /\ FlattenSeq(seqs) = f[Len(seqs)]
<1>1. Len(seqs) \in Nat /\ Len(seqs) # 0
    BY DEF IsList
<1> DEFINE f == CHOOSE g : Flattening(g, seqs, Len(seqs))
<1>2. Flattening(f, seqs, Len(seqs))
    <2>1. \E g : Flattening(g, seqs, Len(seqs))
        BY <1>1, FlatteningExists
    <2> QED BY <2>1
<1>3. FlattenSeq(seqs) = f[Len(seqs)]
    BY <1>1 DEF FlattenSeq, Flattening
<1> QED BY <1>2, <1>3

\* One list more is one more appended.
LEMMA FlattenGrows ==
    ASSUME NEW seqs, IsList(seqs), NEW x, IsList(x)
    PROVE  FlattenSeq(Append(seqs, x)) = FlattenSeq(seqs) \o x
<1> DEFINE n == Len(seqs)
           more == Append(seqs, x)
<1>1. /\ n \in Nat /\ IsList(more) /\ Len(more) = n + 1 /\ more[n + 1] = x
      /\ \A i \in 1 .. n : more[i] = seqs[i]
    BY Appended, ListShape
<1>2. more # <<>>
    BY <1>1
<1> HIDE DEF more
<1>3. PICK g : Flattening(g, more, n + 1) /\ FlattenSeq(more) = g[n + 1]
    BY <1>1, <1>2, FlattenAt
<1>4. CASE seqs = <<>>
    <2>1. n = 0 /\ FlattenSeq(seqs) = <<>>
        BY <1>4 DEF FlattenSeq
    <2>2. g[1] = more[1]
        <3>1. Flattening(g, more, 1) /\ 1 \in Nat /\ 1 > 0
            BY <1>3, <2>1
        <3> QED BY <3>1, FlatteningShape
    <2>3. <<>> \o x = x
        BY Joined
    <2> QED BY <1>1, <1>3, <2>1, <2>2, <2>3 DEF more
<1>5. CASE seqs # <<>>
    <2>1. n > 0
        BY <1>1, <1>5 DEF IsList
    <2>2. PICK f : Flattening(f, seqs, n) /\ FlattenSeq(seqs) = f[n]
        BY <1>5, FlattenAt
    <2>3. g[n + 1] = g[n] \o more[n + 1]
        <3>1. n + 1 \in Nat /\ 0 < n /\ n < n + 1
            BY <1>1, <2>1
        <3> QED BY <1>1, <1>3, <3>1, FlatteningShape
    <2>4. f[n] = g[n]
        <3>1. n + 1 \in Nat /\ n <= n /\ n <= n + 1 /\ n \in 1 .. n
            BY <1>1, <2>1
        <3>2. \A i \in 1 .. n : seqs[i] = more[i]
            BY <1>1
        <3> HIDE DEF n
        <3>3. \A i \in 1 .. n : f[i] = g[i]
            BY <1>1, <1>3, <2>2, <3>1, <3>2, FlatteningAgrees
        <3> QED BY <3>1, <3>3
    <2> QED BY <1>1, <1>3, <2>2, <2>3, <2>4 DEF more
<1> QED BY <1>4, <1>5

\* Lists flattened are a list.
LEMMA FlattenList ==
    ASSUME NEW seqs, IsList(seqs), \A i \in DOMAIN seqs : IsList(seqs[i])
    PROVE  IsList(FlattenSeq(seqs))
<1> DEFINE n == Len(seqs)
<1>1. n \in Nat /\ DOMAIN seqs = 1 .. n
    BY ListShape
<1>2. CASE seqs = <<>>
    BY <1>2, Short DEF FlattenSeq
<1>3. CASE seqs # <<>>
    <2>1. n > 0
        BY <1>1, <1>3 DEF IsList
    <2>2. PICK f : Flattening(f, seqs, n) /\ FlattenSeq(seqs) = f[n]
        BY <1>3, FlattenAt
    <2> HIDE DEF n
    <2> DEFINE T == {i \in Nat : 0 < i /\ i <= n => IsList(f[i])}
    <2>3. 0 \in T
        OBVIOUS
    <2>4. f[1] = seqs[1]
        BY <1>1, <2>1, <2>2, FlatteningShape
    <2>5. \A i \in Nat : 0 < i /\ i < n => f[i + 1] = f[i] \o seqs[i + 1]
        BY <1>1, <2>2, FlatteningShape
    <2>6. ASSUME NEW i \in T PROVE i + 1 \in T
        <3> SUFFICES ASSUME i + 1 <= n PROVE IsList(f[i + 1])
            OBVIOUS
        <3>1. i \in Nat /\ i + 1 \in 1 .. n
            BY <1>1
        <3>2. IsList(seqs[i + 1])
            BY <1>1, <3>1
        <3>3. CASE i = 0
            BY <2>4, <3>2, <3>3
        <3>4. CASE i # 0
            <4>1. 0 < i /\ i < n
                BY <3>1, <3>4, <1>1
            <4>2. IsList(f[i])
                BY <1>1, <3>1, <4>1
            <4> HIDE DEF T
            <4>3. f[i + 1] = f[i] \o seqs[i + 1]
                BY <2>5, <3>1, <4>1
            <4> QED BY <3>2, <4>2, <4>3, Joined
        <3> QED BY <3>3, <3>4
    <2> HIDE DEF T
    <2>7. T = Nat
        <3>1. T \in SUBSET Nat
            BY DEF T
        <3> QED BY <2>3, <2>6, <3>1, EveryNumber
    <2> QED BY <1>1, <2>1, <2>2, <2>7 DEF T
<1> QED BY <1>2, <1>3

\* f is the function by which Converted is defined, up to n.
ConvertedUpTo(f, messages, n) ==
    f = [i \in 0 .. n |-> IF i = 0 THEN Nothing ELSE Convert(f[i - 1], messages[i])]

\* The conversions begin with nothing and grow by one message each.
LEMMA ConvertedShape ==
    ASSUME NEW f, NEW messages, NEW n \in Nat, ConvertedUpTo(f, messages, n)
    PROVE  /\ f[0] = Nothing
           /\ \A i \in Nat : i < n => f[i + 1] = Convert(f[i], messages[i + 1])
<1>1. \A i \in 0 .. n : f[i] = IF i = 0 THEN Nothing ELSE Convert(f[i - 1], messages[i])
    BY DEF ConvertedUpTo
<1>2. 0 \in 0 .. n
    OBVIOUS
<1>3. ASSUME NEW i \in Nat, i < n PROVE f[i + 1] = Convert(f[i], messages[i + 1])
    <2>1. i + 1 \in 0 .. n /\ i + 1 # 0 /\ (i + 1) - 1 = i
        BY <1>3
    <2> QED BY <1>1, <2>1
<1> QED BY <1>1, <1>2, <1>3

\* For every number of messages there are such conversions.
LEMMA ConvertedExists ==
    ASSUME NEW messages, NEW n \in Nat PROVE \E f : ConvertedUpTo(f, messages, n)
<1> DEFINE T == {m \in Nat : \E f : ConvertedUpTo(f, messages, m)}
<1>1. 0 \in T
    <2> DEFINE f == [i \in 0 .. 0 |-> Nothing]
    <2>1. \A i \in 0 .. 0 : i = 0
        OBVIOUS
    <2>2. f = [i \in 0 .. 0 |-> IF i = 0 THEN Nothing ELSE Convert(f[i - 1], messages[i])]
        BY <2>1
    <2> HIDE DEF f
    <2>3. ConvertedUpTo(f, messages, 0)
        BY <2>2 DEF ConvertedUpTo
    <2> QED BY <2>3
<1>2. ASSUME NEW m \in T PROVE m + 1 \in T
    <2>1. PICK f : ConvertedUpTo(f, messages, m)
        OBVIOUS
    <2> DEFINE last == Convert(f[m], messages[m + 1])
               g == [i \in 0 .. m + 1 |-> IF i = m + 1 THEN last ELSE f[i]]
    <2> HIDE DEF last
    <2>2. DOMAIN g = 0 .. m + 1 /\ g[m + 1] = last /\ \A i \in 0 .. m : g[i] = f[i]
        OBVIOUS
    <2>3. ASSUME NEW i \in 0 .. m + 1
          PROVE  g[i] = IF i = 0 THEN Nothing ELSE Convert(g[i - 1], messages[i])
        <3>1. CASE i = m + 1
            <4>1. i # 0 /\ i - 1 = m /\ m \in 0 .. m
                BY <3>1
            <4>2. g[i] = last /\ g[i - 1] = f[m]
                BY <2>2, <3>1, <4>1
            <4> HIDE DEF g
            <4> QED BY <3>1, <4>1, <4>2 DEF last
        <3>2. CASE i # m + 1
            <4>1. i \in 0 .. m
                BY <3>2
            <4>2. f[i] = IF i = 0 THEN Nothing ELSE Convert(f[i - 1], messages[i])
                BY <2>1, <4>1 DEF ConvertedUpTo
            <4>3. g[i] = f[i] /\ (i # 0 => i - 1 \in 0 .. m)
                BY <2>2, <4>1
            <4>4. i # 0 => g[i - 1] = f[i - 1]
                BY <2>2, <4>3
            <4> HIDE DEF g
            <4> QED BY <4>2, <4>3, <4>4
        <3> QED BY <3>1, <3>2
    <2>4. g = [i \in 0 .. m + 1 |-> g[i]]
        BY <2>2
    <2> HIDE DEF g
    <2>5. ConvertedUpTo(g, messages, m + 1)
        BY <2>3, <2>4 DEF ConvertedUpTo
    <2> QED BY <2>5
<1> HIDE DEF T
<1>3. T = Nat
    <2>1. T \in SUBSET Nat
        BY DEF T
    <2> QED BY <1>1, <1>2, <2>1, EveryNumber
<1> QED BY <1>3 DEF T

\* Histories that agree up to a message are converted alike up to it.
LEMMA ConvertedAgrees ==
    ASSUME NEW f, NEW s, NEW m \in Nat, ConvertedUpTo(f, s, m),
           NEW g, NEW t, NEW n \in Nat, ConvertedUpTo(g, t, n),
           m <= n, \A i \in 1 .. m : s[i] = t[i]
    PROVE  f[m] = g[m]
<1>a. f[0] = Nothing /\ \A i \in Nat : i < m => f[i + 1] = Convert(f[i], s[i + 1])
    BY ConvertedShape
<1>b. g[0] = Nothing /\ \A i \in Nat : i < n => g[i + 1] = Convert(g[i], t[i + 1])
    BY ConvertedShape
<1> DEFINE T == {i \in Nat : i <= m => f[i] = g[i]}
<1>1. 0 \in T
    BY <1>a, <1>b
<1>2. ASSUME NEW i \in T PROVE i + 1 \in T
    <2> SUFFICES ASSUME i + 1 <= m PROVE f[i + 1] = g[i + 1]
        OBVIOUS
    <2>1. i \in Nat /\ i < m /\ i < n /\ i + 1 \in 1 .. m /\ f[i] = g[i]
        OBVIOUS
    <2> HIDE DEF T
    <2>2. f[i + 1] = Convert(f[i], s[i + 1]) /\ g[i + 1] = Convert(g[i], t[i + 1])
        BY <1>a, <1>b, <2>1
    <2> QED BY <2>1, <2>2
<1> HIDE DEF T
<1>3. T = Nat
    <2>1. T \in SUBSET Nat
        BY DEF T
    <2> QED BY <1>1, <1>2, <2>1, EveryNumber
<1> QED BY <1>3 DEF T

\* Converted is the last of its partial conversions.
LEMMA ConvertedAt ==
    ASSUME NEW messages, IsList(messages)
    PROVE  \E f : /\ ConvertedUpTo(f, messages, Len(messages))
                  /\ Converted(messages) = f[Len(messages)]
<1> DEFINE f == CHOOSE g : ConvertedUpTo(g, messages, Len(messages))
<1>1. ConvertedUpTo(f, messages, Len(messages))
    <2>1. \E g : ConvertedUpTo(g, messages, Len(messages))
        BY ListShape, ConvertedExists
    <2> QED BY <2>1
<1>2. Converted(messages) = f[Len(messages)]
    BY DEF Converted, ConvertedUpTo
<1> QED BY <1>1, <1>2

\* A message more is converted after the others.
LEMMA ConvertedGrows ==
    ASSUME NEW messages, IsList(messages), NEW x
    PROVE  Converted(Append(messages, x)) = Convert(Converted(messages), x)
<1> DEFINE n == Len(messages)
           more == Append(messages, x)
<1>1. /\ n \in Nat /\ IsList(more) /\ Len(more) = n + 1 /\ more[n + 1] = x
      /\ \A i \in 1 .. n : more[i] = messages[i]
    BY Appended, ListShape
<1> HIDE DEF more
<1>2. PICK f : ConvertedUpTo(f, messages, n) /\ Converted(messages) = f[n]
    BY ConvertedAt
<1>3. PICK g : ConvertedUpTo(g, more, n + 1) /\ Converted(more) = g[n + 1]
    BY <1>1, ConvertedAt
<1>4. n + 1 \in Nat /\ n < n + 1 /\ n <= n + 1 /\ \A i \in 1 .. n : messages[i] = more[i]
    BY <1>1
<1> HIDE DEF n
<1>5. f[n] = g[n]
    BY <1>1, <1>2, <1>3, <1>4, ConvertedAgrees
<1>6. g[n + 1] = Convert(g[n], more[n + 1])
    BY <1>1, <1>3, <1>4, ConvertedShape
<1> QED BY <1>1, <1>2, <1>3, <1>5, <1>6 DEF more

\* No message leaves the conversion as it begins.
LEMMA ConvertedNone == Converted(<<>>) = Nothing
<1>1. PICK f : ConvertedUpTo(f, <<>>, Len(<<>>)) /\ Converted(<<>>) = f[Len(<<>>)]
    BY Short, ConvertedAt
<1>2. Len(<<>>) = 0
    OBVIOUS
<1> QED BY <1>1, <1>2, ConvertedShape
-----------------------------------------------------------------------------
(* What the operators on items, tools and messages make of one item more. *)

\* What is made of each element of a list grows with the list.
LEMMA MappedGrows ==
    ASSUME NEW n \in Nat, NEW t, Indexed(t, n), NEW u, Indexed(u, n + 1),
           \A i \in 1 .. n : u[i] = t[i]
    PROVE  IsList(t) /\ u = Append(t, u[n + 1])
<1>1. IsList(t) /\ Len(t) = n
    BY FunctionIsList
<1>2. Indexed(u, Len(t) + 1) /\ \A i \in 1 .. Len(t) : u[i] = t[i]
    BY <1>1
<1>3. u = Append(t, u[Len(t) + 1])
    BY <1>1, <1>2, AppendsOne
<1> QED BY <1>1, <1>3

\* The tools of one item more come last.
LEMMA BroughtGrows ==
    ASSUME NEW s, IsList(s), NEW x, IsList(Brought(x))
    PROVE  FlattenSeq([i \in DOMAIN Append(s, x) |-> Brought(Append(s, x)[i])])
               = FlattenSeq([i \in DOMAIN s |-> Brought(s[i])]) \o Brought(x)
<1> DEFINE more == Append(s, x)
           t == [i \in DOMAIN s |-> Brought(s[i])]
           u == [i \in DOMAIN more |-> Brought(more[i])]
<1>1. /\ Len(s) \in Nat /\ DOMAIN s = 1 .. Len(s) /\ DOMAIN more = 1 .. Len(s) + 1
      /\ more[Len(s) + 1] = x /\ \A i \in 1 .. Len(s) : more[i] = s[i]
    BY Appended, ListShape
<1>2. Indexed(t, Len(s)) /\ Indexed(u, Len(s) + 1)
    BY <1>1 DEF Indexed
<1>3. \A i \in 1 .. Len(s) : i \in DOMAIN s /\ i \in DOMAIN more
    BY <1>1
<1>4. \A i \in 1 .. Len(s) : u[i] = t[i]
    BY <1>1, <1>3
<1>5. u[Len(s) + 1] = Brought(x)
    BY <1>1
<1> HIDE DEF t, u
<1>6. IsList(t) /\ u = Append(t, u[Len(s) + 1])
    BY <1>1, <1>2, <1>4, MappedGrows
<1> QED BY <1>5, <1>6, FlattenGrows DEF t, u

\* The messages of one item more come last.
LEMMA MessagesGrow ==
    ASSUME NEW s, IsList(s), NEW x
    PROVE  InputMessages(Append(s, x)) = InputMessages(s) \o MessagesOf(x)
<1> DEFINE more == Append(s, x)
           t == [i \in DOMAIN s |-> MessagesOf(s[i])]
           u == [i \in DOMAIN more |-> MessagesOf(more[i])]
<1>1. /\ Len(s) \in Nat /\ DOMAIN s = 1 .. Len(s) /\ DOMAIN more = 1 .. Len(s) + 1
      /\ more[Len(s) + 1] = x /\ \A i \in 1 .. Len(s) : more[i] = s[i]
    BY Appended, ListShape
<1>2. Indexed(t, Len(s)) /\ Indexed(u, Len(s) + 1)
    BY <1>1 DEF Indexed
<1>3. \A i \in 1 .. Len(s) : i \in DOMAIN s /\ i \in DOMAIN more
    BY <1>1
<1>4. \A i \in 1 .. Len(s) : u[i] = t[i]
    BY <1>1, <1>3
<1>5. u[Len(s) + 1] = MessagesOf(x) /\ IsList(MessagesOf(x))
    <2>1. u[Len(s) + 1] = MessagesOf(x)
        BY <1>1
    <2>2. IsList(MessagesOf(x))
        BY Short DEF MessagesOf
    <2> QED BY <2>1, <2>2
<1> HIDE DEF t, u
<1>6. IsList(t) /\ u = Append(t, u[Len(s) + 1])
    BY <1>1, <1>2, <1>4, MappedGrows
<1> QED BY <1>5, <1>6, FlattenGrows DEF t, u, InputMessages

\* The facts of one message more come last.
LEMMA HeardGrows ==
    ASSUME NEW s, IsList(s), NEW x, IsList(Facts(x))
    PROVE  Heard(Append(s, x)) = Heard(s) \o Facts(x)
<1> DEFINE more == Append(s, x)
           t == [i \in DOMAIN s |-> Facts(s[i])]
           u == [i \in DOMAIN more |-> Facts(more[i])]
<1>1. /\ Len(s) \in Nat /\ DOMAIN s = 1 .. Len(s) /\ DOMAIN more = 1 .. Len(s) + 1
      /\ more[Len(s) + 1] = x /\ \A i \in 1 .. Len(s) : more[i] = s[i]
    BY Appended, ListShape
<1>2. Indexed(t, Len(s)) /\ Indexed(u, Len(s) + 1)
    BY <1>1 DEF Indexed
<1>3. \A i \in 1 .. Len(s) : i \in DOMAIN s /\ i \in DOMAIN more
    BY <1>1
<1>4. \A i \in 1 .. Len(s) : u[i] = t[i]
    BY <1>1, <1>3
<1>5. u[Len(s) + 1] = Facts(x)
    BY <1>1
<1> HIDE DEF t, u
<1>6. IsList(t) /\ u = Append(t, u[Len(s) + 1])
    BY <1>1, <1>2, <1>4, MappedGrows
<1> QED BY <1>5, <1>6, FlattenGrows DEF t, u, Heard

\* The messages of a list of items are a list.
LEMMA MessagesList == ASSUME NEW s, IsList(s) PROVE IsList(InputMessages(s))
<1> DEFINE t == [i \in DOMAIN s |-> MessagesOf(s[i])]
<1>1. \A i \in DOMAIN t : IsList(t[i])
    BY Short DEF MessagesOf
<1>2. Indexed(t, Len(s)) /\ Len(s) \in Nat
    BY ListShape DEF Indexed
<1> HIDE DEF t
<1>3. IsList(t)
    BY <1>2, FunctionIsList
<1> QED BY <1>1, <1>3, FlattenList DEF t, InputMessages

\* What a list of tools declares is a list.
LEMMA DeclaredList == ASSUME NEW list, IsToolList(list) PROVE IsList(Declared(list))
<1> DEFINE t == [i \in DOMAIN list |-> Opened(list[i])]
<1>1. ASSUME NEW i \in DOMAIN list PROVE IsList(Opened(list[i]))
    <2>1. CASE list[i].type = "namespace"
        <3> DEFINE u == Opened(list[i])
        <3>1. IsList(list[i].tools)
            BY <2>1 DEF IsToolList
        <3>2. Indexed(u, Len(list[i].tools)) /\ Len(list[i].tools) \in Nat
            BY <2>1, <3>1, ListShape DEF Opened, Indexed
        <3> HIDE DEF u
        <3>3. IsList(u)
            BY <3>2, FunctionIsList
        <3> QED BY <3>3 DEF u
    <2>2. CASE list[i].type # "namespace"
        BY <2>2, Short DEF Opened
    <2> QED BY <2>1, <2>2
<1>2. Indexed(t, Len(list)) /\ Len(list) \in Nat /\ \A i \in DOMAIN t : IsList(t[i])
    BY <1>1, ListShape DEF Indexed, IsToolList
<1> HIDE DEF t
<1>3. IsList(t)
    BY <1>2, FunctionIsList
<1> QED BY <1>2, <1>3, FlattenList DEF t, Declared
-----------------------------------------------------------------------------
(* The conversion of one message. *)

\* A conversion in progress that no message has spoilt.
Sound(acc) ==
    /\ acc = [ok |-> TRUE, sent |-> acc.sent, system |-> acc.system, names |-> acc.names]
    /\ IsList(acc.sent) /\ \A i \in DOMAIN acc.sent : IsList(Facts(acc.sent[i]))
    /\ IsList(acc.system) /\ \A i \in DOMAIN acc.system : IsList(acc.system[i])

\* Of a content the text parts are kept, which is all of it if there is nothing else.
LEMMA TextOfContent ==
    ASSUME NEW content, IsList(content)
    PROVE  /\ IsList(messageText(content))
           /\ ToSet(content) \subseteq {"text"} => messageText(content) = content
<1> DEFINE n == Len(content)
           texts == {j \in DOMAIN content : content[j] = "text"}
           m == Cardinality(texts)
<1>1. n \in Nat /\ DOMAIN content = 1 .. n /\ content = [i \in 1 .. n |-> content[i]]
    BY ListShape
<1>2. IsFiniteSet(1 .. n) /\ Cardinality(1 .. n) = n
    <2>1. 1 \in Int /\ n \in Int
        BY <1>1
    <2> HIDE DEF n
    <2> QED BY <1>1, <2>1, FS_Interval
<1>3. m \in Nat
    <2>1. texts \subseteq 1 .. n
        BY <1>1
    <2> QED BY <1>2, <2>1, FS_Subset, FS_CardinalityType
<1>4. messageText(content) = [i \in 1 .. m |-> "text"]
    BY DEF messageText
<1>5. IsList(messageText(content))
    <2>1. Indexed(messageText(content), m)
        BY <1>4 DEF Indexed
    <2> HIDE DEF m
    <2> QED BY <1>3, <2>1, FunctionIsList
<1>6. ASSUME ToSet(content) \subseteq {"text"} PROVE messageText(content) = content
    <2>1. \A j \in 1 .. n : content[j] = "text"
        BY <1>1, <1>6 DEF ToSet
    <2>2. texts = 1 .. n
        BY <1>1, <2>1
    <2>3. m = n
        BY <1>2, <2>2
    <2>4. [i \in 1 .. n |-> "text"] = [i \in 1 .. n |-> content[i]]
        BY <2>1
    <2> QED BY <1>1, <1>4, <2>3, <2>4
<1> QED BY <1>5, <1>6

\* Under names every call is found.
Knows(names, calls) ==
    \A i \in DOMAIN calls : calls[i].id \in DOMAIN names /\ names[calls[i].id] = calls[i].name

\* After calls under different IDs each call is found under its own.
LEMMA NamesAfter ==
    ASSUME NEW names, NEW calls, IsList(calls),
           \A i, j \in DOMAIN calls : calls[i].id = calls[j].id => i = j
    PROVE  Knows(Named(names, calls), calls)
<1>1. DOMAIN calls = 1 .. Len(calls) /\ Len(calls) \in Nat
    BY ListShape
<1>2. ASSUME NEW i \in DOMAIN calls
      PROVE  /\ calls[i].id \in DOMAIN Named(names, calls)
             /\ Named(names, calls)[calls[i].id] = calls[i].name
    <2> DEFINE sharing == {j \in DOMAIN calls : calls[j].id = calls[i].id}
    <2>1. sharing = {i}
        OBVIOUS
    <2>2. Max(sharing) = i
        <3>1. i \in Nat
            BY <1>1
        <3> QED BY <2>1, <3>1 DEF Max
    <2>3. calls[i].id \in {calls[j].id : j \in DOMAIN calls}
        OBVIOUS
    <2> QED BY <2>1, <2>2, <2>3 DEF Named
<1> QED BY <1>2 DEF Knows

\* next is the conversion acc with the message x sent after it.
Extends(next, acc, x, names) ==
    next = [ok |-> TRUE, sent |-> Append(acc.sent, x), system |-> acc.system, names |-> names]

\* What a message adds is heard last.
LEMMA SentGrows ==
    ASSUME NEW acc, Sound(acc), NEW x, IsList(Facts(x)), NEW names,
           NEW next, Extends(next, acc, x, names)
    PROVE  /\ Sound(next) /\ next.sent # <<>> /\ next.system = acc.system /\ next.names = names
           /\ Heard(next.sent) = Heard(acc.sent) \o Facts(x)
<1>1. /\ IsList(Append(acc.sent, x)) /\ Append(acc.sent, x) # <<>>
      /\ \A i \in DOMAIN Append(acc.sent, x) : IsList(Facts(Append(acc.sent, x)[i]))
    <2>1. /\ IsList(acc.sent) /\ Len(acc.sent) \in Nat /\ DOMAIN acc.sent = 1 .. Len(acc.sent)
          /\ \A i \in DOMAIN acc.sent : IsList(Facts(acc.sent[i]))
        BY ListShape DEF Sound
    <2>2. /\ IsList(Append(acc.sent, x)) /\ Len(Append(acc.sent, x)) = Len(acc.sent) + 1
          /\ DOMAIN Append(acc.sent, x) = 1 .. Len(acc.sent) + 1
          /\ Append(acc.sent, x)[Len(acc.sent) + 1] = x
          /\ \A i \in 1 .. Len(acc.sent) : Append(acc.sent, x)[i] = acc.sent[i]
        BY <2>1, Appended
    <2>3. Append(acc.sent, x) # <<>>
        <3>1. Len(<<>>) = 0
            OBVIOUS
        <3>2. Len(Append(acc.sent, x)) # 0
            BY <2>1, <2>2
        <3> QED BY <3>1, <3>2
    <2>4. \A i \in DOMAIN Append(acc.sent, x) : i \in 1 .. Len(acc.sent) \/ i = Len(acc.sent) + 1
        BY <2>1, <2>2
    <2> QED BY <2>1, <2>2, <2>3, <2>4
<1>2. Heard(Append(acc.sent, x)) = Heard(acc.sent) \o Facts(x)
    BY HeardGrows DEF Sound
<1> QED BY <1>1, <1>2 DEF Sound, Extends

\* What is heard in a conversion is a list.
LEMMA HeardList == ASSUME NEW acc, Sound(acc) PROVE IsList(Heard(acc.sent))
<1> DEFINE t == [i \in DOMAIN acc.sent |-> Facts(acc.sent[i])]
<1>1. IsList(acc.sent) /\ \A i \in DOMAIN t : IsList(t[i])
    BY DEF Sound
<1>2. Indexed(t, Len(acc.sent)) /\ Len(acc.sent) \in Nat
    BY <1>1, ListShape DEF Indexed
<1> HIDE DEF t
<1>3. IsList(t)
    BY <1>2, FunctionIsList
<1> QED BY <1>1, <1>3, FlattenList DEF t, Heard

\* The messages that are never refused: instructions, and text and images with calls
\* whose arguments are JSON.
IsInstruction(m) == m.role \in {"system", "developer"} /\ IsList(m.content)

IsSpeech(m) ==
    /\ m.role \in {"user", "assistant"}
    /\ IsList(m.content) /\ ToSet(m.content) \subseteq {"text", "image"}
    /\ IsList(m.calls) /\ \A i \in DOMAIN m.calls : Valid(m.calls[i].arguments)

\* A message of the system adds its text to the instructions and nothing else.
LEMMA SystemConverted ==
    ASSUME NEW acc, Sound(acc), NEW m, IsInstruction(m)
    PROVE  LET next == Convert(acc, m)
           IN /\ Sound(next) /\ next.sent = acc.sent /\ next.names = acc.names
              /\ FlattenSeq(next.system) = FlattenSeq(acc.system) \o messageText(m.content)
<1> DEFINE x == messageText(m.content)
           next == Convert(acc, m)
<1>1. next = [acc EXCEPT !.system = Append(@, x)]
    BY DEF Convert, Sound, IsInstruction
<1>2. IsList(x)
    BY TextOfContent DEF IsInstruction
<1> HIDE DEF x, next
<1>3. next = [ok |-> TRUE, sent |-> acc.sent, system |-> Append(acc.system, x), names |-> acc.names]
    <2>1. \E s, t, n : acc = [ok |-> TRUE, sent |-> s, system |-> t, names |-> n]
        BY DEF Sound
    <2>2. PICK s, t, n : acc = [ok |-> TRUE, sent |-> s, system |-> t, names |-> n]
        BY <2>1
    <2> QED BY <1>1, <2>2
<1>4. IsList(Append(acc.system, x)) /\ \A i \in DOMAIN Append(acc.system, x) :
                                          IsList(Append(acc.system, x)[i])
    <2>1. /\ IsList(acc.system) /\ Len(acc.system) \in Nat /\ DOMAIN acc.system = 1 .. Len(acc.system)
          /\ \A i \in DOMAIN acc.system : IsList(acc.system[i])
        BY ListShape DEF Sound
    <2>2. /\ IsList(Append(acc.system, x))
          /\ DOMAIN Append(acc.system, x) = 1 .. Len(acc.system) + 1
          /\ Append(acc.system, x)[Len(acc.system) + 1] = x
          /\ \A i \in 1 .. Len(acc.system) : Append(acc.system, x)[i] = acc.system[i]
        BY <2>1, Appended
    <2>3. \A i \in DOMAIN Append(acc.system, x) : i \in 1 .. Len(acc.system) \/ i = Len(acc.system) + 1
        BY <2>1, <2>2
    <2> QED BY <1>2, <2>1, <2>2, <2>3
<1>5. FlattenSeq(Append(acc.system, x)) = FlattenSeq(acc.system) \o x
    BY <1>2, FlattenGrows DEF Sound
<1>6. Sound(next) /\ next.sent = acc.sent /\ next.names = acc.names
    BY <1>3, <1>4 DEF Sound
<1> QED BY <1>3, <1>5, <1>6 DEF x, next

\* The parts of a message, each with the role it is said in.
Parts(m) == [j \in DOMAIN m.content |-> [role |-> m.role, part |-> m.content[j]]]

\* The parts of a message are a list, none if the content has none.
LEMMA PartsList ==
    ASSUME NEW m, IsList(m.content)
    PROVE  IsList(Parts(m)) /\ (m.content = <<>> => Parts(m) = <<>>)
<1>1. Indexed(Parts(m), Len(m.content)) /\ Len(m.content) \in Nat
    BY ListShape DEF Parts, Indexed
<1>2. IsList(Parts(m)) /\ Len(Parts(m)) = Len(m.content)
    <2> DEFINE p == Parts(m)
    <2> HIDE DEF p
    <2>1. Indexed(p, Len(m.content)) => IsList(p) /\ Len(p) = Len(m.content)
        BY <1>1, FunctionIsList
    <2> QED BY <1>1, <2>1 DEF p
<1>3. m.content = <<>> => Len(Parts(m)) = 0
    BY <1>2
<1>4. Len(Parts(m)) = 0 => Parts(m) = <<>>
    BY <1>2 DEF IsList
<1> QED BY <1>2, <1>3, <1>4

\* A message of the user or the model adds its parts and calls, and the names of the calls.
LEMMA SpeechConverted ==
    ASSUME NEW acc, Sound(acc), NEW m, IsSpeech(m)
    PROVE  LET next == Convert(acc, m)
           IN /\ Sound(next) /\ next.system = acc.system
              /\ next.names = Named(acc.names, m.calls)
              /\ Heard(next.sent) = Heard(acc.sent) \o (Parts(m) \o m.calls)
              /\ acc.sent # <<>> => next.sent # <<>>
<1> DEFINE next == Convert(acc, m)
           x == [role |-> m.role, content |-> m.content, calls |-> m.calls, results |-> <<>>]
           names == Named(acc.names, m.calls)
<1>1. IsList(Parts(m)) /\ IsList(m.calls) /\ (m.content = <<>> => Parts(m) = <<>>)
    BY PartsList DEF IsSpeech
<1>2. next = [ok |-> TRUE, sent |-> IF m.content = <<>> /\ m.calls = <<>> THEN acc.sent
                                    ELSE Append(acc.sent, x),
              system |-> acc.system, names |-> names]
    <2>1. next = ConvertSpeech(acc, m)
        BY DEF Convert, Sound, IsSpeech
    <2>2. ConvertSpeech(acc, m) =
              [acc EXCEPT !.names = names,
                          !.sent = IF m.content = <<>> /\ m.calls = <<>> THEN @ ELSE Append(@, x)]
        BY DEF ConvertSpeech, chatContentParts, IsSpeech
    <2>3. \E s, t, n : acc = [ok |-> TRUE, sent |-> s, system |-> t, names |-> n]
        BY DEF Sound
    <2>4. PICK s, t, n : acc = [ok |-> TRUE, sent |-> s, system |-> t, names |-> n]
        BY <2>3
    <2> HIDE DEF next, x, names
    <2>5. next = [acc EXCEPT !.names = names,
                             !.sent = IF m.content = <<>> /\ m.calls = <<>> THEN @ ELSE Append(@, x)]
        BY <2>1, <2>2
    <2> QED BY <2>4, <2>5
<1>3. Facts(x) = Parts(m) \o m.calls /\ IsList(Facts(x))
    <2>1. Facts(x) = (Parts(m) \o m.calls) \o <<>>
        BY DEF Facts, Parts
    <2> HIDE DEF x
    <2>2. IsList(Parts(m) \o m.calls)
        BY <1>1, Joined
    <2>3. (Parts(m) \o m.calls) \o <<>> = Parts(m) \o m.calls
        BY <2>2, Joined
    <2> QED BY <2>1, <2>2, <2>3
<1> HIDE DEF next, names
<1>4. CASE m.content = <<>> /\ m.calls = <<>>
    <2>1. next = [ok |-> TRUE, sent |-> acc.sent, system |-> acc.system, names |-> names]
        BY <1>2, <1>4
    <2>2. Sound(next) /\ next.sent = acc.sent /\ next.system = acc.system /\ next.names = names
        BY <2>1 DEF Sound
    <2>3. Parts(m) \o m.calls = <<>>
        BY <1>1, <1>4, Joined
    <2>4. Heard(acc.sent) \o <<>> = Heard(acc.sent)
        BY HeardList, Joined
    <2> QED BY <2>2, <2>3, <2>4 DEF next, names
<1>5. CASE ~(m.content = <<>> /\ m.calls = <<>>)
    <2>1. Extends(next, acc, x, names)
        BY <1>2, <1>5 DEF Extends
    <2> HIDE DEF x
    <2>2. /\ Sound(next) /\ next.sent # <<>> /\ next.system = acc.system /\ next.names = names
          /\ Heard(next.sent) = Heard(acc.sent) \o Facts(x)
        <3>1. IsList(Facts(x))
            BY <1>3
        <3> QED BY <2>1, <3>1, SentGrows
    <2> QED BY <1>3, <2>2 DEF next, names
<1> QED BY <1>4, <1>5

\* The result of a known call adds its text under the name of the call.
LEMMA ResultConverted ==
    ASSUME NEW acc, Sound(acc), NEW m, m.role = "tool", m.id \in DOMAIN acc.names
    PROVE  LET next == Convert(acc, m)
           IN /\ Sound(next) /\ next.system = acc.system /\ next.names = acc.names
              /\ Heard(next.sent) = Heard(acc.sent)
                     \o <<[id |-> m.id, name |-> acc.names[m.id], output |-> messageText(m.content)]>>
              /\ next.sent # <<>>
<1> DEFINE next == Convert(acc, m)
           fact == [id |-> m.id, name |-> acc.names[m.id], output |-> messageText(m.content)]
           x == [role |-> "tool", content |-> <<>>, calls |-> <<>>, results |-> <<fact>>]
<1>1. next = [acc EXCEPT !.sent = Append(@, x)]
    <2>1. next = ConvertResult(acc, m)
        BY DEF Convert, Sound
    <2> QED BY <2>1 DEF ConvertResult
<1> HIDE DEF next, fact
<1>2. Facts(x) = <<fact>> /\ IsList(Facts(x))
    <2>1. Parts(x) = <<>> /\ Facts(x) = Parts(x) \o <<>> \o <<fact>>
        <3>1. IsList(x.content)
            BY Short
        <3>2. Parts(x) = <<>>
            BY <3>1, PartsList
        <3> QED BY <3>2 DEF Facts, Parts
    <2>2. IsList(<<>>) /\ IsList(<<fact>>)
        BY Short
    <2>3. <<>> \o <<>> = <<>> /\ <<>> \o <<fact>> = <<fact>>
        BY <2>2, Joined
    <2> QED BY <2>1, <2>2, <2>3
<1> HIDE DEF x
<1>3. Extends(next, acc, x, acc.names)
    <2>1. \E s, t, n : acc = [ok |-> TRUE, sent |-> s, system |-> t, names |-> n]
        BY DEF Sound
    <2>2. PICK s, t, n : acc = [ok |-> TRUE, sent |-> s, system |-> t, names |-> n]
        BY <2>1
    <2> QED BY <1>1, <2>2 DEF Extends
<1>4. /\ Sound(next) /\ next.sent # <<>> /\ next.system = acc.system /\ next.names = acc.names
      /\ Heard(next.sent) = Heard(acc.sent) \o Facts(x)
    BY <1>2, <1>3, SentGrows
<1> QED BY <1>2, <1>4 DEF next, fact
-----------------------------------------------------------------------------
(* The conversion of a history in the client's format, and of one item more. *)

AsMessage(item) == IF format = "responses" THEN MessageOf(item) ELSE item

Conversion(items) == Converted(IF format = "responses" THEN InputMessages(items) ELSE items)

ToolsAt(items) == IF format = "responses" THEN responseToolsForRequest(tools, items) ELSE tools

Additional(item) == format = "responses" /\ item.type = "additional_tools"

\* A history that no message has spoilt yet.
Readable(items) ==
    /\ IsList(items)
    /\ \A i \in DOMAIN items : /\ Additional(items[i]) => IsToolList(items[i].tools)
                               /\ format = "responses" => Usable(items[i])
    /\ IsToolList(ToolsAt(items))
    /\ Sound(Conversion(items))

\* A message more is converted after the others; what brings tools is no message.
LEMMA ConversionGrows ==
    ASSUME NEW items, IsList(items), NEW x
    PROVE  Conversion(Append(items, x)) = IF Additional(x) THEN Conversion(items)
                                          ELSE Convert(Conversion(items), AsMessage(x))
<1>1. CASE format # "responses"
    BY <1>1, ConvertedGrows DEF Conversion, AsMessage, Additional
<1>2. CASE format = "responses"
    <2>1. InputMessages(Append(items, x)) = InputMessages(items) \o MessagesOf(x)
        BY MessagesGrow
    <2>2. IsList(InputMessages(items))
        BY MessagesList
    <2>3. CASE x.type = "additional_tools"
        <3>1. InputMessages(Append(items, x)) = InputMessages(items)
            BY <2>1, <2>2, <2>3, Joined DEF MessagesOf
        <3> QED BY <1>2, <2>3, <3>1 DEF Conversion, Additional
    <2>4. CASE x.type # "additional_tools"
        <3>1. InputMessages(Append(items, x)) = Append(InputMessages(items), MessageOf(x))
            BY <2>1, <2>2, <2>4, Appended DEF MessagesOf
        <3> QED BY <1>2, <2>2, <2>4, <3>1, ConvertedGrows DEF Conversion, Additional, AsMessage
    <2> QED BY <2>3, <2>4
<1> QED BY <1>1, <1>2

\* Tools that an item brings are declared after the others.
LEMMA ToolsGrow ==
    ASSUME NEW items, Readable(items), NEW x, IsToolList(tools),
           Additional(x) => IsToolList(x.tools)
    PROVE  /\ Additional(x) => ToolsAt(Append(items, x)) = ToolsAt(items) \o x.tools
           /\ ~Additional(x) => ToolsAt(Append(items, x)) = ToolsAt(items)
<1>1. CASE format # "responses"
    BY <1>1 DEF ToolsAt, Additional
<1>2. CASE format = "responses"
    <2> DEFINE t == [i \in DOMAIN items |-> Brought(items[i])]
               old == FlattenSeq(t)
    <2>1. IsList(items) /\ \A i \in DOMAIN items : IsList(Brought(items[i]))
        BY <1>2, Short DEF Readable, Additional, Brought, IsToolList
    <2>2. IsList(old)
        <3>1. Indexed(t, Len(items)) /\ Len(items) \in Nat /\ \A i \in DOMAIN t : IsList(t[i])
            BY <2>1, ListShape DEF Indexed
        <3> HIDE DEF t
        <3>2. IsList(t)
            BY <3>1, FunctionIsList
        <3> QED BY <3>1, <3>2, FlattenList
    <2>3. IsList(Brought(x)) /\ IsList(tools)
        BY <1>2, Short DEF Additional, Brought, IsToolList
    <2>4. ToolsAt(Append(items, x)) = tools \o (old \o Brought(x))
        BY <1>2, <2>1, <2>3, BroughtGrows DEF ToolsAt, responseToolsForRequest
    <2>5. ToolsAt(items) = tools \o old
        BY <1>2 DEF ToolsAt, responseToolsForRequest
    <2> HIDE DEF old
    <2>6. CASE Additional(x)
        <3>1. Brought(x) = x.tools
            BY <2>6 DEF Additional, Brought
        <3>2. tools \o (old \o Brought(x)) = (tools \o old) \o Brought(x)
            BY <2>2, <2>3, Associated
        <3> QED BY <2>4, <2>5, <2>6, <3>1, <3>2
    <2>7. CASE ~Additional(x)
        <3>1. Brought(x) = <<>>
            BY <1>2, <2>7 DEF Additional, Brought
        <3>2. old \o <<>> = old
            BY <2>2, Joined
        <3> QED BY <2>4, <2>5, <2>7, <3>1, <3>2
    <2> QED BY <2>6, <2>7
<1> QED BY <1>1, <1>2

\* Two lists of tools make one.
LEMMA ToolListsJoined ==
    ASSUME NEW s, NEW t, IsToolList(s), IsToolList(t) PROVE IsToolList(s \o t)
<1>1. /\ IsList(s) /\ IsList(t) /\ Len(s) \in Nat /\ Len(t) \in Nat
      /\ DOMAIN s = 1 .. Len(s) /\ DOMAIN t = 1 .. Len(t)
    BY ListShape DEF IsToolList
<1>2. /\ IsList(s \o t) /\ Len(s \o t) = Len(s) + Len(t)
      /\ \A i \in 1 .. Len(s) : (s \o t)[i] = s[i]
      /\ \A i \in 1 .. Len(t) : (s \o t)[Len(s) + i] = t[i]
    BY <1>1, Joined
<1>3. DOMAIN (s \o t) = 1 .. Len(s) + Len(t)
    BY <1>2, ListShape
<1>4. ASSUME NEW i \in DOMAIN (s \o t), (s \o t)[i].type = "namespace"
      PROVE  IsList((s \o t)[i].tools)
    <2>1. CASE i <= Len(s)
        <3>1. i \in 1 .. Len(s)
            BY <1>1, <1>3, <2>1
        <3> QED BY <1>1, <1>2, <1>4, <3>1 DEF IsToolList
    <2>2. CASE ~(i <= Len(s))
        <3>1. i - Len(s) \in 1 .. Len(t) /\ Len(s) + (i - Len(s)) = i
            BY <1>1, <1>3, <2>2
        <3>2. (s \o t)[i] = t[i - Len(s)]
            BY <1>2, <3>1
        <3> QED BY <1>1, <1>4, <3>1, <3>2 DEF IsToolList
    <2> QED BY <2>1, <2>2
<1> QED BY <1>2, <1>4 DEF IsToolList

\* A history stays readable with an item whose message is converted.
LEMMA StaysReadable ==
    ASSUME NEW items, Readable(items), IsToolList(tools), NEW x,
           Additional(x) => IsToolList(x.tools), format = "responses" => Usable(x),
           Sound(Conversion(Append(items, x)))
    PROVE  Readable(Append(items, x))
<1>1. /\ IsList(items) /\ Len(items) \in Nat /\ DOMAIN items = 1 .. Len(items)
      /\ IsToolList(ToolsAt(items))
    BY ListShape DEF Readable
<1>2. /\ IsList(Append(items, x)) /\ DOMAIN Append(items, x) = 1 .. Len(items) + 1
      /\ Append(items, x)[Len(items) + 1] = x
      /\ \A i \in 1 .. Len(items) : Append(items, x)[i] = items[i]
    BY <1>1, Appended
<1>3. IsToolList(ToolsAt(Append(items, x)))
    BY <1>1, ToolsGrow, ToolListsJoined
<1>4. \A i \in DOMAIN Append(items, x) : i \in 1 .. Len(items) \/ i = Len(items) + 1
    BY <1>1, <1>2
<1>5. \A i \in DOMAIN Append(items, x) :
          /\ Additional(Append(items, x)[i]) => IsToolList(Append(items, x)[i].tools)
          /\ format = "responses" => Usable(Append(items, x)[i])
    BY <1>1, <1>2, <1>4 DEF Readable
<1> QED BY <1>2, <1>3, <1>5 DEF Readable
-----------------------------------------------------------------------------
(* What an answer adds to a history. *)

\* The history next is items with the given facts told after it, and nothing else.
Adds(items, next, facts) ==
    /\ Readable(next) /\ ToolsAt(next) = ToolsAt(items) /\ IsList(facts)
    /\ Conversion(next).system = Conversion(items).system
    /\ Heard(Conversion(next).sent) = Heard(Conversion(items).sent) \o facts
    /\ Conversion(items).sent # <<>> => Conversion(next).sent # <<>>

NamesOf(items) == Conversion(items).names

\* A history adds nothing to itself.
LEMMA AddsNothing == ASSUME NEW items, Readable(items) PROVE Adds(items, items, <<>>)
<1>1. IsList(Heard(Conversion(items).sent))
    BY HeardList DEF Readable
<1> QED BY <1>1, Short, Joined DEF Adds

\* What is added in two steps is added together.
LEMMA AddsBoth ==
    ASSUME NEW items, Readable(items), NEW next, NEW last, NEW f, NEW g,
           Adds(items, next, f), Adds(next, last, g)
    PROVE  Adds(items, last, f \o g)
<1>1. IsList(Heard(Conversion(items).sent)) /\ IsList(f) /\ IsList(g)
    BY HeardList DEF Readable, Adds
<1>2. (Heard(Conversion(items).sent) \o f) \o g = Heard(Conversion(items).sent) \o (f \o g)
    BY <1>1, Associated
<1>3. IsList(f \o g)
    BY <1>1, Joined
<1> QED BY <1>2, <1>3 DEF Adds

\* A message of the user or the model is told in its parts and calls.
LEMMA SpeechAdded ==
    ASSUME NEW items, Readable(items), IsToolList(tools), NEW x, ~Additional(x),
           format = "responses" => Usable(x), NEW m, m = AsMessage(x),
           IsSpeech(m)
    PROVE  /\ Adds(items, Append(items, x), Parts(m) \o m.calls)
           /\ NamesOf(Append(items, x)) = Named(NamesOf(items), m.calls)
<1> DEFINE acc == Conversion(items)
           next == Conversion(Append(items, x))
<1>1. Sound(acc) /\ IsList(items)
    BY DEF Readable
<1>2. next = Convert(acc, m)
    BY <1>1, ConversionGrows
<1> HIDE DEF acc, next
<1>3. /\ Sound(next) /\ next.system = acc.system
      /\ next.names = Named(acc.names, m.calls)
      /\ Heard(next.sent) = Heard(acc.sent) \o (Parts(m) \o m.calls)
      /\ acc.sent # <<>> => next.sent # <<>>
    BY <1>1, <1>2, SpeechConverted
<1>4. Readable(Append(items, x))
    BY <1>3, StaysReadable DEF next
<1>5. ToolsAt(Append(items, x)) = ToolsAt(items)
    BY ToolsGrow
<1>6. IsList(Parts(m) \o m.calls)
    BY PartsList, Joined DEF IsSpeech
<1> QED BY <1>3, <1>4, <1>5, <1>6 DEF Adds, NamesOf, acc, next

\* A result is told under the name of its call.
LEMMA ResultAdded ==
    ASSUME NEW items, Readable(items), IsToolList(tools), NEW x, ~Additional(x),
           format = "responses" => Usable(x), NEW m, m = AsMessage(x),
           m.role = "tool", m.id \in DOMAIN NamesOf(items)
    PROVE  /\ Adds(items, Append(items, x), <<[id |-> m.id, name |-> NamesOf(items)[m.id],
                                               output |-> messageText(m.content)]>>)
           /\ NamesOf(Append(items, x)) = NamesOf(items)
           /\ Conversion(Append(items, x)).sent # <<>>
<1> DEFINE acc == Conversion(items)
           next == Conversion(Append(items, x))
           fact == [id |-> m.id, name |-> acc.names[m.id], output |-> messageText(m.content)]
<1>1. Sound(acc) /\ IsList(items) /\ m.id \in DOMAIN acc.names
    BY DEF Readable, NamesOf
<1>2. next = Convert(acc, m)
    BY <1>1, ConversionGrows
<1> HIDE DEF acc, next
<1>3. /\ Sound(next) /\ next.system = acc.system /\ next.names = acc.names
      /\ Heard(next.sent) = Heard(acc.sent) \o <<fact>> /\ next.sent # <<>>
    BY <1>1, <1>2, ResultConverted
<1>4. Readable(Append(items, x))
    BY <1>3, StaysReadable DEF next
<1>5. ToolsAt(Append(items, x)) = ToolsAt(items)
    BY ToolsGrow
<1>6. IsList(<<fact>>)
    BY Short
<1> QED BY <1>3, <1>4, <1>5, <1>6 DEF Adds, NamesOf, acc, next

\* A message of the system is told apart.
LEMMA SystemAdded ==
    ASSUME NEW items, Readable(items), IsToolList(tools), NEW x, ~Additional(x),
           format = "responses" => Usable(x), NEW m, m = AsMessage(x),
           IsInstruction(m)
    PROVE  LET acc  == Conversion(items)
               next == Conversion(Append(items, x))
           IN /\ Readable(Append(items, x)) /\ ToolsAt(Append(items, x)) = ToolsAt(items)
              /\ next.sent = acc.sent
              /\ FlattenSeq(next.system) = FlattenSeq(acc.system) \o messageText(m.content)
<1> DEFINE acc == Conversion(items)
           next == Conversion(Append(items, x))
<1>1. Sound(acc) /\ IsList(items)
    BY DEF Readable
<1>2. next = Convert(acc, m)
    BY <1>1, ConversionGrows
<1> HIDE DEF acc, next
<1>3. /\ Sound(next) /\ next.sent = acc.sent
      /\ FlattenSeq(next.system) = FlattenSeq(acc.system) \o messageText(m.content)
    BY <1>1, <1>2, SystemConverted
<1>4. Readable(Append(items, x))
    BY <1>3, StaysReadable DEF next
<1>5. ToolsAt(Append(items, x)) = ToolsAt(items)
    BY ToolsGrow
<1> QED BY <1>3, <1>4, <1>5 DEF acc, next

\* Tools more leave what is told as it is.
LEMMA ToolsAdded ==
    ASSUME NEW items, Readable(items), IsToolList(tools), NEW x, Additional(x),
           IsToolList(x.tools), x.type = "additional_tools"
    PROVE  Readable(Append(items, x)) /\ Conversion(Append(items, x)) = Conversion(items)
<1>1. Conversion(Append(items, x)) = Conversion(items) /\ Sound(Conversion(items))
    BY ConversionGrows DEF Readable
<1>2. Usable(x)
    BY DEF Usable
<1> QED BY <1>1, <1>2, StaysReadable
-----------------------------------------------------------------------------
(* The calls of an answer. *)

\* A list without its first element.
LEMMA TailList ==
    ASSUME NEW s, IsList(s), s # <<>>
    PROVE  /\ IsList(Tail(s)) /\ Len(Tail(s)) = Len(s) - 1
           /\ \A i \in 1 .. Len(s) - 1 : Tail(s)[i] = s[i + 1]
<1> DEFINE S == ToSet(s)
<1>1. s \in Seq(S)
    BY DEF IsList
<1> HIDE DEF S
<1>2. Tail(s) \in Seq(S)
    BY <1>1
<1>3. IsList(Tail(s))
    BY <1>2, ListIntro
<1> QED BY <1>1, <1>3

\* Wrapping an input and taking it out again.
LEMMA Wrapped ==
    ASSUME NEW text, IsList(text)
    PROVE  Head(<<"input">> \o text) = "input" /\ Tail(<<"input">> \o text) = text
<1> DEFINE w == <<"input">> \o text
<1>1. IsList(<<"input">>) /\ Len(<<"input">>) = 1 /\ <<"input">>[1] = "input"
    BY Short
<1>2. /\ IsList(w) /\ Len(w) = 1 + Len(text) /\ Len(text) \in Nat
      /\ \A i \in 1 .. 1 : w[i] = <<"input">>[i]
      /\ \A i \in 1 .. Len(text) : w[1 + i] = text[i]
    <2>1. Len(<<"input">>) = 1
        BY <1>1
    <2>2. IsList(w) /\ Len(w) = Len(<<"input">>) + Len(text)
        BY <1>1, Joined
    <2>3. \A i \in 1 .. Len(<<"input">>) : w[i] = <<"input">>[i]
        BY <1>1, Joined
    <2>4. \A i \in 1 .. Len(text) : w[Len(<<"input">>) + i] = text[i]
        BY <1>1, Joined
    <2> QED BY <2>1, <2>2, <2>3, <2>4, ListShape
<1>3. w[1] = "input"
    BY <1>1, <1>2
<1> HIDE DEF w
<1>4. w # <<>> /\ Head(w) = "input"
    BY <1>2, <1>3 DEF IsList
<1>5. Tail(w) = text
    <2>1. /\ IsList(Tail(w)) /\ Len(Tail(w)) = Len(text)
          /\ \A i \in 1 .. Len(text) : Tail(w)[i] = w[i + 1]
        BY <1>2, <1>4, TailList
    <2>2. \A i \in 1 .. Len(text) : w[i + 1] = w[1 + i]
        BY <1>2
    <2>3. \A i \in 1 .. Len(text) : Tail(w)[i] = text[i]
        BY <1>2, <2>1, <2>2
    <2> QED BY <2>1, <2>3, SameList
<1> QED BY <1>4, <1>5 DEF w

\* Where the aliases are distinct, an alias has one declared tool.
LEMMA OneTool ==
    ASSUME NEW list, IsToolList(list), Distinct(Declared(list)),
           NEW i \in DOMAIN Declared(list), NEW j \in DOMAIN Declared(list),
           AliasOf(Declared(list)[i]) = AliasOf(Declared(list)[j])
    PROVE  i = j
<1>1. i \in Nat /\ j \in Nat
    BY DeclaredList, ListShape
<1>2. ~(i < j) /\ ~(j < i)
    BY DEF Distinct
<1> QED BY <1>1, <1>2

\* The call as the model meant it: what is told of it.
AsMeant(list, call) ==
    [id |-> call.id, name |-> call.name,
     arguments |-> IF call.name \in customTools(list) THEN <<"input">> \o Meaning(call.text)
                   ELSE call.text]

\* A call of which a client is told as it declared the tool.
AsDeclared(list, said, got) ==
    \A tool \in ToSet(Declared(list)) : AliasOf(tool) = said.name =>
        /\ got.namespace = tool.ns /\ got.name = tool.name
        /\ IF tool.type = "custom"
           THEN got.type = "custom_tool_call" /\ got.input = Meaning(said.text)
           ELSE got.type = "function_call" /\ got.arguments = said.text

\* The input of a call as a custom tool gets it, and whether it is wrapped on the way.
LEMMA Unwrapped ==
    ASSUME NEW call, IsList(call.text), NEW custom
    PROVE  LET arguments == Arguments(call, custom)
           IN /\ (IF Head(arguments) = "input" THEN Tail(arguments) ELSE arguments)
                     = Meaning(call.text)
              /\ call.name \notin custom => arguments = call.text
<1>1. CASE call.string /\ call.name \in custom /\ Head(call.text) # "input"
    <2>1. Arguments(call, custom) = <<"input">> \o call.text /\ Meaning(call.text) = call.text
        BY <1>1 DEF Arguments, Meaning
    <2> QED BY <1>1, <2>1, Wrapped
<1>2. CASE ~(call.string /\ call.name \in custom /\ Head(call.text) # "input")
    BY <1>2 DEF Arguments, Meaning
<1> QED BY <1>1, <1>2

\* A call that a client gets and sends back means what the model meant, and is a call of
\* the tool as it was declared.
LEMMA CallReturned ==
    ASSUME NEW list, IsToolList(list), Distinct(Declared(list)), NEW call,
           IsList(call.text), call.text # <<>>, Valid(Arguments(call, customTools(list)))
    PROVE  LET got  == responseToolForRequest(list, call, Arguments(call, customTools(list)))
               fact == AsMeant(list, call)
           IN /\ got.type \in {"function_call", "custom_tool_call"} /\ got.call_id = call.id
              /\ MessageOf(got) = [role |-> "assistant", content |-> <<>>, id |-> "",
                                   calls |-> <<fact>>]
              /\ Valid(fact.arguments)
              /\ AsDeclared(list, call, got)
<1> DEFINE declared == Declared(list)
           custom == customTools(list)
           arguments == Arguments(call, custom)
           matching == {i \in DOMAIN declared : AliasOf(declared[i]) = call.name}
           got == responseToolForRequest(list, call, arguments)
           fact == AsMeant(list, call)
<1> SUFFICES /\ got.type \in {"function_call", "custom_tool_call"} /\ got.call_id = call.id
             /\ MessageOf(got) = [role |-> "assistant", content |-> <<>>, id |-> "",
                                  calls |-> <<fact>>]
             /\ Valid(fact.arguments)
             /\ AsDeclared(list, call, got)
    OBVIOUS
<1>1. /\ (IF Head(arguments) = "input" THEN Tail(arguments) ELSE arguments) = Meaning(call.text)
      /\ call.name \notin custom => arguments = call.text
    BY Unwrapped
<1>2. CASE matching = {}
    <2>1. got = [type |-> "function_call", call_id |-> call.id, namespace |-> "",
                 name |-> call.name, arguments |-> arguments]
        BY <1>2 DEF responseToolForRequest
    <2>2. call.name \notin custom
        BY <1>2 DEF customTools, ToSet
    <2>3. arguments = call.text /\ fact = [id |-> call.id, name |-> call.name, arguments |-> call.text]
        BY <1>1, <2>2 DEF AsMeant
    <2>4. \A tool \in ToSet(declared) : AliasOf(tool) # call.name
        BY <1>2 DEF ToSet
    <2> HIDE DEF got, fact, arguments, declared, matching
    <2>5. MessageOf(got) = [role |-> "assistant", content |-> <<>>, id |-> "",
                            calls |-> <<[id |-> call.id, name |-> call.name,
                                         arguments |-> arguments]>>]
        BY <2>1 DEF MessageOf, namespaceToolName
    <2>6. Valid(fact.arguments)
        BY <2>3 DEF arguments, custom
    <2>7. AsDeclared(list, call, got)
        BY <2>4 DEF AsDeclared, declared
    <2> QED BY <2>1, <2>3, <2>5, <2>6, <2>7
<1>3. ASSUME NEW k \in matching
      PROVE  /\ got.type \in {"function_call", "custom_tool_call"} /\ got.call_id = call.id
             /\ MessageOf(got) = [role |-> "assistant", content |-> <<>>, id |-> "",
                                  calls |-> <<fact>>]
             /\ Valid(fact.arguments)
             /\ AsDeclared(list, call, got)
    <2> DEFINE tool == declared[k]
    <2>1. \A i \in DOMAIN declared : AliasOf(declared[i]) = call.name => i = k
        BY OneTool
    <2>2. Min(matching) = k
        <3>1. matching = {k}
            BY <2>1
        <3>2. k \in Nat
            BY DeclaredList, ListShape
        <3> QED BY <3>1, <3>2 DEF Min
    <2>3. \A other \in ToSet(declared) : AliasOf(other) = call.name => other = tool
        BY <2>1 DEF ToSet
    <2>4. tool \in ToSet(declared) /\ AliasOf(tool) = call.name
        BY DEF ToSet
    <2>5. call.name \in custom <=> tool.type = "custom"
        BY <2>3, <2>4 DEF customTools
    <2>6. got = IF tool.type = "custom"
                THEN [type |-> "custom_tool_call", call_id |-> call.id,
                      namespace |-> tool.ns, name |-> tool.name,
                      input |-> IF Head(arguments) = "input" THEN Tail(arguments) ELSE arguments]
                ELSE [type |-> "function_call", call_id |-> call.id,
                      namespace |-> tool.ns, name |-> tool.name, arguments |-> arguments]
        BY <2>2 DEF responseToolForRequest
    <2>7. namespaceToolName(tool.ns, tool.name) = call.name
        BY <2>4 DEF AliasOf
    <2>8. fact = [id |-> call.id, name |-> call.name,
                  arguments |-> IF tool.type = "custom" THEN <<"input">> \o Meaning(call.text)
                                ELSE call.text]
        BY <2>5 DEF AsMeant
    <2>9. Valid(arguments)
        OBVIOUS
    <2> HIDE DEF got, fact, arguments, declared, matching, tool, custom
    <2>10. CASE tool.type = "custom"
        <3>1. got = [type |-> "custom_tool_call", call_id |-> call.id, namespace |-> tool.ns,
                     name |-> tool.name, input |-> Meaning(call.text)]
            BY <1>1, <2>6, <2>10
        <3>2. MessageOf(got) = [role |-> "assistant", content |-> <<>>, id |-> "",
                                calls |-> <<[id |-> call.id, name |-> call.name,
                                             arguments |-> <<"input">> \o Meaning(call.text)]>>]
            BY <2>7, <3>1 DEF MessageOf, PastArguments
        <3>3. fact.arguments = <<"input">> \o Meaning(call.text)
            BY <2>8, <2>10
        <3>4. Head(<<"input">> \o Meaning(call.text)) = "input"
            <4>1. IsList(Meaning(call.text))
                <5>1. CASE Head(call.text) = "input"
                    BY <5>1, TailList DEF Meaning
                <5>2. CASE Head(call.text) # "input"
                    BY <5>2 DEF Meaning
                <5> QED BY <5>1, <5>2
            <4> QED BY <4>1, Wrapped
        <3>5. Valid(fact.arguments)
            BY <3>3, <3>4 DEF Valid
        <3>6. AsDeclared(list, call, got)
            BY <2>3, <2>10, <3>1 DEF AsDeclared, declared
        <3> QED BY <2>8, <2>10, <3>1, <3>2, <3>5, <3>6
    <2>11. CASE tool.type # "custom"
        <3>1. arguments = call.text
            BY <1>1, <2>5, <2>11
        <3>2. got = [type |-> "function_call", call_id |-> call.id, namespace |-> tool.ns,
                     name |-> tool.name, arguments |-> call.text]
            BY <2>6, <2>11, <3>1
        <3>3. MessageOf(got) = [role |-> "assistant", content |-> <<>>, id |-> "",
                                calls |-> <<[id |-> call.id, name |-> call.name,
                                             arguments |-> call.text]>>]
            BY <2>7, <3>2 DEF MessageOf
        <3>4. Valid(fact.arguments)
            BY <2>8, <2>9, <2>11, <3>1
        <3>5. AsDeclared(list, call, got)
            BY <2>3, <2>11, <3>2 DEF AsDeclared, declared
        <3> QED BY <2>8, <2>11, <3>2, <3>3, <3>4, <3>5
    <2> QED BY <2>10, <2>11
<1> QED BY <1>2, <1>3
-----------------------------------------------------------------------------
(* An answer with up to two calls. *)

\* A list of no elements adds nothing.
LEMMA JoinNone ==
    ASSUME NEW s, IsList(s), NEW t, IsList(t), Len(t) = 0 PROVE t = <<>> /\ s \o t = s
<1>1. t = <<>>
    BY DEF IsList
<1> QED BY <1>1, Joined

\* A list of one element appends it.
LEMMA JoinOne ==
    ASSUME NEW s, IsList(s), NEW t, IsList(t), Len(t) = 1
    PROVE  t = <<t[1]>> /\ s \o t = Append(s, t[1])
<1>1. t = Append(<<>>, t[1])
    <2> DEFINE e == <<>>
    <2>1. IsList(e) /\ Len(e) = 0
        BY Short
    <2>2. Indexed(t, 1)
        BY ListShape DEF Indexed
    <2> HIDE DEF e
    <2>3. Indexed(t, Len(e) + 1) /\ \A i \in 1 .. Len(e) : t[i] = e[i]
        BY <2>1, <2>2
    <2>4. t = Append(e, t[Len(e) + 1])
        BY <2>1, <2>3, AppendsOne
    <2>5. Len(e) + 1 = 1
        BY <2>1
    <2> QED BY <2>4, <2>5 DEF e
<1>2. t = <<t[1]>>
    BY <1>1, Short
<1>3. s \o <<t[1]>> = Append(s, t[1])
    BY Appended
<1> QED BY <1>2, <1>3

\* A list of two elements appends them.
LEMMA JoinTwo ==
    ASSUME NEW s, IsList(s), NEW t, IsList(t), Len(t) = 2
    PROVE  t = <<t[1], t[2]>> /\ s \o t = Append(Append(s, t[1]), t[2])
<1> DEFINE a == t[1]
           b == t[2]
           one == <<a>>
<1>1. IsList(one) /\ Len(one) = 1 /\ one[1] = a
    BY Short
<1>2. Append(one, b) = <<a, b>>
    BY Short
<1>3. Indexed(t, Len(one) + 1)
    BY <1>1, ListShape DEF Indexed
<1>4. \A i \in 1 .. 1 : i = 1
    OBVIOUS
<1>5. \A i \in 1 .. Len(one) : t[i] = one[i]
    BY <1>1, <1>4
<1>6. t = Append(one, t[Len(one) + 1])
    <2> HIDE DEF one
    <2> QED BY <1>1, <1>3, <1>5, AppendsOne
<1>7. Len(one) + 1 = 2
    BY <1>1
<1>8. t = Append(one, b)
    BY <1>6, <1>7
<1> HIDE DEF a, b
<1>9. t = one \o <<b>>
    <2> HIDE DEF one
    <2> QED BY <1>1, <1>8, Appended
<1>10. s \o (one \o <<b>>) = (s \o one) \o <<b>>
    <2>1. IsList(<<b>>)
        BY Short
    <2> HIDE DEF one
    <2> QED BY <1>1, <2>1, Associated
<1>11. s \o one = Append(s, a) /\ IsList(Append(s, a))
    BY Appended
<1>12. Append(s, a) \o <<b>> = Append(Append(s, a), b)
    BY <1>11, Appended
<1>13. s \o t = Append(Append(s, a), b)
    <2> HIDE DEF one
    <2> QED BY <1>9, <1>10, <1>11, <1>12
<1>14. t = <<a, b>>
    <2> HIDE DEF one
    <2> QED BY <1>2, <1>8
<1> QED BY <1>13, <1>14 DEF a, b

\* The message that says one call.
CallMessage(fact) == [role |-> "assistant", content |-> <<>>, id |-> "", calls |-> <<fact>>]

\* One call is known by its own name from now on, the others by theirs.
LEMMA OneNamed ==
    ASSUME NEW names, NEW fact
    PROVE  LET next == Named(names, <<fact>>)
           IN /\ DOMAIN next = DOMAIN names \cup {fact.id} /\ next[fact.id] = fact.name
              /\ \A id \in DOMAIN names : id # fact.id => next[id] = names[id]
<1> DEFINE s == <<fact>>
<1>1. DOMAIN s = {1} /\ s[1] = fact
    OBVIOUS
<1> HIDE DEF s
<1>2. {s[i].id : i \in DOMAIN s} = {fact.id}
    BY <1>1
<1>3. ASSUME NEW id, id # fact.id PROVE {i \in DOMAIN s : s[i].id = id} = {}
    BY <1>1, <1>3
<1>4. {i \in DOMAIN s : s[i].id = fact.id} = {1}
    BY <1>1
<1>5. Max({1}) = 1
    BY DEF Max
<1>6. DOMAIN Named(names, s) = DOMAIN names \cup {fact.id}
    BY <1>2 DEF Named
<1>7. Named(names, s)[fact.id] = fact.name
    BY <1>1, <1>2, <1>4, <1>5 DEF Named
<1>8. ASSUME NEW id \in DOMAIN names, id # fact.id PROVE Named(names, s)[id] = names[id]
    BY <1>2, <1>3, <1>8 DEF Named
<1> QED BY <1>6, <1>7, <1>8 DEF s

\* An item that says a call adds the call.
LEMMA CallAdded ==
    ASSUME NEW items, Readable(items), IsToolList(tools), NEW x, ~Additional(x),
           format = "responses" => Usable(x),
           NEW fact, AsMessage(x) = CallMessage(fact), Valid(fact.arguments)
    PROVE  /\ Adds(items, Append(items, x), <<fact>>)
           /\ fact.id \in DOMAIN NamesOf(Append(items, x))
           /\ NamesOf(Append(items, x))[fact.id] = fact.name
           /\ \A id \in DOMAIN NamesOf(items) : id # fact.id =>
                 /\ id \in DOMAIN NamesOf(Append(items, x))
                 /\ NamesOf(Append(items, x))[id] = NamesOf(items)[id]
<1> DEFINE m == AsMessage(x)
           next == Append(items, x)
<1>1. m.role = "assistant" /\ m.content = <<>> /\ m.calls = <<fact>>
    <2>1. m = CallMessage(fact)
        OBVIOUS
    <2> HIDE DEF m
    <2> QED BY <2>1 DEF CallMessage
<1>2. \A i \in DOMAIN <<fact>> : <<fact>>[i] = fact
    OBVIOUS
<1> HIDE DEF m, next
<1>3. IsSpeech(m)
    <2>1. ToSet(<<>>) = {}
        BY DEF ToSet
    <2>2. IsList(m.content) /\ IsList(m.calls)
        BY <1>1, Short
    <2>3. \A i \in DOMAIN m.calls : Valid(m.calls[i].arguments)
        BY <1>1, <1>2
    <2> QED BY <1>1, <2>1, <2>2, <2>3 DEF IsSpeech
<1>4. Adds(items, next, Parts(m) \o m.calls) /\ NamesOf(next) = Named(NamesOf(items), m.calls)
    BY <1>3, SpeechAdded DEF m, next
<1>5. Parts(m) \o m.calls = <<fact>>
    <2>1. IsList(m.content) /\ IsList(<<fact>>)
        BY <1>1, Short
    <2>2. Parts(m) = <<>>
        BY <1>1, <2>1, PartsList
    <2> QED BY <1>1, <2>1, <2>2, Joined
<1>6. NamesOf(next) = Named(NamesOf(items), <<fact>>)
    BY <1>1, <1>4
<1>7. Adds(items, next, <<fact>>)
    BY <1>4, <1>5
<1>8. /\ fact.id \in DOMAIN NamesOf(next) /\ NamesOf(next)[fact.id] = fact.name
      /\ \A id \in DOMAIN NamesOf(items) : id # fact.id =>
            id \in DOMAIN NamesOf(next) /\ NamesOf(next)[id] = NamesOf(items)[id]
    <2> DEFINE named == Named(NamesOf(items), <<fact>>)
    <2>1. /\ DOMAIN named = DOMAIN NamesOf(items) \cup {fact.id} /\ named[fact.id] = fact.name
          /\ \A id \in DOMAIN NamesOf(items) : id # fact.id => named[id] = NamesOf(items)[id]
        BY OneNamed
    <2> HIDE DEF named
    <2>2. NamesOf(next) = named
        BY <1>6 DEF named
    <2> QED BY <2>1, <2>2
<1> QED BY <1>7, <1>8 DEF next

\* Two items add two calls, and both are known if their IDs differ.
LEMMA TwoCallsAdded ==
    ASSUME NEW items, Readable(items), IsToolList(tools),
           NEW x, ~Additional(x), format = "responses" => Usable(x),
           NEW c, AsMessage(x) = CallMessage(c), Valid(c.arguments),
           NEW y, ~Additional(y), format = "responses" => Usable(y),
           NEW d, AsMessage(y) = CallMessage(d), Valid(d.arguments), c.id # d.id
    PROVE  LET both == Append(Append(items, x), y)
           IN /\ Adds(items, both, <<c, d>>)
              /\ c.id \in DOMAIN NamesOf(both) /\ NamesOf(both)[c.id] = c.name
              /\ d.id \in DOMAIN NamesOf(both) /\ NamesOf(both)[d.id] = d.name
<1> DEFINE one == Append(items, x)
           both == Append(one, y)
<1>1. /\ Adds(items, one, <<c>>)
      /\ c.id \in DOMAIN NamesOf(one) /\ NamesOf(one)[c.id] = c.name
    BY CallAdded
<1>2. Readable(one)
    BY <1>1 DEF Adds
<1> HIDE DEF one
<1>3. /\ Adds(one, both, <<d>>)
      /\ d.id \in DOMAIN NamesOf(both) /\ NamesOf(both)[d.id] = d.name
      /\ \A id \in DOMAIN NamesOf(one) : id # d.id =>
            id \in DOMAIN NamesOf(both) /\ NamesOf(both)[id] = NamesOf(one)[id]
    BY <1>2, CallAdded
<1>4. Adds(items, both, <<c>> \o <<d>>)
    BY <1>1, <1>3, AddsBoth
<1>5. <<c>> \o <<d>> = <<c, d>>
    <2>1. IsList(<<c>>) /\ Append(<<c>>, d) = <<c, d>>
        BY Short
    <2>2. <<c>> \o <<d>> = Append(<<c>>, d)
        BY <2>1, Appended
    <2> QED BY <2>1, <2>2
<1>6. c.id \in DOMAIN NamesOf(both) /\ NamesOf(both)[c.id] = c.name
    BY <1>1, <1>3
<1> HIDE DEF both
<1> QED BY <1>3, <1>4, <1>5, <1>6 DEF both, one

\* The item x says the call of which fact is told.
SaysCall(x, fact) ==
    /\ ~Additional(x) /\ (format = "responses" => Usable(x))
    /\ AsMessage(x) = CallMessage(fact) /\ Valid(fact.arguments)

\* The calls a list of items says, and that their results find their names.
LEMMA CallsAdded ==
    ASSUME NEW items, Readable(items), IsToolList(tools),
           NEW calls, IsList(calls), Len(calls) <= 2, NEW said, IsList(said), Len(said) = Len(calls),
           \A i \in DOMAIN calls : SaysCall(calls[i], said[i]),
           \A i, j \in DOMAIN said : said[i].id = said[j].id => i = j
    PROVE  Adds(items, items \o calls, said) /\ Knows(NamesOf(items \o calls), said)
<1>1. IsList(items) /\ IsList(<<>>)
    BY Short DEF Readable
<1>2. DOMAIN calls = 1 .. Len(calls) /\ DOMAIN said = 1 .. Len(calls)
    BY ListShape
<1>3. CASE Len(calls) = 0
    <2>1. items \o calls = items
        BY <1>1, <1>3, JoinNone
    <2>2. said = <<>>
        BY <1>1, <1>3, JoinNone
    <2>3. DOMAIN said = {}
        BY <1>2, <1>3
    <2> QED BY <2>1, <2>2, <2>3, AddsNothing DEF Knows
<1>4. CASE Len(calls) = 1
    <2>1. items \o calls = Append(items, calls[1])
        BY <1>1, <1>4, JoinOne
    <2>2. said = <<said[1]>>
        BY <1>1, <1>4, JoinOne
    <2>3. DOMAIN said = {1} /\ DOMAIN calls = {1}
        BY <1>2, <1>4
    <2>4. /\ Adds(items, Append(items, calls[1]), <<said[1]>>)
          /\ said[1].id \in DOMAIN NamesOf(Append(items, calls[1]))
          /\ NamesOf(Append(items, calls[1]))[said[1].id] = said[1].name
        BY <2>3, CallAdded DEF SaysCall
    <2> QED BY <2>1, <2>2, <2>3, <2>4 DEF Knows
<1>5. CASE Len(calls) = 2
    <2> DEFINE both == Append(Append(items, calls[1]), calls[2])
    <2>1. items \o calls = both
        BY <1>1, <1>5, JoinTwo
    <2>2. said = <<said[1], said[2]>>
        BY <1>1, <1>5, JoinTwo
    <2>3. DOMAIN said = {1, 2} /\ DOMAIN calls = {1, 2}
        BY <1>2, <1>5
    <2>4. said[1].id # said[2].id
        BY <2>3
    <2>5. /\ Adds(items, both, <<said[1], said[2]>>)
          /\ said[1].id \in DOMAIN NamesOf(both) /\ NamesOf(both)[said[1].id] = said[1].name
          /\ said[2].id \in DOMAIN NamesOf(both) /\ NamesOf(both)[said[2].id] = said[2].name
        BY <2>3, <2>4, TwoCallsAdded DEF SaysCall
    <2> HIDE DEF both
    <2> QED BY <2>1, <2>2, <2>3, <2>5 DEF Knows
<1>6. Len(calls) \in Nat
    BY ListShape
<1> QED BY <1>3, <1>4, <1>5, <1>6

\* A result is added by an item in either format.
LEMMA OneResultAdded ==
    ASSUME NEW items, Readable(items), IsToolList(tools), NEW x, ~Additional(x),
           format = "responses" => Usable(x), AsMessage(x).role = "tool",
           NEW call, AsMessage(x).id = call.id,
           call.id \in DOMAIN NamesOf(items), NamesOf(items)[call.id] = call.name
    PROVE  /\ Adds(items, Append(items, x), <<[id |-> call.id, name |-> call.name,
                                               output |-> messageText(AsMessage(x).content)]>>)
           /\ NamesOf(Append(items, x)) = NamesOf(items)
           /\ Conversion(Append(items, x)).sent # <<>>
<1> DEFINE m == AsMessage(x)
<1>1. m.role = "tool" /\ m.id = call.id
    OBVIOUS
<1> HIDE DEF m
<1>2. /\ Adds(items, Append(items, x), <<[id |-> m.id, name |-> NamesOf(items)[m.id],
                                          output |-> messageText(m.content)]>>)
      /\ NamesOf(Append(items, x)) = NamesOf(items)
      /\ Conversion(Append(items, x)).sent # <<>>
    BY <1>1, ResultAdded DEF m
<1>3. [id |-> m.id, name |-> NamesOf(items)[m.id], output |-> messageText(m.content)]
          = [id |-> call.id, name |-> call.name, output |-> messageText(m.content)]
    BY <1>1
<1> QED BY <1>2, <1>3 DEF m

\* r is the result x brings for a call.
ResultOf(r, call, x) ==
    r = [id |-> call.id, name |-> call.name, output |-> messageText(AsMessage(x).content)]

\* x answers a call whose name is known in items.
Returns(items, x, call) ==
    /\ ~Additional(x) /\ (format = "responses" => Usable(x))
    /\ AsMessage(x).role = "tool" /\ AsMessage(x).id = call.id
    /\ call.id \in DOMAIN NamesOf(items) /\ NamesOf(items)[call.id] = call.name

\* The results of up to two calls that are known.
LEMMA ResultsAdded ==
    ASSUME NEW items, Readable(items), IsToolList(tools),
           NEW xs, IsList(xs), Len(xs) <= 2,
           NEW said, IsList(said), Len(said) = Len(xs),
           NEW results, IsList(results), Len(results) = Len(xs),
           \A i \in DOMAIN xs : /\ Returns(items, xs[i], said[i])
                                /\ ResultOf(results[i], said[i], xs[i])
    PROVE  Adds(items, items \o xs, results)
<1>1. IsList(items) /\ IsList(<<>>)
    BY Short DEF Readable
<1>2. DOMAIN xs = 1 .. Len(xs) /\ Len(xs) \in Nat
    BY ListShape
<1>3. ASSUME NEW old, Readable(old), NamesOf(old) = NamesOf(items), NEW i \in DOMAIN xs
      PROVE  /\ Adds(old, Append(old, xs[i]), <<results[i]>>)
             /\ NamesOf(Append(old, xs[i])) = NamesOf(items)
    <2> DEFINE x == xs[i]
               call == said[i]
    <2>1. Returns(old, x, call) /\ ResultOf(results[i], call, x)
        BY <1>3 DEF Returns
    <2> HIDE DEF x, call
    <2>2. /\ Adds(old, Append(old, x), <<results[i]>>)
          /\ NamesOf(Append(old, x)) = NamesOf(old)
        BY <1>3, <2>1, OneResultAdded DEF Returns, ResultOf
    <2> QED BY <1>3, <2>2 DEF x
<1>4. CASE Len(xs) = 0
    <2>1. items \o xs = items /\ results = <<>>
        BY <1>1, <1>4, JoinNone
    <2> QED BY <2>1, AddsNothing
<1>5. CASE Len(xs) = 1
    <2>1. items \o xs = Append(items, xs[1])
        BY <1>1, <1>5, JoinOne
    <2>2. results = <<results[1]>>
        BY <1>1, <1>5, JoinOne
    <2>3. 1 \in DOMAIN xs
        BY <1>2, <1>5
    <2>4. Adds(items, Append(items, xs[1]), <<results[1]>>)
        BY <1>3, <2>3
    <2> QED BY <2>1, <2>2, <2>4
<1>6. CASE Len(xs) = 2
    <2> DEFINE one == Append(items, xs[1])
               both == Append(one, xs[2])
    <2>1. items \o xs = both
        BY <1>1, <1>6, JoinTwo
    <2>2. results = <<results[1], results[2]>>
        BY <1>1, <1>6, JoinTwo
    <2>3. 1 \in DOMAIN xs /\ 2 \in DOMAIN xs
        BY <1>2, <1>6
    <2>4. Adds(items, one, <<results[1]>>) /\ NamesOf(one) = NamesOf(items)
        BY <1>3, <2>3
    <2>5. Readable(one)
        BY <2>4 DEF Adds
    <2> HIDE DEF one
    <2>6. Adds(one, both, <<results[2]>>)
        BY <1>3, <2>3, <2>4, <2>5
    <2> HIDE DEF both
    <2>7. Adds(items, both, <<results[1]>> \o <<results[2]>>)
        BY <2>4, <2>6, AddsBoth
    <2>8. <<results[1]>> \o <<results[2]>> = <<results[1], results[2]>>
        <3> DEFINE c == results[1]
                   d == results[2]
        <3>1. IsList(<<c>>) /\ Append(<<c>>, d) = <<c, d>>
            BY Short
        <3>2. <<c>> \o <<d>> = Append(<<c>>, d)
            BY <3>1, Appended
        <3> QED BY <3>1, <3>2
    <2> QED BY <2>1, <2>2, <2>7, <2>8
<1> QED BY <1>2, <1>4, <1>5, <1>6

\* An answer has up to two calls, under IDs of their own, whose inputs are texts.
LEMMA AnswersShape ==
    ASSUME NEW said \in Answers
    PROVE  /\ IsList(said) /\ Len(said) <= 2
           /\ \A i \in DOMAIN said : IsList(said[i].text) /\ said[i].text # <<>>
           /\ \A i, j \in DOMAIN said : said[i].id = said[j].id => i = j
<1>1. ASSUME NEW c \in Calls PROVE IsList(Said(c).text) /\ Said(c).text # <<>> /\ Said(c).id = c.id
    <2>1. c.input \in Inputs
        BY DEF Calls
    <2> QED BY <2>1, ConversationAssumption DEF ConversationAssumption, Said
<1>2. CASE said = <<>>
    <2>1. IsList(said)
        BY <1>2, Short
    <2>2. Len(said) = 0 /\ DOMAIN said = {}
        BY <1>2
    <2> QED BY <2>1, <2>2
<1>3. ASSUME NEW c \in Calls, said = <<Said(c)>>
      PROVE  /\ IsList(said) /\ Len(said) <= 2
             /\ \A i \in DOMAIN said : IsList(said[i].text) /\ said[i].text # <<>>
             /\ \A i, j \in DOMAIN said : said[i].id = said[j].id => i = j
    <2> DEFINE x == Said(c)
    <2>1. said = <<x>> /\ IsList(x.text) /\ x.text # <<>>
        BY <1>1, <1>3
    <2> HIDE DEF x
    <2>2. Len(said) = 1 /\ DOMAIN said = {1} /\ said[1] = x
        BY <2>1
    <2>3. IsList(said)
        BY <2>1, Short
    <2> QED BY <2>1, <2>2, <2>3
<1>4. ASSUME NEW c \in Calls, NEW d \in Calls, c.id # d.id, said = <<Said(c), Said(d)>>
      PROVE  /\ IsList(said) /\ Len(said) <= 2
             /\ \A i \in DOMAIN said : IsList(said[i].text) /\ said[i].text # <<>>
             /\ \A i, j \in DOMAIN said : said[i].id = said[j].id => i = j
    <2> DEFINE x == Said(c)
               y == Said(d)
    <2>1. /\ said = <<x, y>> /\ x.id # y.id
          /\ IsList(x.text) /\ x.text # <<>> /\ IsList(y.text) /\ y.text # <<>>
        BY <1>1, <1>4
    <2> HIDE DEF x, y
    <2>2. Len(said) = 2 /\ DOMAIN said = {1, 2} /\ said[1] = x /\ said[2] = y
        BY <2>1
    <2>3. IsList(said)
        BY <2>1, Short
    <2> QED BY <2>1, <2>2, <2>3
<1>5. \/ said = <<>>
      \/ \E c \in Calls : said = <<Said(c)>>
      \/ \E c \in Calls, d \in Calls : c.id # d.id /\ said = <<Said(c), Said(d)>>
    BY DEF Answers
<1> QED BY <1>2, <1>3, <1>4, <1>5

\* What is told of an answer: its text, its calls as they were meant, and their results.
Words(text) == IF text THEN <<[role |-> "assistant", part |-> "text"]>> ELSE <<>>

Meant(said) ==
    [i \in DOMAIN said |->
        [id |-> said[i].id, name |-> said[i].name,
         arguments |-> IF said[i].name \in Custom THEN <<"input">> \o Meaning(said[i].text)
                       ELSE said[i].text]]

Replies(said, outputs) ==
    [i \in DOMAIN said |-> [id |-> said[i].id, name |-> said[i].name,
                            output |-> messageText(outputs[i])]]

Text(text) == IF text THEN <<"text">> ELSE <<>>

\* The content of an answer is text, or nothing.
LEMMA TextIsText ==
    ASSUME NEW text PROVE IsList(Text(text)) /\ ToSet(Text(text)) \subseteq {"text"}
<1>1. DOMAIN <<>> = {} /\ DOMAIN <<"text">> = {1} /\ <<"text">>[1] = "text"
    OBVIOUS
<1>2. ToSet(<<>>) = {} /\ ToSet(<<"text">>) = {"text"}
    BY <1>1 DEF ToSet
<1>3. IsList(<<>>) /\ IsList(<<"text">>)
    BY Short
<1> QED BY <1>2, <1>3 DEF Text

\* All of an answer's parts are lists of one length.
LEMMA AnswerLists ==
    ASSUME NEW said \in Answers, NEW outputs \in [DOMAIN said -> Outputs]
    PROVE  /\ IsList(Meant(said)) /\ Len(Meant(said)) = Len(said)
           /\ IsList(Replies(said, outputs)) /\ Len(Replies(said, outputs)) = Len(said)
           /\ DOMAIN Meant(said) = DOMAIN said
           /\ \A i \in DOMAIN said : /\ Meant(said)[i].id = said[i].id
                                     /\ Meant(said)[i].name = said[i].name
           /\ \A i, j \in DOMAIN said : Meant(said)[i].id = Meant(said)[j].id => i = j
<1>1. IsList(said) /\ DOMAIN said = 1 .. Len(said) /\ Len(said) \in Nat
    BY AnswersShape, ListShape
<1>2. IsList(Meant(said)) /\ Len(Meant(said)) = Len(said)
    <2> DEFINE t == Meant(said)
    <2>1. Indexed(t, Len(said))
        BY <1>1 DEF Meant, Indexed
    <2> HIDE DEF t
    <2> QED BY <1>1, <2>1, FunctionIsList DEF t
<1>3. IsList(Replies(said, outputs)) /\ Len(Replies(said, outputs)) = Len(said)
    <2> DEFINE t == Replies(said, outputs)
    <2>1. Indexed(t, Len(said))
        BY <1>1 DEF Replies, Indexed
    <2> HIDE DEF t
    <2> QED BY <1>1, <2>1, FunctionIsList DEF t
<1>4. \A i \in DOMAIN said : Meant(said)[i].id = said[i].id /\ Meant(said)[i].name = said[i].name
    BY DEF Meant
<1>5. \A i, j \in DOMAIN said : said[i].id = said[j].id => i = j
    BY AnswersShape
<1> QED BY <1>2, <1>3, <1>4, <1>5 DEF Meant

\* What is said to the model in words alone: instructions of the system and results.
TextOnly ==
    /\ \A message \in Messages : BySystem(message) => ToSet(message.content) \subseteq {"text"}
    /\ \A output \in Outputs : ToSet(output) \subseteq {"text"}

\* Where results are text, what is told of an answer is what was said.
LEMMA ToldAsSpoken ==
    ASSUME NEW text, NEW said, NEW outputs \in [DOMAIN said -> Outputs], TextOnly
    PROVE  Words(text) \o Meant(said) \o Replies(said, outputs) = SpokenAnswer(text, said, outputs)
<1>1. \A i \in DOMAIN said : messageText(outputs[i]) = outputs[i]
    <2>1. \A i \in DOMAIN said : IsList(outputs[i]) /\ ToSet(outputs[i]) \subseteq {"text"}
        BY ConversationAssumption DEF ConversationAssumption, TextOnly
    <2> QED BY <2>1, TextOfContent
<1>2. Replies(said, outputs) =
          [i \in DOMAIN said |-> [id |-> said[i].id, name |-> said[i].name, output |-> outputs[i]]]
    BY <1>1 DEF Replies
<1> QED BY <1>2 DEF SpokenAnswer, Words, Meant

\* An answer to a chat client: a message with the calls, and a message for each result.
LEMMA ChatAnswerAdded ==
    ASSUME format = "openai", IsToolList(tools), Readable(history), NEW text \in BOOLEAN,
           NEW said \in Answers, NEW outputs \in [DOMAIN said -> Outputs],
           \A i \in DOMAIN said : Valid(Arguments(said[i], Custom))
    PROVE  LET got == [i \in DOMAIN said |-> Delivered(said[i])]
           IN Adds(history, history \o Kept(text, got, outputs),
                   Words(text) \o Meant(said) \o Replies(said, outputs))
<1> DEFINE got == [i \in DOMAIN said |-> Delivered(said[i])]
           x == [role |-> "assistant", content |-> Text(text), calls |-> got, id |-> ""]
           xs == [i \in DOMAIN said |-> [role |-> "tool", content |-> outputs[i],
                                         calls |-> <<>>, id |-> got[i].id]]
           next == Append(history, x)
           meant == Meant(said)
           results == Replies(said, outputs)
<1>1. IsList(said) /\ Len(said) <= 2 /\ DOMAIN said = 1 .. Len(said) /\ Len(said) \in Nat
    BY AnswersShape, ListShape
<1>2. /\ IsList(meant) /\ Len(meant) = Len(said) /\ IsList(results) /\ Len(results) = Len(said)
      /\ DOMAIN meant = DOMAIN said
      /\ \A i \in DOMAIN said : meant[i].id = said[i].id /\ meant[i].name = said[i].name
      /\ \A i, j \in DOMAIN said : meant[i].id = meant[j].id => i = j
    BY AnswerLists
<1>3. got = meant /\ \A i \in DOMAIN meant : Valid(meant[i].arguments)
    <2>1. Custom = {}
        BY DEF Custom
    <2>2. \A call : Arguments(call, Custom) = call.text
        BY <2>1 DEF Arguments
    <2>3. got = [i \in DOMAIN said |-> [id |-> said[i].id, name |-> said[i].name,
                                        arguments |-> said[i].text]]
        BY <2>2 DEF Delivered
    <2>4. meant = [i \in DOMAIN said |-> [id |-> said[i].id, name |-> said[i].name,
                                          arguments |-> said[i].text]]
        BY <2>1 DEF Meant
    <2>5. \A i \in DOMAIN said : meant[i].arguments = said[i].text /\ Valid(said[i].text)
        BY <2>2, <2>4
    <2> QED BY <1>2, <2>3, <2>4, <2>5
<1>4. IsList(xs) /\ Len(xs) = Len(said) /\ DOMAIN xs = DOMAIN said
    <2>1. Indexed(xs, Len(said))
        BY <1>1 DEF Indexed
    <2> HIDE DEF xs
    <2> QED BY <1>1, <2>1, FunctionIsList, ListShape
<1>5. Kept(text, got, outputs) = <<x>> \o xs
    <2>1. DOMAIN got = DOMAIN said
        OBVIOUS
    <2> HIDE DEF got
    <2> QED BY <2>1 DEF Kept, Text
<1>6. Parts(x) = Words(text) /\ IsSpeech(x) /\ x.calls = meant
    <2>1. x.role = "assistant" /\ x.content = Text(text) /\ x.calls = meant
        BY <1>3
    <2> HIDE DEF x
    <2>2. IsList(Text(text)) /\ ToSet(Text(text)) \subseteq {"text"}
        BY TextIsText
    <2>3. Parts(x) = Words(text)
        <3>1. CASE text
            <4>1. DOMAIN <<"text">> = {1} /\ x.content = <<"text">> /\ <<"text">>[1] = "text"
                BY <2>1, <3>1 DEF Text
            <4>2. Parts(x) = [j \in {1} |-> [role |-> "assistant", part |-> "text"]]
                BY <2>1, <4>1 DEF Parts
            <4>3. <<[role |-> "assistant", part |-> "text"]>>
                      = [j \in {1} |-> [role |-> "assistant", part |-> "text"]]
                OBVIOUS
            <4> QED BY <3>1, <4>2, <4>3 DEF Words
        <3>2. CASE ~text
            BY <2>1, <2>2, <3>2, PartsList DEF Text, Words
        <3> QED BY <3>1, <3>2
    <2> QED BY <1>2, <1>3, <2>1, <2>2, <2>3 DEF IsSpeech
<1>7. /\ Adds(history, next, Words(text) \o meant)
      /\ NamesOf(next) = Named(NamesOf(history), meant)
    <2>1. AsMessage(x) = x /\ ~Additional(x)
        BY DEF AsMessage, Additional
    <2> HIDE DEF x
    <2>2. /\ Adds(history, next, Parts(x) \o x.calls)
          /\ NamesOf(next) = Named(NamesOf(history), x.calls)
        BY <1>6, <2>1, SpeechAdded
    <2> QED BY <1>6, <2>2
<1>8. \A i \in DOMAIN said : /\ said[i].id \in DOMAIN NamesOf(next)
                             /\ NamesOf(next)[said[i].id] = said[i].name
    <2> HIDE DEF meant, next
    <2>1. IsList(meant) /\ \A i, j \in DOMAIN meant : meant[i].id = meant[j].id => i = j
        BY <1>2
    <2>2. Knows(Named(NamesOf(history), meant), meant)
        BY <2>1, NamesAfter
    <2>3. Knows(NamesOf(next), meant)
        BY <1>7, <2>2
    <2> QED BY <1>2, <2>3 DEF Knows
<1>9. Adds(next, next \o xs, results)
    <2>1. Readable(next)
        BY <1>7 DEF Adds
    <2>2. \A i \in DOMAIN xs : Returns(next, xs[i], said[i]) /\ ResultOf(results[i], said[i], xs[i])
        <3>1. ASSUME NEW i \in DOMAIN said
              PROVE  /\ xs[i].role = "tool" /\ xs[i].id = said[i].id /\ xs[i].content = outputs[i]
                     /\ AsMessage(xs[i]) = xs[i] /\ ~Additional(xs[i])
            <4>1. got[i].id = said[i].id
                BY <1>2, <1>3
            <4> HIDE DEF got
            <4> QED BY <4>1 DEF AsMessage, Additional
        <3>2. \A i \in DOMAIN said :
                  results[i] = [id |-> said[i].id, name |-> said[i].name,
                                output |-> messageText(outputs[i])]
            BY DEF Replies
        <3> HIDE DEF xs, results, next
        <3> QED BY <1>4, <1>8, <3>1, <3>2 DEF Returns, ResultOf
    <2> HIDE DEF next, xs, results
    <2> QED BY <1>1, <1>2, <1>4, <2>1, <2>2, ResultsAdded
<1>10. Adds(history, next \o xs, Words(text) \o meant \o results)
    <2> HIDE DEF next, xs, results, meant
    <2> QED BY <1>7, <1>9, AddsBoth
<1>11. history \o (<<x>> \o xs) = next \o xs
    <2>1. IsList(history) /\ IsList(<<x>>)
        BY Short DEF Readable
    <2> HIDE DEF x, xs
    <2>2. history \o (<<x>> \o xs) = (history \o <<x>>) \o xs
        BY <1>4, <2>1, Associated
    <2> QED BY <2>1, <2>2, Appended DEF next
<1> HIDE DEF x, xs, next, meant, results
<1>12. Adds(history, history \o Kept(text, got, outputs), Words(text) \o meant \o results)
    <2> HIDE DEF got
    <2> QED BY <1>5, <1>10, <1>11
<1> QED BY <1>12 DEF meant, results

\* The tools a history declares can be offered.
Fit(items) ==
    IF format = "responses" THEN flattenResponseTools(ToolsAt(items)).ok
    ELSE \A i \in DOMAIN tools : tools[i].type = "function"

\* The text of an answer, as an item of its own or none.
LEMMA WordsAdded ==
    ASSUME format = "responses", IsToolList(tools), NEW items, Readable(items), NEW text \in BOOLEAN,
           NEW xs, xs = IF text THEN <<[type |-> "message", role |-> "assistant",
                                        content |-> Text(text)]>>
                        ELSE <<>>
    PROVE  IsList(xs) /\ Adds(items, items \o xs, Words(text))
<1>1. IsList(items)
    BY DEF Readable
<1>2. CASE text
    <2> DEFINE x == [type |-> "message", role |-> "assistant", content |-> Text(text)]
               m == AsMessage(x)
    <2>1. m = [role |-> "assistant", content |-> Text(text), calls |-> <<>>, id |-> ""]
        BY DEF AsMessage, MessageOf
    <2>2. ~Additional(x) /\ x.content = Text(text)
        BY DEF Additional
    <2>3. xs = <<x>>
        BY <1>2
    <2> HIDE DEF m, x
    <2>4. m.role = "assistant" /\ m.content = Text(text) /\ m.calls = <<>>
        BY <2>1
    <2>5. IsSpeech(m)
        <3>1. IsList(<<>>)
            BY Short
        <3>2. DOMAIN <<>> = {}
            OBVIOUS
        <3> QED BY <2>4, <3>1, <3>2, TextIsText DEF IsSpeech
    <2>6. Usable(x)
        BY <2>2, TextIsText DEF Usable
    <2>7. Adds(items, Append(items, x), Parts(m) \o m.calls)
        BY <2>2, <2>5, <2>6, SpeechAdded DEF m
    <2>8. Parts(m) = Words(text)
        <3>1. DOMAIN <<"text">> = {1} /\ m.content = <<"text">> /\ <<"text">>[1] = "text"
            BY <1>2, <2>4 DEF Text
        <3>2. Parts(m) = [j \in {1} |-> [role |-> "assistant", part |-> "text"]]
            BY <2>4, <3>1 DEF Parts
        <3>3. <<[role |-> "assistant", part |-> "text"]>>
                  = [j \in {1} |-> [role |-> "assistant", part |-> "text"]]
            OBVIOUS
        <3> QED BY <1>2, <3>2, <3>3 DEF Words
    <2>9. Parts(m) \o m.calls = Words(text)
        <3>1. IsList(Parts(m))
            BY <2>5, PartsList DEF IsSpeech
        <3> QED BY <2>4, <2>8, <3>1, Joined
    <2>10. items \o xs = Append(items, x) /\ IsList(xs)
        BY <1>1, <2>3, Appended, Short
    <2> QED BY <2>7, <2>9, <2>10
<1>3. CASE ~text
    <2>1. xs = <<>> /\ Words(text) = <<>>
        BY <1>3 DEF Words
    <2>2. items \o <<>> = items
        BY <1>1, Joined
    <2> QED BY <2>1, <2>2, AddsNothing, Short
<1> QED BY <1>2, <1>3

\* An answer to a Responses client: an item for its text, for each call and each result.
LEMMA ItemsAnswerAdded ==
    ASSUME format = "responses", IsToolList(tools), Readable(history), Fit(history),
           NEW text \in BOOLEAN, NEW said \in Answers, NEW outputs \in [DOMAIN said -> Outputs],
           \A i \in DOMAIN said : Valid(Arguments(said[i], Custom))
    PROVE  LET got == [i \in DOMAIN said |-> Delivered(said[i])]
           IN /\ Adds(history, history \o Kept(text, got, outputs),
                      Words(text) \o Meant(said) \o Replies(said, outputs))
              /\ \A i \in DOMAIN said : AsDeclared(InForce, said[i], got[i])
<1> DEFINE got == [i \in DOMAIN said |-> Delivered(said[i])]
           xs == [i \in DOMAIN said |-> [type |-> "output", call_id |-> got[i].call_id,
                                         output |-> outputs[i]]]
           first == IF text THEN <<[type |-> "message", role |-> "assistant",
                                    content |-> Text(text)]>>
                    ELSE <<>>
           one == history \o first
           two == one \o got
           meant == Meant(said)
           results == Replies(said, outputs)
<1>1. /\ IsList(said) /\ Len(said) <= 2 /\ DOMAIN said = 1 .. Len(said) /\ Len(said) \in Nat
      /\ \A i \in DOMAIN said : IsList(said[i].text) /\ said[i].text # <<>>
    BY AnswersShape, ListShape
<1>2. /\ IsList(meant) /\ Len(meant) = Len(said) /\ IsList(results) /\ Len(results) = Len(said)
      /\ DOMAIN meant = DOMAIN said
      /\ \A i \in DOMAIN said : meant[i].id = said[i].id /\ meant[i].name = said[i].name
      /\ \A i, j \in DOMAIN said : meant[i].id = meant[j].id => i = j
    BY AnswerLists
<1>3. IsToolList(InForce) /\ Distinct(Declared(InForce))
    <2>1. InForce = ToolsAt(history)
        BY DEF InForce, ToolsAt
    <2>2. flattenResponseTools(InForce).ok
        BY <2>1 DEF Fit
    <2> QED BY <2>1, <2>2 DEF Readable, flattenResponseTools
<1>4. ASSUME NEW i \in DOMAIN said
      PROVE  /\ got[i].type \in {"function_call", "custom_tool_call"}
             /\ got[i].call_id = said[i].id
             /\ MessageOf(got[i]) = CallMessage(meant[i])
             /\ Valid(meant[i].arguments)
             /\ AsDeclared(InForce, said[i], got[i])
    <2> DEFINE call == said[i]
               list == InForce
               item == responseToolForRequest(list, call, Arguments(call, customTools(list)))
    <2>1. Custom = customTools(InForce)
        BY DEF Custom
    <2>2. got[i] = item
        BY <2>1 DEF Delivered
    <2>3. meant[i] = AsMeant(list, call)
        BY <2>1 DEF Meant, AsMeant
    <2>4. IsList(call.text) /\ call.text # <<>> /\ Valid(Arguments(call, customTools(list)))
        BY <1>1, <2>1
    <2> HIDE DEF got, meant, call, list
    <2>5. IsToolList(list) /\ Distinct(Declared(list))
        BY <1>3 DEF list
    <2>6. /\ item.type \in {"function_call", "custom_tool_call"} /\ item.call_id = call.id
          /\ MessageOf(item) = CallMessage(AsMeant(list, call))
          /\ Valid(AsMeant(list, call).arguments)
          /\ AsDeclared(list, call, item)
        BY <2>4, <2>5, CallReturned DEF CallMessage
    <2> HIDE DEF item
    <2>7. /\ got[i].type \in {"function_call", "custom_tool_call"} /\ got[i].call_id = call.id
          /\ MessageOf(got[i]) = CallMessage(meant[i])
          /\ Valid(meant[i].arguments)
          /\ AsDeclared(list, call, got[i])
        BY <2>2, <2>3, <2>6
    <2> QED BY <2>7 DEF call, list
<1>5. IsList(got) /\ Len(got) = Len(said) /\ DOMAIN got = DOMAIN said
    <2>1. Indexed(got, Len(said))
        BY <1>1 DEF Indexed
    <2> HIDE DEF got
    <2> QED BY <1>1, <2>1, FunctionIsList, ListShape
<1>6. IsList(xs) /\ Len(xs) = Len(said) /\ DOMAIN xs = DOMAIN said
    <2>1. Indexed(xs, Len(said))
        BY <1>1 DEF Indexed
    <2> HIDE DEF xs
    <2> QED BY <1>1, <2>1, FunctionIsList, ListShape
<1>7. Kept(text, got, outputs) = first \o got \o xs
    <2> HIDE DEF got
    <2> QED BY <1>5 DEF Kept, Text
<1>8. IsList(first) /\ Adds(history, one, Words(text))
    BY WordsAdded
<1>9. \A i \in DOMAIN said :
          /\ xs[i].type = "output" /\ xs[i].call_id = said[i].id /\ xs[i].output = outputs[i]
          /\ results[i] = [id |-> said[i].id, name |-> said[i].name,
                           output |-> messageText(outputs[i])]
    <2>1. \A i \in DOMAIN said : got[i].call_id = said[i].id
        BY <1>4
    <2> HIDE DEF got
    <2> QED BY <2>1 DEF Replies
<1> HIDE DEF got, xs, first, meant, results
<1>10. /\ Adds(one, two, meant)
       /\ \A i \in DOMAIN said : /\ said[i].id \in DOMAIN NamesOf(two)
                                 /\ NamesOf(two)[said[i].id] = said[i].name
    <2>1. Readable(one)
        BY <1>8 DEF Adds
    <2> HIDE DEF one
    <2>2. \A i \in DOMAIN got : SaysCall(got[i], meant[i])
        BY <1>4, <1>5 DEF SaysCall, Additional, Usable, AsMessage
    <2>3. \A i, j \in DOMAIN meant : meant[i].id = meant[j].id => i = j
        BY <1>2
    <2>4. IsList(got) /\ Len(got) <= 2 /\ IsList(meant) /\ Len(meant) = Len(got)
        BY <1>1, <1>2, <1>5
    <2>5. Adds(one, one \o got, meant) /\ Knows(NamesOf(one \o got), meant)
        BY <2>1, <2>2, <2>3, <2>4, CallsAdded
    <2> QED BY <1>2, <2>5 DEF Knows
<1>11. Adds(two, two \o xs, results)
    <2>1. Readable(two)
        BY <1>10 DEF Adds
    <2> HIDE DEF two
    <2>2. ASSUME NEW i \in DOMAIN xs
          PROVE  Returns(two, xs[i], said[i]) /\ ResultOf(results[i], said[i], xs[i])
        <3> DEFINE x == xs[i]
        <3>1. x.type = "output" /\ x.call_id = said[i].id /\ x.output = outputs[i]
            BY <1>6, <1>9
        <3> HIDE DEF x
        <3>2. AsMessage(x) = [role |-> "tool", content |-> outputs[i], calls |-> <<>>,
                              id |-> said[i].id]
            BY <3>1 DEF AsMessage, MessageOf
        <3>3. ~Additional(x) /\ Usable(x)
            BY <3>1 DEF Additional, Usable
        <3>4. Returns(two, x, said[i])
            BY <1>6, <1>10, <3>2, <3>3 DEF Returns
        <3>5. ResultOf(results[i], said[i], x)
            BY <1>6, <1>9, <3>2 DEF ResultOf
        <3> QED BY <3>4, <3>5 DEF x
    <2> QED BY <1>1, <1>2, <1>6, <2>1, <2>2, ResultsAdded
<1>12. Adds(history, two \o xs, Words(text) \o meant \o results)
    <2>1. Readable(one) /\ Readable(two)
        BY <1>8, <1>10 DEF Adds
    <2> HIDE DEF one, two
    <2>2. Adds(history, two, Words(text) \o meant)
        BY <1>8, <1>10, AddsBoth
    <2> QED BY <1>11, <2>2, AddsBoth
<1>13. history \o (first \o got \o xs) = two \o xs
    <2>1. IsList(history) /\ IsList(first) /\ IsList(got) /\ IsList(xs)
        BY <1>5, <1>6, <1>8 DEF Readable
    <2>2. IsList(first \o got)
        BY <2>1, Joined
    <2>3. history \o ((first \o got) \o xs) = (history \o (first \o got)) \o xs
        BY <2>1, <2>2, Associated
    <2>4. history \o (first \o got) = (history \o first) \o got
        BY <2>1, Associated
    <2> QED BY <2>3, <2>4
<1> HIDE DEF one, two
<1>14. Adds(history, history \o Kept(text, got, outputs), Words(text) \o meant \o results)
    BY <1>7, <1>12, <1>13
<1> QED BY <1>4, <1>14 DEF meant, results, got
-----------------------------------------------------------------------------
(* The text of what is said. *)

\* A fact as it is told: of a result, the text.
InWords(fact) ==
    IF "output" \in DOMAIN fact THEN [fact EXCEPT !.output = messageText(@)] ELSE fact

InText(facts) == [i \in DOMAIN facts |-> InWords(facts[i])]

\* Facts are put in words one by one.
LEMMA InTextList ==
    ASSUME NEW s, IsList(s)
    PROVE  /\ IsList(InText(s)) /\ Len(InText(s)) = Len(s)
           /\ \A i \in 1 .. Len(s) : InText(s)[i] = InWords(s[i])
<1>1. Len(s) \in Nat /\ DOMAIN s = 1 .. Len(s)
    BY ListShape
<1>2. Indexed(InText(s), Len(s)) /\ \A i \in 1 .. Len(s) : InText(s)[i] = InWords(s[i])
    BY <1>1 DEF InText, Indexed
<1> DEFINE t == InText(s)
<1> HIDE DEF t
<1>3. Indexed(t, Len(s)) => IsList(t) /\ Len(t) = Len(s)
    BY <1>1, FunctionIsList
<1> QED BY <1>2, <1>3 DEF t

\* Facts after one another are put in words after one another.
LEMMA InTextJoined ==
    ASSUME NEW s, NEW t, IsList(s), IsList(t) PROVE InText(s \o t) = InText(s) \o InText(t)
<1> DEFINE a == InText(s)
           b == InText(t)
           u == s \o t
           c == InText(u)
<1>1. /\ Len(s) \in Nat /\ Len(t) \in Nat
      /\ IsList(u) /\ Len(u) = Len(s) + Len(t)
      /\ \A i \in 1 .. Len(s) : u[i] = s[i]
      /\ \A i \in 1 .. Len(t) : u[Len(s) + i] = t[i]
    <2>1. Len(s) \in Nat /\ Len(t) \in Nat
        BY ListShape
    <2>2. /\ IsList(u) /\ Len(u) = Len(s) + Len(t)
          /\ \A i \in 1 .. Len(s) : u[i] = s[i]
          /\ \A i \in 1 .. Len(t) : u[Len(s) + i] = t[i]
        BY Joined
    <2> QED BY <2>1, <2>2
<1>2. /\ IsList(a) /\ Len(a) = Len(s) /\ \A i \in 1 .. Len(s) : a[i] = InWords(s[i])
      /\ IsList(b) /\ Len(b) = Len(t) /\ \A i \in 1 .. Len(t) : b[i] = InWords(t[i])
    BY InTextList
<1>3. IsList(c) /\ Len(c) = Len(u) /\ \A i \in 1 .. Len(u) : c[i] = InWords(u[i])
    <2> HIDE DEF u
    <2> QED BY <1>1, InTextList
<1> HIDE DEF a, b, c, u
<1>4. /\ IsList(a \o b) /\ Len(a \o b) = Len(s) + Len(t)
      /\ \A i \in 1 .. Len(s) : (a \o b)[i] = a[i]
      /\ \A i \in 1 .. Len(t) : (a \o b)[Len(s) + i] = b[i]
    BY <1>2, Joined
<1>5. ASSUME NEW i \in 1 .. Len(c) PROVE c[i] = (a \o b)[i]
    <2>1. CASE i <= Len(s)
        <3>1. i \in 1 .. Len(s) /\ i \in 1 .. Len(u)
            BY <1>1, <1>3, <2>1
        <3> QED BY <1>1, <1>2, <1>3, <1>4, <3>1
    <2>2. CASE ~(i <= Len(s))
        <3>1. i - Len(s) \in 1 .. Len(t) /\ Len(s) + (i - Len(s)) = i /\ i \in 1 .. Len(u)
            BY <1>1, <1>3, <2>2
        <3>2. u[i] = t[i - Len(s)] /\ (a \o b)[i] = b[i - Len(s)]
            BY <1>1, <1>4, <3>1
        <3> QED BY <1>2, <1>3, <3>1, <3>2
    <2> QED BY <2>1, <2>2
<1>6. c = a \o b
    BY <1>1, <1>3, <1>4, <1>5, SameList
<1> QED BY <1>6 DEF a, b, c, u

\* Nothing has no text.
LEMMA NoText == messageText(<<>>) = <<>>
<1>1. ToSet(<<>>) = {}
    BY DEF ToSet
<1>2. IsList(<<>>)
    BY Short
<1> QED BY <1>1, <1>2, TextOfContent

\* The text of two contents is that of the one, then that of the other.
LEMMA TextJoined ==
    ASSUME NEW s, NEW t, IsList(s), IsList(t)
    PROVE  messageText(s \o t) = messageText(s) \o messageText(t)
<1> DEFINE n == Len(s)
           u == s \o t
           S == {j \in DOMAIN s : s[j] = "text"}
           T == {j \in DOMAIN t : t[j] = "text"}
           U == {j \in DOMAIN u : u[j] = "text"}
           V == {n + j : j \in T}
           k == Cardinality(S)
           m == Cardinality(T)
<1>1. /\ n \in Nat /\ Len(t) \in Nat /\ DOMAIN s = 1 .. n /\ DOMAIN t = 1 .. Len(t)
      /\ IsList(u) /\ DOMAIN u = 1 .. n + Len(t)
      /\ \A i \in 1 .. n : u[i] = s[i]
      /\ \A i \in 1 .. Len(t) : u[n + i] = t[i]
    <2>1. Len(s) \in Nat /\ Len(t) \in Nat /\ DOMAIN s = 1 .. Len(s) /\ DOMAIN t = 1 .. Len(t)
        BY ListShape
    <2>2. /\ IsList(u) /\ Len(u) = n + Len(t)
          /\ \A i \in 1 .. n : u[i] = s[i]
          /\ \A i \in 1 .. Len(t) : u[n + i] = t[i]
        BY Joined
    <2> HIDE DEF u
    <2> QED BY <2>1, <2>2, ListShape
<1> HIDE DEF n, u
<1>2. U = S \cup V /\ S \cap V = {}
    <2>1. ASSUME NEW i \in U PROVE i \in S \cup V
        <3>1. CASE i \in 1 .. n
            BY <1>1, <3>1
        <3>2. CASE i \notin 1 .. n
            <4>1. i - n \in 1 .. Len(t) /\ n + (i - n) = i
                BY <1>1, <3>2
            <4>2. i - n \in T
                BY <1>1, <4>1
            <4> QED BY <4>1, <4>2
        <3> QED BY <3>1, <3>2
    <2>2. ASSUME NEW i \in S \cup V PROVE i \in U
        BY <1>1
    <2>3. S \cap V = {}
        BY <1>1
    <2> HIDE DEF S, U, V
    <2> QED BY <2>1, <2>2, <2>3
<1>3. IsFiniteSet(S) /\ IsFiniteSet(T) /\ k \in Nat /\ m \in Nat
    <2>1. IsFiniteSet(1 .. n) /\ IsFiniteSet(1 .. Len(t))
        <3>1. 1 \in Int /\ n \in Int /\ Len(t) \in Int
            BY <1>1
        <3> QED BY <3>1, FS_Interval
    <2>2. S \subseteq 1 .. n /\ T \subseteq 1 .. Len(t)
        BY <1>1
    <2> HIDE DEF S, T
    <2> QED BY <2>1, <2>2, FS_Subset, FS_CardinalityType
<1>4. IsFiniteSet(V) /\ Cardinality(V) = m
    <2> DEFINE f == [j \in T |-> n + j]
    <2>1. \A i, j \in T : n + i = n + j => i = j
        BY <1>1
    <2> HIDE DEF T
    <2>2. /\ f \in [T -> V] /\ (\A x \in V : \E j \in T : f[j] = x)
          /\ \A i, j \in T : f[i] = f[j] => i = j
        BY <2>1
    <2> HIDE DEF f, V, m
    <2>3. f \in Surjection(T, V)
        BY <2>2 DEF Surjection
    <2>4. f \in Injection(T, V)
        BY <2>2 DEF Injection, IsInjective
    <2> QED BY <1>3, <2>3, <2>4, FS_Surjection DEF m
<1>5. Cardinality(U) = k + m
    <2> HIDE DEF S, U, V
    <2>1. Cardinality(S \cup V) = Cardinality(S) + Cardinality(V) - Cardinality(S \cap V)
        BY <1>3, <1>4, FS_Union
    <2>2. Cardinality({}) = 0
        BY FS_EmptySet
    <2>3. k + m - 0 = k + m /\ Cardinality(S) = k
        BY <1>3
    <2> HIDE DEF k, m
    <2> QED BY <1>2, <1>4, <2>1, <2>2, <2>3
<1>6. /\ messageText(s) = [i \in 1 .. k |-> "text"]
      /\ messageText(t) = [i \in 1 .. m |-> "text"]
      /\ messageText(u) = [i \in 1 .. Cardinality(U) |-> "text"]
    BY DEF messageText
<1> DEFINE a == messageText(s)
           b == messageText(t)
           c == messageText(u)
<1> HIDE DEF S, T, U, V, k, m
<1>7. /\ Indexed(a, k) /\ Indexed(b, m) /\ Indexed(c, k + m)
      /\ (\A i \in 1 .. k : a[i] = "text") /\ (\A i \in 1 .. m : b[i] = "text")
      /\ \A i \in 1 .. k + m : c[i] = "text"
    BY <1>5, <1>6 DEF Indexed
<1> HIDE DEF a, b, c
<1>8. k + m \in Nat
    BY <1>3
<1>9. IsList(a) /\ Len(a) = k /\ IsList(b) /\ Len(b) = m /\ IsList(c) /\ Len(c) = k + m
    BY <1>3, <1>7, <1>8, FunctionIsList
<1>10. /\ IsList(a \o b) /\ Len(a \o b) = k + m
       /\ \A i \in 1 .. k : (a \o b)[i] = a[i]
       /\ \A i \in 1 .. m : (a \o b)[k + i] = b[i]
    BY <1>9, Joined
<1>11. ASSUME NEW i \in 1 .. k + m PROVE (a \o b)[i] = "text"
    <2>1. CASE i <= k
        BY <1>3, <1>7, <1>10, <2>1
    <2>2. CASE ~(i <= k)
        <3>1. i - k \in 1 .. m /\ k + (i - k) = i
            BY <1>3, <2>2
        <3> QED BY <1>7, <1>10, <3>1
    <2> QED BY <2>1, <2>2
<1>12. c = a \o b
    BY <1>7, <1>9, <1>10, <1>11, SameList
<1> QED BY <1>12 DEF a, b, c, u

-----------------------------------------------------------------------------
(* A request. *)

Typed ==
    /\ format \in {"openai", "responses"} /\ IsToolList(tools)
    /\ pc \in {"client", "upstream", "refused"} /\ asks \in Nat
    /\ IsList(told) /\ IsList(spoken)

AllUsable(items) == format = "responses" => \A i \in DOMAIN items : Usable(items[i])

\* What a request is made of, and when it is accepted.
LEMMA RequestParts ==
    ASSUME format \in {"openai", "responses"}, NEW items
    PROVE  /\ Request(items).sent = Conversion(items).sent
           /\ Request(items).system = Conversion(items).system
           /\ Request(items).ok => /\ Conversion(items).ok /\ Conversion(items).sent # <<>>
                                   /\ Fit(items) /\ AllUsable(items)
           /\ /\ Conversion(items).ok /\ Conversion(items).sent # <<>>
              /\ Fit(items) /\ AllUsable(items)
              => Request(items).ok
           /\ format = "responses" /\ choice # "none" =>
                  Request(items).tools = [i \in DOMAIN Declared(ToolsAt(items)) |->
                                            AliasOf(Declared(ToolsAt(items))[i])]
<1>1. CASE format = "openai"
    <2>1. Request(items) = UpstreamRequest(items, tools, choice) /\ Conversion(items) = Converted(items)
        BY <1>1 DEF Request, Conversion
    <2> QED BY <1>1, <2>1 DEF UpstreamRequest, Fit, AllUsable
<1>2. CASE format = "responses"
    <2> DEFINE flat == flattenResponseTools(ToolsAt(items))
               declared == Declared(ToolsAt(items))
               request1 == UpstreamRequest(InputMessages(items), flat.tools, choice)
               ok == request1.ok /\ flat.ok /\ \A i \in DOMAIN items : Usable(items[i])
    <2>1. Request(items) = [request1 EXCEPT !.ok = ok]
        BY <1>2 DEF Request, ResponsesRequest, ToolsAt
    <2>2. flat.tools = [i \in DOMAIN declared |-> [type |-> "function", name |-> AliasOf(declared[i])]]
        BY DEF flattenResponseTools
    <2> HIDE DEF flat, declared
    <2>3. /\ DOMAIN flat.tools = DOMAIN declared
          /\ \A i \in DOMAIN flat.tools : /\ flat.tools[i].type = "function"
                                          /\ flat.tools[i].name = AliasOf(declared[i])
        BY <2>2
    <2>4. Conversion(items) = Converted(InputMessages(items))
        BY <1>2 DEF Conversion
    <2>5. request1 = [ok     |-> Conversion(items).ok /\ Conversion(items).sent # <<>>
                                 /\ \A i \in DOMAIN flat.tools : flat.tools[i].type = "function",
                      sent   |-> Conversion(items).sent,
                      system |-> Conversion(items).system,
                      tools  |-> IF choice = "none" THEN <<>>
                                 ELSE [i \in DOMAIN flat.tools |-> flat.tools[i].name]]
        BY <2>4 DEF UpstreamRequest
    <2>6. [i \in DOMAIN flat.tools |-> flat.tools[i].name]
              = [i \in DOMAIN declared |-> AliasOf(declared[i])]
        BY <2>3
    <2> HIDE DEF request1
    <2>7. /\ Request(items).sent = Conversion(items).sent
          /\ Request(items).system = Conversion(items).system
          /\ Request(items).ok = ok
          /\ Request(items).tools = request1.tools
        <3> HIDE DEF ok
        <3> QED BY <2>1, <2>5
    <2>8. choice # "none" => Request(items).tools = [i \in DOMAIN declared |-> AliasOf(declared[i])]
        BY <2>5, <2>6, <2>7
    <2>9. request1.ok => Conversion(items).ok /\ Conversion(items).sent # <<>>
        BY <2>5
    <2>10. Conversion(items).ok /\ Conversion(items).sent # <<>> => request1.ok
        BY <2>3, <2>5
    <2>11. Fit(items) <=> flat.ok
        BY <1>2 DEF Fit, flat
    <2> QED BY <1>2, <2>7, <2>8, <2>9, <2>10, <2>11 DEF AllUsable, declared
<1> QED BY <1>1, <1>2

\* A message of the client is converted, whole but for what is not text in the words of the
\* system, if it has text and images only or if the request that it ends is accepted.
LEMMA MessageAdded ==
    ASSUME Typed, Readable(history), NEW message \in Messages, NEW next,
           next = Append(history, Written(message)),
           ToSet(message.content) \subseteq {"text", "image"} \/ Request(next).ok
    PROVE  /\ Readable(next) /\ ToolsAt(next) = ToolsAt(history)
           /\ Conversion(history).sent # <<>> => Conversion(next).sent # <<>>
           /\ Heard(Conversion(next).sent) = Heard(Conversion(history).sent) \o Spoken(message)
           /\ FlattenSeq(Conversion(next).system)
                  = FlattenSeq(Conversion(history).system) \o messageText(Told(message))
<1> DEFINE x == Written(message)
           m == AsMessage(x)
           acc == Conversion(history)
<1>1. /\ m.role = message.role /\ m.content = message.content /\ m.calls = <<>>
      /\ ~Additional(x)
    <2>1. m = [role |-> message.role, content |-> message.content, calls |-> <<>>, id |-> ""]
        BY DEF AsMessage, Written, MessageOf
    <2>2. ~Additional(x)
        BY DEF Additional, Written
    <2> HIDE DEF m, x
    <2> QED BY <2>1, <2>2
<1>2. /\ message.role \in {"user", "assistant", "system", "developer"} /\ IsList(message.content)
    BY ConversationAssumption DEF ConversationAssumption
<1>3. IsList(history) /\ Sound(acc) /\ IsToolList(tools) /\ format \in {"openai", "responses"}
    BY DEF Readable, Typed
<1>4. format = "responses" => Usable(x)
    <2>1. CASE ToSet(message.content) \subseteq {"text", "image"}
        BY <2>1 DEF Usable, Written
    <2>2. CASE Request(next).ok
        <3>1. AllUsable(next)
            BY <1>3, <2>2, RequestParts
        <3>2. Len(history) + 1 \in DOMAIN next /\ next[Len(history) + 1] = x
            <4> HIDE DEF x
            <4>1. Len(history) \in Nat
                BY <1>3, ListShape
            <4> QED BY <1>3, <4>1, Appended DEF x
        <3> QED BY <3>1, <3>2 DEF AllUsable
    <2> QED BY <2>1, <2>2
<1>5. Conversion(next) = Convert(acc, m)
    BY <1>1, <1>3, ConversionGrows
<1> HIDE DEF x, m
<1>6. next = Append(history, x)
    BY DEF x
<1>7. CASE BySystem(message)
    <2>1. IsInstruction(m)
        BY <1>1, <1>2, <1>7 DEF IsInstruction, BySystem
    <2>2. /\ Readable(next) /\ ToolsAt(next) = ToolsAt(history)
          /\ Conversion(next).sent = acc.sent
          /\ FlattenSeq(Conversion(next).system) = FlattenSeq(acc.system) \o messageText(m.content)
        BY <1>1, <1>3, <1>4, <1>6, <2>1, SystemAdded DEF m
    <2>3. Heard(acc.sent) \o Spoken(message) = Heard(acc.sent)
        BY <1>3, <1>7, HeardList, Joined DEF Spoken
    <2>4. m.content = Told(message)
        BY <1>1, <1>7 DEF Told
    <2> QED BY <2>2, <2>3, <2>4
<1>8. CASE ~BySystem(message)
    <2>1. ToSet(message.content) \subseteq {"text", "image"}
        <3>1. SUFFICES ASSUME ~(ToSet(message.content) \subseteq {"text", "image"}) PROVE FALSE
            OBVIOUS
        <3>2. Conversion(next).ok
            BY <1>3, <3>1, RequestParts
        <3>3. m.role \notin {"system", "developer", "tool"} /\ acc.ok
            BY <1>1, <1>2, <1>3, <1>8 DEF BySystem, Sound
        <3>4. Conversion(next) = [acc EXCEPT !.ok = FALSE]
            BY <1>1, <1>5, <3>1, <3>3 DEF Convert, ConvertSpeech, chatContentParts, Refused
        <3>5. [acc EXCEPT !.ok = FALSE].ok = FALSE
            <4>1. \E s, t, n : acc = [ok |-> TRUE, sent |-> s, system |-> t, names |-> n]
                BY <1>3 DEF Sound
            <4>2. PICK s, t, n : acc = [ok |-> TRUE, sent |-> s, system |-> t, names |-> n]
                BY <4>1
            <4> HIDE DEF acc
            <4> QED BY <4>2
        <3> QED BY <3>2, <3>4, <3>5
    <2>2. IsSpeech(m)
        <3>1. IsList(<<>>)
            BY Short
        <3>2. DOMAIN <<>> = {}
            OBVIOUS
        <3> QED BY <1>1, <1>2, <1>8, <2>1, <3>1, <3>2 DEF IsSpeech, BySystem
    <2>3. Adds(history, next, Parts(m) \o m.calls)
        BY <1>1, <1>3, <1>4, <1>6, <2>2, SpeechAdded DEF m
    <2>4. Parts(m) = Spoken(message)
        BY <1>1, <1>8 DEF Parts, Spoken
    <2>5. Parts(m) \o m.calls = Spoken(message)
        BY <1>1, <2>2, <2>4, PartsList, Joined DEF IsSpeech
    <2>6. FlattenSeq(acc.system) \o messageText(Told(message)) = FlattenSeq(acc.system)
        <3>1. IsList(FlattenSeq(acc.system))
            BY <1>3, FlattenList DEF Sound
        <3>2. messageText(Told(message)) = <<>>
            BY <1>8, NoText DEF Told
        <3> QED BY <3>1, <3>2, Joined
    <2> QED BY <2>3, <2>5, <2>6 DEF Adds
<1> QED BY <1>7, <1>8
-----------------------------------------------------------------------------
(* The inductive invariant. *)

\* What is true of a history that can be sent again.
Going ==
    /\ Readable(history)
    /\ IsList(news) /\ \A i \in DOMAIN news : "tools" \in DOMAIN news[i]
    /\ asks > 0 => Conversion(history).sent # <<>>
    /\ asks > 0 /\ news = <<>> => Fit(history)
    /\ Heard(Conversion(history).sent) = InText(spoken)
    /\ FlattenSeq(Conversion(history).system) = messageText(told)

\* Where only text can be told, it is all that was said.
Worded == TextOnly => InText(spoken) = spoken /\ messageText(told) = told

Delivery ==
    format = "responses" =>
        \A i \in DOMAIN answered : AsDeclared(InForce, answered[i].said, answered[i].got)

IInv ==
    /\ Typed /\ Worded
    /\ pc # "refused" => Going
    /\ pc = "upstream" => /\ asks > 0 /\ news = <<>>
                          /\ request = Request(history) /\ request.ok
    /\ Delivery
    /\ OwnHistoryAccepted

\* A step that changes neither format nor tools reads the new history as the old one.
LEMMA SameReading ==
    ASSUME UNCHANGED <<format, tools, choice>>
    PROVE  /\ Conversion(history)' = Conversion(history')
           /\ ToolsAt(history)' = ToolsAt(history')
           /\ InForce' = ToolsAt(history')
           /\ Fit(history)' <=> Fit(history')
           /\ Readable(history)' <=> Readable(history')
           /\ Request(history)' = Request(history')
<1>1. Conversion(history)' = Conversion(history')
    BY DEF Conversion
<1>2. ToolsAt(history)' = ToolsAt(history') /\ InForce' = ToolsAt(history')
    BY DEF ToolsAt, InForce
<1>3. Fit(history)' <=> Fit(history')
    BY <1>2 DEF Fit
<1>4. Readable(history)' <=> Readable(history')
    BY <1>1, <1>2 DEF Readable, Additional
<1>5. Request(history)' = Request(history')
    BY DEF Request
<1> QED BY <1>1, <1>2, <1>3, <1>4, <1>5

\* What is flattened of no list, and of one.
LEMMA FlattenNone == ASSUME NEW t, Indexed(t, 0) PROVE FlattenSeq(t) = <<>>
<1>1. IsList(t) /\ Len(t) = 0
    BY FunctionIsList
<1>2. t = <<>>
    BY <1>1, Short, JoinNone
<1> QED BY <1>2 DEF FlattenSeq

\* One list flattened is that list.
LEMMA FlattenOne == ASSUME NEW t, Indexed(t, 1), IsList(t[1]) PROVE FlattenSeq(t) = t[1]
<1> DEFINE x == t[1]
           none == <<>>
<1>1. IsList(t) /\ Len(t) = 1 /\ IsList(none) /\ IsList(x)
    BY FunctionIsList, Short
<1>2. t = <<x>>
    BY <1>1, JoinOne
<1>3. <<x>> = Append(none, x)
    BY Short
<1>4. FlattenSeq(none) = none
    BY DEF FlattenSeq
<1> HIDE DEF x, none
<1>5. FlattenSeq(Append(none, x)) = FlattenSeq(none) \o x
    BY <1>1, FlattenGrows
<1>6. none \o x = x
    BY <1>1, Joined DEF none
<1> QED BY <1>2, <1>3, <1>4, <1>5, <1>6 DEF x

\* A conversation begins with nothing said and nothing sent.
LEMMA InitIInv == Init => IInv
<1> SUFFICES ASSUME Init PROVE IInv
    OBVIOUS
<1>1. IsList(<<>>)
    BY Short
<1>2. PICK list \in ToolLists : format = list.format /\ tools = list.tools
    BY DEF Init
<1>3. format \in {"openai", "responses"} /\ IsToolList(tools)
    BY <1>2, ConversationAssumption DEF ConversationAssumption
<1>4. Typed
    BY <1>1, <1>3 DEF Init, Typed
<1>5. DOMAIN history = {} /\ history = <<>>
    BY DEF Init
<1>6. Conversion(history) = Nothing
    <2>1. InputMessages(history) = <<>>
        <3> DEFINE t == [i \in DOMAIN history |-> MessagesOf(history[i])]
        <3>1. Indexed(t, 0)
            BY <1>5 DEF Indexed
        <3> HIDE DEF t
        <3>2. FlattenSeq(t) = <<>>
            BY <3>1, FlattenNone
        <3> QED BY <3>2 DEF t, InputMessages
    <2> QED BY <1>5, <2>1, ConvertedNone DEF Conversion
<1>7. ToolsAt(history) = tools
    <2> DEFINE t == [i \in DOMAIN history |-> Brought(history[i])]
    <2>1. Indexed(t, 0)
        BY <1>5 DEF Indexed
    <2>2. IsList(tools)
        BY <1>3 DEF IsToolList
    <2> HIDE DEF t
    <2>3. tools \o FlattenSeq(t) = tools
        BY <2>1, <2>2, FlattenNone, Joined
    <2> QED BY <2>3 DEF t, ToolsAt, responseToolsForRequest
<1>8. Sound(Nothing) /\ Nothing.sent = <<>> /\ Nothing.system = <<>>
    <2>1. DOMAIN <<>> = {}
        OBVIOUS
    <2> QED BY <1>1, <2>1 DEF Sound, Nothing
<1>9. Readable(history)
    BY <1>1, <1>3, <1>5, <1>6, <1>7, <1>8 DEF Readable
<1>10. Heard(<<>>) = <<>> /\ FlattenSeq(<<>>) = <<>>
    <2> DEFINE e == <<>>
               t == [i \in DOMAIN e |-> Facts(e[i])]
    <2>1. Indexed(t, 0)
        BY DEF Indexed
    <2> HIDE DEF t
    <2>2. FlattenSeq(t) = <<>>
        BY <2>1, FlattenNone
    <2> QED BY <2>2 DEF t, Heard, FlattenSeq
<1>11. InText(<<>>) = <<>> /\ messageText(<<>>) = <<>> /\ Worded
    <2>1. InText(<<>>) = <<>>
        BY DEF InText
    <2> QED BY <2>1, NoText DEF Init, Worded
<1>12. Going
    <2>1. IsList(news) /\ DOMAIN news = {} /\ asks = 0
        BY <1>1 DEF Init
    <2>2. /\ Heard(Conversion(history).sent) = InText(spoken)
          /\ FlattenSeq(Conversion(history).system) = messageText(told)
        BY <1>6, <1>8, <1>10, <1>11 DEF Init
    <2> QED BY <1>9, <2>1, <2>2 DEF Going
<1>13. Delivery /\ OwnHistoryAccepted /\ pc = "client"
    BY DEF Init, Delivery, OwnHistoryAccepted
<1> QED BY <1>4, <1>12, <1>13, <1>11 DEF IInv

\* Messages that are nothing but text and images.
Plain(messages) == \A i \in DOMAIN messages : ToSet(messages[i].content) \subseteq {"text", "image"}

\* What a history is that ends in the messages, if they are plain or accepted.
Continues(messages) ==
    /\ ToolsAt(history') = ToolsAt(history)
    /\ IsList(told') /\ IsList(spoken') /\ IsList(messages)
    /\ Plain(messages) \/ Request(history').ok =>
          /\ Readable(history')
          /\ Conversion(history).sent # <<>> => Conversion(history').sent # <<>>
          /\ Heard(Conversion(history').sent) = InText(spoken')
          /\ FlattenSeq(Conversion(history').system) = messageText(told')
    /\ Worded => Worded'

\* A request without a message of its own.
LEMMA NothingAsked == ASSUME Typed, Going, Ask(<<>>) PROVE Continues(<<>>)
<1> DEFINE e == <<>>
           a == [i \in DOMAIN e |-> Written(e[i])]
           b == [i \in DOMAIN e |-> Told(e[i])]
           c == [i \in DOMAIN e |-> Spoken(e[i])]
<1>1. Indexed(a, 0) /\ Indexed(b, 0) /\ Indexed(c, 0)
    BY DEF Indexed
<1>2. history' = history \o a /\ told' = told \o FlattenSeq(b) /\ spoken' = spoken \o FlattenSeq(c)
    BY DEF Ask
<1> HIDE DEF a, b, c
<1>3. IsList(history) /\ IsList(told) /\ IsList(spoken) /\ IsList(e)
    BY Short DEF Typed, Going, Readable
<1>4. a = <<>>
    BY <1>1, <1>3, FunctionIsList, JoinNone
<1>5. FlattenSeq(b) = <<>> /\ FlattenSeq(c) = <<>>
    BY <1>1, FlattenNone
<1>6. history' = history /\ told' = told /\ spoken' = spoken
    BY <1>2, <1>3, <1>4, <1>5, Joined
<1> QED BY <1>3, <1>6 DEF Continues, Going, Worded

\* The parts of messages are told as they are, and so is what is all text.
LEMMA MessageInText ==
    ASSUME NEW message \in Messages
    PROVE  /\ InText(Spoken(message)) = Spoken(message)
           /\ TextOnly => messageText(Told(message)) = Told(message)
<1>1. CASE BySystem(message)
    <2>1. Spoken(message) = <<>> /\ Told(message) = message.content
        BY <1>1 DEF Spoken, Told
    <2>2. IsList(message.content)
        BY ConversationAssumption DEF ConversationAssumption
    <2>3. TextOnly => messageText(message.content) = message.content
        BY <1>1, <2>2, TextOfContent DEF TextOnly
    <2>4. InText(<<>>) = <<>>
        BY DEF InText
    <2> QED BY <2>1, <2>3, <2>4
<1>2. CASE ~BySystem(message)
    <2>1. /\ Told(message) = <<>>
          /\ Spoken(message) = [i \in DOMAIN message.content |->
                                   [role |-> message.role, part |-> message.content[i]]]
        BY <1>2 DEF Spoken, Told
    <2>2. \A i \in DOMAIN message.content : InWords(Spoken(message)[i]) = Spoken(message)[i]
        BY <2>1 DEF InWords
    <2>3. InText(Spoken(message)) = Spoken(message)
        BY <2>1, <2>2 DEF InText
    <2> QED BY <2>1, <2>3, NoText
<1> QED BY <1>1, <1>2

\* A request with a message.
LEMMA MessageAsked ==
    ASSUME Typed, Going, NEW message \in Messages, Ask(<<message>>)
    PROVE  Continues(<<message>>)
<1> DEFINE e == <<message>>
           a == [i \in DOMAIN e |-> Written(e[i])]
           b == [i \in DOMAIN e |-> Told(e[i])]
           c == [i \in DOMAIN e |-> Spoken(e[i])]
           x == Written(message)
<1>1. DOMAIN e = {1} /\ e[1] = message
    OBVIOUS
<1>2. /\ Indexed(a, 1) /\ a[1] = x
      /\ Indexed(b, 1) /\ b[1] = Told(message)
      /\ Indexed(c, 1) /\ c[1] = Spoken(message)
    BY DEF Indexed
<1>3. history' = history \o a /\ told' = told \o FlattenSeq(b) /\ spoken' = spoken \o FlattenSeq(c)
    BY DEF Ask
<1>4. IsList(history) /\ IsList(told) /\ IsList(spoken) /\ IsList(e)
    BY Short DEF Typed, Going, Readable
<1>5. IsList(Told(message)) /\ IsList(Spoken(message))
    <2>1. IsList(message.content) /\ IsList(<<>>)
        BY Short, ConversationAssumption DEF ConversationAssumption
    <2> QED BY <2>1, PartsList DEF Told, Spoken, Parts
<1>6. ~Additional(x)
    BY DEF Additional, Written
<1> HIDE DEF a, b, c, x
<1>7. a = <<x>>
    BY <1>2, <1>4, FunctionIsList, JoinOne
<1>8. FlattenSeq(b) = Told(message) /\ FlattenSeq(c) = Spoken(message)
    BY <1>2, <1>5, FlattenOne
<1>9. /\ history' = Append(history, x) /\ told' = told \o Told(message)
      /\ spoken' = spoken \o Spoken(message)
    BY <1>3, <1>4, <1>7, <1>8, Appended
<1>10. IsList(told') /\ IsList(spoken')
    BY <1>4, <1>5, <1>9, Joined
<1>11. ToolsAt(history') = ToolsAt(history)
    BY <1>6, <1>9, ToolsGrow DEF Typed, Going
<1>12. /\ InText(spoken') = InText(spoken) \o Spoken(message)
       /\ messageText(told') = messageText(told) \o messageText(Told(message))
    BY <1>4, <1>5, <1>9, InTextJoined, TextJoined, MessageInText
<1>13. ASSUME Plain(e) \/ Request(history').ok
       PROVE  /\ Readable(history')
              /\ Conversion(history).sent # <<>> => Conversion(history').sent # <<>>
              /\ Heard(Conversion(history').sent) = InText(spoken')
              /\ FlattenSeq(Conversion(history').system) = messageText(told')
    <2> DEFINE next == history'
    <2>1. next = Append(history, Written(message)) /\ Readable(history)
        BY <1>9 DEF x, Going
    <2>2. ToSet(message.content) \subseteq {"text", "image"} \/ Request(next).ok
        BY <1>1, <1>13 DEF Plain
    <2> HIDE DEF next
    <2>3. /\ Readable(next)
          /\ Conversion(history).sent # <<>> => Conversion(next).sent # <<>>
          /\ Heard(Conversion(next).sent) = Heard(Conversion(history).sent) \o Spoken(message)
          /\ FlattenSeq(Conversion(next).system)
                 = FlattenSeq(Conversion(history).system) \o messageText(Told(message))
        BY <2>1, <2>2, MessageAdded
    <2>4. /\ Heard(Conversion(next).sent) = InText(spoken')
          /\ FlattenSeq(Conversion(next).system) = messageText(told')
        BY <1>12, <2>3 DEF Going
    <2> QED BY <2>3, <2>4 DEF next
<1>14. Worded => Worded'
    BY <1>9, <1>12, MessageInText DEF Worded
<1> QED BY <1>4, <1>10, <1>11, <1>13, <1>14 DEF Continues

\* A request keeps the invariant, whether it is accepted or refused.
LEMMA AskIInv ==
    ASSUME IInv, NEW messages, Ask(messages), Continues(messages) PROVE IInv'
<1>1. /\ pc = "client" /\ Typed /\ Going /\ asks \in Nat /\ asks' = asks + 1
      /\ format' = format /\ tools' = tools /\ choice' = choice /\ answered' = answered
      /\ request' = Request(history')
      /\ pc' = IF request'.ok THEN "upstream" ELSE "refused"
      /\ news' = IF request'.ok THEN <<>> ELSE news \o messages
    BY DEF IInv, Ask, Typed
<1>2. /\ Conversion(history)' = Conversion(history') /\ ToolsAt(history)' = ToolsAt(history')
      /\ InForce' = ToolsAt(history')
      /\ Fit(history)' <=> Fit(history')
      /\ Readable(history)' <=> Readable(history')
      /\ Request(history)' = Request(history')
    BY <1>1, SameReading
<1>3. ToolsAt(history') = ToolsAt(history) /\ (Fit(history') <=> Fit(history))
    BY <1>1 DEF Continues, Fit
<1>4. Typed'
    BY <1>1 DEF Typed, Continues
<1>5. Worded'
    BY DEF IInv, Continues
<1>6. Delivery'
    <2>1. InForce' = InForce
        BY <1>2, <1>3 DEF InForce, ToolsAt
    <2> QED BY <1>1, <2>1 DEF IInv, Delivery
<1>7. CASE request'.ok
    <2>1. pc' = "upstream" /\ news' = <<>> /\ asks' > 0
        BY <1>1, <1>7
    <2> DEFINE next == history'
    <2>2. Request(next).ok
        BY <1>1, <1>7
    <2>3. Conversion(next).sent # <<>> /\ Fit(next)
        <3> HIDE DEF next
        <3> QED BY <1>1, <2>2, RequestParts DEF Typed
    <2>4. /\ Readable(next)
          /\ Heard(Conversion(next).sent) = InText(spoken')
          /\ FlattenSeq(Conversion(next).system) = messageText(told')
        BY <2>2 DEF Continues
    <2>5. IsList(news') /\ DOMAIN news' = {}
        <3>1. IsList(<<>>)
            BY Short
        <3>2. DOMAIN <<>> = {}
            OBVIOUS
        <3> QED BY <2>1, <3>1, <3>2
    <2>6. Going'
        BY <1>2, <2>1, <2>3, <2>4, <2>5 DEF Going
    <2>7. OwnHistoryAccepted'
        BY <2>1 DEF OwnHistoryAccepted
    <2> QED BY <1>1, <1>2, <1>4, <1>6, <1>7, <1>5, <2>1, <2>6, <2>7 DEF IInv
<1>8. CASE ~request'.ok
    <2>1. pc' = "refused" /\ news' = news \o messages
        BY <1>1, <1>8
    <2>2. IsList(news) /\ IsList(messages) /\ \A i \in DOMAIN news : "tools" \in DOMAIN news[i]
        BY <1>1 DEF Going, Continues
    <2>3. ASSUME asks' > 1, news # <<>>
          PROVE  \E i \in DOMAIN news' : "tools" \in DOMAIN news'[i]
        <3>1. /\ Len(news) \in Nat /\ Len(news) > 0 /\ DOMAIN news = 1 .. Len(news)
              /\ Len(messages) \in Nat
            <4>1. Len(news) \in Nat /\ DOMAIN news = 1 .. Len(news) /\ Len(messages) \in Nat
                BY <2>2, ListShape
            <4>2. Len(news) # 0
                BY <2>2, <2>3 DEF IsList
            <4> QED BY <4>1, <4>2
        <3>2. 1 \in DOMAIN news /\ 1 \in 1 .. Len(news)
            BY <3>1
        <3>3. /\ IsList(news \o messages) /\ Len(news \o messages) = Len(news) + Len(messages)
              /\ (news \o messages)[1] = news[1]
            BY <2>2, <3>2, Joined
        <3>4. 1 \in DOMAIN (news \o messages)
            BY <3>1, <3>3, ListShape
        <3> QED BY <2>1, <2>2, <3>2, <3>3, <3>4
    <2>4. ASSUME asks' > 1, news = <<>>
          PROVE  \E i \in DOMAIN news' : ~(ToSet(news'[i].content) \subseteq {"text", "image"})
        <3> DEFINE next == history'
        <3>1. news' = messages
            BY <2>1, <2>2, <2>4, Joined
        <3>2. asks > 0 /\ Fit(history) /\ Conversion(history).sent # <<>>
            BY <1>1, <2>4 DEF Going
        <3>3. SUFFICES ASSUME Plain(messages) PROVE FALSE
            BY <3>1 DEF Plain
        <3>4. Readable(next) /\ Conversion(next).sent # <<>> /\ Fit(next)
            BY <1>3, <3>2, <3>3 DEF Continues
        <3> HIDE DEF next
        <3>5. Conversion(next).ok /\ AllUsable(next)
            <4>1. Conversion(next).ok = TRUE
                <5> DEFINE acc == Conversion(next)
                <5>1. Sound(acc)
                    BY <3>4 DEF Readable
                <5> HIDE DEF acc
                <5> QED BY <5>1 DEF Sound, acc
            <4> QED BY <3>4, <4>1 DEF Readable, AllUsable
        <3>6. Request(next).ok
            BY <1>1, <3>4, <3>5, RequestParts DEF Typed
        <3> QED BY <1>1, <1>8, <3>6 DEF next
    <2>5. OwnHistoryAccepted'
        BY <2>3, <2>4 DEF OwnHistoryAccepted
    <2> QED BY <1>4, <1>6, <1>5, <2>1, <2>5 DEF IInv
<1> QED BY <1>7, <1>8

\* Tools more are read with the rest of the history, and offered with the next request.
LEMMA AddToolsIInv ==
    ASSUME IInv, NEW more \in Additions, AddTools(more) PROVE IInv'
<1> DEFINE x == [type |-> "additional_tools", tools |-> more]
           entry == [tools |-> more]
<1>1. /\ pc = "client" /\ Typed /\ Going /\ format = "responses"
      /\ pc' = pc /\ format' = format /\ tools' = tools /\ choice' = choice /\ asks' = asks
      /\ told' = told /\ spoken' = spoken /\ answered' = <<>>
      /\ history' = Append(history, x) /\ news' = Append(news, entry)
    BY DEF IInv, AddTools
<1>2. /\ Conversion(history)' = Conversion(history')
      /\ Readable(history)' <=> Readable(history')
    BY <1>1, SameReading
<1>3. Additional(x) /\ IsToolList(x.tools) /\ x.type = "additional_tools"
    BY <1>1, ConversationAssumption DEF ConversationAssumption, Additional
<1>4. "tools" \in DOMAIN entry
    OBVIOUS
<1> HIDE DEF x, entry
<1>5. Readable(history') /\ Conversion(history') = Conversion(history)
    BY <1>1, <1>3, ToolsAdded DEF Typed, Going
<1>6. /\ IsList(news') /\ \A i \in DOMAIN news' : "tools" \in DOMAIN news'[i]
      /\ news' # <<>>
    <2>1. /\ IsList(news) /\ Len(news) \in Nat /\ DOMAIN news = 1 .. Len(news)
          /\ \A i \in DOMAIN news : "tools" \in DOMAIN news[i]
        BY <1>1, ListShape DEF Going
    <2>2. /\ IsList(news') /\ Len(news') = Len(news) + 1 /\ DOMAIN news' = 1 .. Len(news) + 1
          /\ \A i \in 1 .. Len(news) : news'[i] = news[i]
          /\ news'[Len(news) + 1] = entry
        BY <1>1, <2>1, Appended
    <2>3. \A i \in DOMAIN news' : i \in 1 .. Len(news) \/ i = Len(news) + 1
        BY <2>1, <2>2
    <2>4. news' # <<>>
        <3>1. Len(<<>>) = 0
            OBVIOUS
        <3>2. Len(news') # 0
            BY <2>1, <2>2
        <3> QED BY <3>1, <3>2
    <2> QED BY <1>4, <2>1, <2>2, <2>3, <2>4
<1>7. Going'
    BY <1>1, <1>2, <1>5, <1>6 DEF Going
<1>8. Typed' /\ Delivery' /\ OwnHistoryAccepted' /\ Worded'
    <2>1. DOMAIN answered' = {}
        BY <1>1
    <2> QED BY <1>1, <2>1 DEF IInv, Typed, Delivery, OwnHistoryAccepted, Worded
<1> QED BY <1>1, <1>7, <1>8 DEF IInv

\* What is told of an answer is the text of what was said.
LEMMA AnswerInText ==
    ASSUME NEW text \in BOOLEAN, NEW said \in Answers, NEW outputs \in [DOMAIN said -> Outputs]
    PROVE  /\ IsList(SpokenAnswer(text, said, outputs))
           /\ InText(SpokenAnswer(text, said, outputs))
                  = Words(text) \o Meant(said) \o Replies(said, outputs)
<1> DEFINE words == Words(text)
           calls == Meant(said)
           results == [i \in DOMAIN said |-> [id |-> said[i].id, name |-> said[i].name,
                                              output |-> outputs[i]]]
<1>1. SpokenAnswer(text, said, outputs) = words \o calls \o results
    BY DEF SpokenAnswer, Words, Meant
<1>2. DOMAIN said = 1 .. Len(said) /\ Len(said) \in Nat
    BY AnswersShape, ListShape
<1>3. IsList(words) /\ IsList(calls) /\ IsList(results)
    <2>1. IsList(words)
        BY Short DEF Words
    <2>2. Indexed(results, Len(said))
        BY <1>2 DEF Indexed
    <2> HIDE DEF results
    <2> QED BY <1>2, <2>1, <2>2, AnswerLists, FunctionIsList
<1>4. InText(words) = words
    <2>1. CASE text
        <3> DEFINE fact == [role |-> "assistant", part |-> "text"]
        <3>1. InWords(fact) = fact
            BY DEF InWords
        <3> HIDE DEF fact
        <3>2. DOMAIN <<fact>> = {1} /\ <<fact>>[1] = fact
            OBVIOUS
        <3>3. InText(<<fact>>) = [i \in {1} |-> fact]
            BY <3>1, <3>2 DEF InText
        <3>4. <<fact>> = [i \in {1} |-> fact]
            OBVIOUS
        <3> QED BY <2>1, <3>3, <3>4 DEF Words, fact
    <2>2. CASE ~text
        <3>1. InText(<<>>) = <<>>
            BY DEF InText
        <3> QED BY <2>2, <3>1 DEF Words
    <2> QED BY <2>1, <2>2
<1>5. InText(calls) = calls
    <2>1. \A i \in DOMAIN said : InWords(calls[i]) = calls[i]
        BY DEF Meant, InWords
    <2>2. calls = [i \in DOMAIN said |-> calls[i]]
        BY DEF Meant
    <2> HIDE DEF calls
    <2> QED BY <2>1, <2>2 DEF InText
<1>6. InText(results) = Replies(said, outputs)
    <2>1. \A i \in DOMAIN said : InWords(results[i]) = [id |-> said[i].id, name |-> said[i].name,
                                                        output |-> messageText(outputs[i])]
        BY DEF InWords
    <2> QED BY <2>1 DEF InText, Replies
<1> HIDE DEF words, calls, results
<1>7. /\ IsList(words \o calls) /\ IsList(words \o calls \o results)
      /\ InText(words \o calls) = InText(words) \o InText(calls)
    BY <1>3, Joined, InTextJoined
<1>8. InText((words \o calls) \o results) = InText(words \o calls) \o InText(results)
    BY <1>3, <1>7, InTextJoined
<1> QED BY <1>1, <1>4, <1>5, <1>6, <1>7, <1>8 DEF words, calls

\* An answer and its results are read with the rest of the history.
LEMMA AnswerIInv ==
    ASSUME IInv, NEW text \in BOOLEAN, NEW said \in Answers,
           NEW outputs \in [DOMAIN said -> Outputs], Answer(text, said, outputs)
    PROVE  IInv'
<1> DEFINE got == [i \in DOMAIN said |-> Delivered(said[i])]
           facts == Words(text) \o Meant(said) \o Replies(said, outputs)
           next == history'
<1>1. /\ pc = "upstream" /\ Typed /\ Going /\ asks > 0 /\ news = <<>>
      /\ pc' = "client" /\ format' = format /\ tools' = tools /\ choice' = choice
      /\ news' = news /\ asks' = asks /\ told' = told
      /\ spoken' = spoken \o SpokenAnswer(text, said, outputs)
      /\ next = history \o Kept(text, got, outputs)
      /\ answered' = [i \in DOMAIN said |-> [said |-> said[i], got |-> got[i]]]
      /\ \A i \in DOMAIN said : Valid(Arguments(said[i], Custom))
    BY DEF IInv, Answer
<1>2. Readable(history) /\ IsToolList(tools) /\ Fit(history) /\ Conversion(history).sent # <<>>
    BY <1>1 DEF Going, Typed
<1>3. /\ Adds(history, history \o Kept(text, got, outputs), facts)
      /\ format = "responses" => \A i \in DOMAIN said : AsDeclared(InForce, said[i], got[i])
    <2>1. CASE format = "responses"
        BY <1>1, <1>2, <2>1, ItemsAnswerAdded
    <2>2. CASE format = "openai"
        BY <1>1, <1>2, <2>2, ChatAnswerAdded
    <2> QED BY <1>1, <2>1, <2>2 DEF Typed
<1>4. Adds(history, next, facts)
    BY <1>1, <1>3
<1> HIDE DEF next, got
<1>5. /\ Readable(next) /\ ToolsAt(next) = ToolsAt(history) /\ Conversion(next).sent # <<>>
      /\ Fit(next)
    BY <1>2, <1>4 DEF Adds, Fit
<1>6. /\ IsList(spoken) /\ IsList(SpokenAnswer(text, said, outputs))
      /\ InText(SpokenAnswer(text, said, outputs)) = facts
    BY <1>1, AnswerInText DEF Typed
<1> HIDE DEF facts
<1>7. InText(spoken') = InText(spoken) \o facts
    BY <1>1, <1>6, InTextJoined
<1>8. Worded'
    <2>1. TextOnly => facts = SpokenAnswer(text, said, outputs)
        BY ToldAsSpoken DEF facts
    <2> QED BY <1>1, <1>7, <2>1 DEF IInv, Worded
<1>9. IsList(spoken')
    BY <1>1, <1>6, Joined
<1>10. Going'
    <2>1. /\ Conversion(history)' = Conversion(next)
          /\ Fit(history)' <=> Fit(next)
          /\ Readable(history)' <=> Readable(next)
        BY <1>1, SameReading DEF next
    <2>2. Heard(Conversion(next).sent) = InText(spoken')
        BY <1>1, <1>4, <1>7 DEF Adds, Going
    <2>3. FlattenSeq(Conversion(next).system) = messageText(told')
        BY <1>1, <1>4 DEF Adds, Going
    <2> QED BY <1>1, <1>5, <2>1, <2>2, <2>3 DEF Going
<1>11. Delivery'
    <2>1. InForce' = InForce
        <3>1. InForce' = ToolsAt(next)
            BY <1>1, SameReading DEF next
        <3> QED BY <1>5, <3>1 DEF InForce, ToolsAt
    <2>2. /\ DOMAIN answered' = DOMAIN said
          /\ \A i \in DOMAIN said : answered'[i].said = said[i] /\ answered'[i].got = got[i]
        BY <1>1
    <2> QED BY <1>1, <1>3, <2>1, <2>2 DEF Delivery
<1>12. Typed' /\ OwnHistoryAccepted'
    BY <1>1, <1>9 DEF Typed, OwnHistoryAccepted
<1> QED BY <1>1, <1>10, <1>11, <1>12, <1>8 DEF IInv

\* An answer that fails leaves the history as it was.
LEMMA AnswerFailsIInv == ASSUME IInv, AnswerFails PROVE IInv'
<1>1. /\ pc = "upstream" /\ Typed /\ Going /\ pc' = "client"
      /\ UNCHANGED <<format, tools, choice, history, request, news, asks, told, spoken>>
      /\ answered' = <<>>
    BY DEF IInv, AnswerFails
<1>2. /\ Conversion(history)' = Conversion(history) /\ (Fit(history)' <=> Fit(history))
      /\ (Readable(history)' <=> Readable(history))
    <2>1. history' = history
        BY <1>1
    <2> QED BY <1>1, <2>1, SameReading
<1>3. Going'
    BY <1>1, <1>2 DEF Going
<1>4. Typed' /\ Delivery' /\ OwnHistoryAccepted' /\ Worded'
    <2>1. DOMAIN answered' = {}
        BY <1>1
    <2> QED BY <1>1, <2>1 DEF IInv, Typed, Delivery, OwnHistoryAccepted, Worded
<1> QED BY <1>1, <1>3, <1>4 DEF IInv
-----------------------------------------------------------------------------
(* The theorems. *)

\* No step of client or model breaks the invariant.
THEOREM ConversationInvariant == Spec => []IInv
<1>1. ASSUME IInv, [Next]_vars PROVE IInv'
    <2>1. CASE Ask(<<>>)
        <3>1. Continues(<<>>)
            BY <1>1, <2>1, NothingAsked DEF IInv, Ask
        <3> DEFINE none == <<>>
        <3> HIDE DEF none
        <3>2. Ask(none) /\ Continues(none)
            BY <2>1, <3>1 DEF none
        <3> QED BY <1>1, <3>2, AskIInv
    <2>2. ASSUME NEW message \in Messages, Ask(<<message>>) PROVE IInv'
        <3>1. Continues(<<message>>)
            BY <1>1, <2>2, MessageAsked DEF IInv, Ask
        <3> DEFINE messages == <<message>>
        <3> HIDE DEF messages
        <3>2. Ask(messages) /\ Continues(messages)
            BY <2>2, <3>1 DEF messages
        <3> QED BY <1>1, <3>2, AskIInv
    <2>3. ASSUME NEW more \in Additions, AddTools(more) PROVE IInv'
        BY <1>1, <2>3, AddToolsIInv
    <2>4. ASSUME NEW text \in BOOLEAN, NEW said \in Answers,
                 NEW outputs \in [DOMAIN said -> Outputs], Answer(text, said, outputs)
          PROVE  IInv'
        BY <1>1, <2>4, AnswerIInv
    <2>5. CASE AnswerFails
        BY <1>1, <2>5, AnswerFailsIInv
    <2>6. CASE UNCHANGED vars
        <3>1. UNCHANGED <<pc, format, tools, choice, history, request, news, answered, asks, told,
                          spoken>>
            BY <2>6 DEF vars
        <3>2. history' = history
            BY <3>1
        <3>3. /\ Conversion(history)' = Conversion(history) /\ (Fit(history)' <=> Fit(history))
              /\ (Readable(history)' <=> Readable(history)) /\ InForce' = ToolsAt(history)
              /\ Request(history)' = Request(history)
            BY <3>1, <3>2, SameReading
        <3>4. InForce' = InForce
            BY <3>3 DEF InForce, ToolsAt
        <3>5. Going' <=> Going
            BY <3>1, <3>3 DEF Going
        <3>6. /\ (Typed' <=> Typed) /\ (Delivery' <=> Delivery) /\ (Worded' <=> Worded)
              /\ (OwnHistoryAccepted' <=> OwnHistoryAccepted)
            BY <3>1, <3>4 DEF Typed, Delivery, OwnHistoryAccepted, Worded
        <3> QED BY <1>1, <3>1, <3>3, <3>5, <3>6 DEF IInv
    <2> QED BY <1>1, <2>1, <2>2, <2>3, <2>4, <2>5, <2>6 DEF Next
<1> QED BY InitIInv, <1>1, PTL DEF Spec

\* A request that is accepted brings the model all the text of the conversation, and every
\* part of the client's messages.
TextArrives ==
    pc = "upstream" =>
        Heard(request.sent) = InText(spoken) /\ FlattenSeq(request.system) = messageText(told)

\* Whatever client and model say, a request that is accepted loses nothing of it but the
\* parts of results and instructions that are not text (callUpstream).
THEOREM AllTextArrives == Spec => []TextArrives
<1>1. IInv => TextArrives
    <2> SUFFICES ASSUME IInv, pc = "upstream"
                 PROVE  /\ Heard(request.sent) = InText(spoken)
                        /\ FlattenSeq(request.system) = messageText(told)
        BY DEF TextArrives
    <2>1. Going /\ request = Request(history) /\ format \in {"openai", "responses"}
        BY DEF IInv, Typed
    <2>2. /\ request.sent = Conversion(history).sent
          /\ request.system = Conversion(history).system
        BY <2>1, RequestParts
    <2> QED BY <2>1, <2>2 DEF Going
<1> QED BY ConversationInvariant, <1>1, PTL

\* Where instructions and results are in words alone, a request that is accepted brings the
\* model the whole conversation (callUpstream): what a client does not see of a call, its
\* alias and its wrapped input, is restored, and each result finds the name of its call.
THEOREM WholeHistoryArrives == ASSUME TextOnly PROVE Spec => []HistoryArrives
<1>1. IInv => HistoryArrives
    <2> SUFFICES ASSUME IInv, pc = "upstream"
                 PROVE  Heard(request.sent) = spoken /\ FlattenSeq(request.system) = told
        BY DEF HistoryArrives
    <2>1. /\ Going /\ request = Request(history) /\ format \in {"openai", "responses"}
        BY DEF IInv, Typed
    <2>2. /\ request.sent = Conversion(history).sent
          /\ request.system = Conversion(history).system
        BY <2>1, RequestParts
    <2> QED BY <2>1, <2>2 DEF IInv, Going, Worded
<1> QED BY ConversationInvariant, <1>1, PTL

\* Whatever a Responses client declares and adds, the calls it gets are calls of the tools it
\* declared, as it declared them (responseToolForRequest).
THEOREM CallsComeAsDeclared == Spec => []DeliveredAsDeclared
<1>1. IInv => DeliveredAsDeclared
    BY DEF IInv, Delivery, AsDeclared, DeliveredAsDeclared
<1> QED BY ConversationInvariant, <1>1, PTL

\* A conversation once accepted is not refused for what the plugin made of it.
THEOREM OwnAnswersAreAccepted == Spec => []OwnHistoryAccepted
<1>1. IInv => OwnHistoryAccepted
    BY DEF IInv
<1> QED BY ConversationInvariant, <1>1, PTL

\* The upstream gets every declared tool, each under a name of its own (flattenResponseTools).
THEOREM EveryToolHasItsName == Spec => []OfferedDistinct
<1>1. IInv => OfferedDistinct
    <2> SUFFICES ASSUME IInv, pc = "upstream", format = "responses", choice # "none"
                 PROVE  /\ Cardinality(ToSet(request.tools)) = Len(Declared(InForce))
                        /\ Len(request.tools) = Len(Declared(InForce))
        BY DEF OfferedDistinct
    <2> DEFINE declared == Declared(InForce)
               n == Len(declared)
               names == [i \in DOMAIN declared |-> AliasOf(declared[i])]
    <2>1. /\ Going /\ request = Request(history) /\ request.ok /\ format \in {"openai", "responses"}
          /\ InForce = ToolsAt(history)
        BY DEF IInv, Typed, InForce, ToolsAt
    <2>2. request.tools = names
        BY <2>1, RequestParts
    <2>3. Distinct(declared) /\ IsToolList(InForce)
        <3>1. Fit(history)
            BY <2>1, RequestParts
        <3>2. flattenResponseTools(InForce).ok
            BY <2>1, <3>1 DEF Fit
        <3> QED BY <2>1, <3>2 DEF flattenResponseTools, Going, Readable
    <2>4. IsList(declared) /\ n \in Nat /\ DOMAIN declared = 1 .. n
        BY <2>3, DeclaredList, ListShape
    <2>5. \A i, j \in 1 .. n : names[i] = names[j] => i = j
        <3> SUFFICES ASSUME NEW i \in 1 .. n, NEW j \in 1 .. n, names[i] = names[j] PROVE i = j
            OBVIOUS
        <3>1. AliasOf(declared[i]) = AliasOf(declared[j])
            BY <2>4
        <3> QED BY <2>3, <2>4, <3>1, OneTool
    <2> HIDE DEF declared
    <2>6. IsList(names) /\ Len(names) = n /\ DOMAIN names = 1 .. n
        <3>1. Indexed(names, n)
            BY <2>4 DEF Indexed
        <3> HIDE DEF names
        <3> QED BY <2>4, <3>1, FunctionIsList, ListShape
    <2> HIDE DEF names, n
    <2>7. Cardinality(ToSet(names)) = n
        <3>1. IsFiniteSet(1 .. n) /\ Cardinality(1 .. n) = n
            <4>1. 1 \in Int /\ n \in Int
                BY <2>4
            <4> QED BY <2>4, <4>1, FS_Interval
        <3>2. names \in [1 .. n -> ToSet(names)]
            <4>1. names = [i \in 1 .. n |-> names[i]]
                BY <2>6, ListShape
            <4>2. \A i \in 1 .. n : names[i] \in ToSet(names)
                BY <2>6 DEF ToSet
            <4> QED BY <4>1, <4>2
        <3>3. \A x \in ToSet(names) : \E i \in 1 .. n : names[i] = x
            BY <2>6 DEF ToSet
        <3>4. names \in Surjection(1 .. n, ToSet(names))
            BY <3>2, <3>3 DEF Surjection
        <3>5. names \in Injection(1 .. n, ToSet(names))
            BY <2>5, <3>2 DEF Injection, IsInjective
        <3> QED BY <3>1, <3>4, <3>5, FS_Surjection
    <2> QED BY <2>2, <2>6, <2>7 DEF n, declared
<1> QED BY ConversationInvariant, <1>1, PTL
=============================================================================
