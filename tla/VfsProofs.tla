------------------------------ MODULE VfsProofs ------------------------------
(***************************************************************************)
(* Proof that the file calls of Vfs implement FileSystem, for all paths,   *)
(* trees of directories and files, descriptors and seeks.                  *)
(***************************************************************************)
EXTENDS Vfs, TLAPS

----------------------------------------------------------------------------
(* The loop of lookup *)

\* What the inductions below rest on.  LeastIs shows it at the end, where the
\* library's theorems are at hand: until then they would only slow the provers.
Least == \A S : S \subseteq Nat /\ S # {} => \E x \in S : \A y \in S : x <= y

\* No prover knows that "/" is a string.
Chars == STRING \cup {"/"}

LEMMA PathIs == Seq(STRING) \subseteq Seq(Chars)
    BY DEF Chars

\* Where the loop stands after k characters, when g has where it stood before.
WalkStep(root, rest, g, k) ==
    IF k = 0 THEN root
    ELSE IF (k <= Len(rest) /\ rest[k] # "/") \/ Component(rest, k) = <<>> THEN g[k - 1]
    ELSE LookupChild(g[k - 1], Component(rest, k))
IsWalk(root, rest, g, n) == g = [k \in 0..n |-> WalkStep(root, rest, g, k)]

\* The recursion has a solution, up to every place of the path.
LEMMA WalkExists ==
    ASSUME Least, NEW root, NEW rest, NEW n \in Nat
    PROVE  \E g : IsWalk(root, rest, g, n)
<1> DEFINE None == {m \in Nat : ~\E g : IsWalk(root, rest, g, m)}
<1> SUFFICES ASSUME None # {} PROVE FALSE
    OBVIOUS
<1>1. PICK m \in None : \A y \in None : m <= y
    BY Zenon DEF Least
<1>2. m # 0
  <2> DEFINE g == [k \in 0..0 |-> root]
  <2>1. g = [k \in 0..0 |-> WalkStep(root, rest, g, k)]
      BY DEF WalkStep
  <2> QED
      BY <1>1, <2>1, Zenon DEF IsWalk
<1>3. m - 1 \in Nat /\ m - 1 \notin None
    BY <1>1, <1>2
<1>4. PICK g : IsWalk(root, rest, g, m - 1)
    BY <1>3
<1> DEFINE h == [k \in 0..m |-> WalkStep(root, rest, g, k)]
<1>5. ASSUME NEW k \in 0..m, k # 0 PROVE h[k - 1] = g[k - 1]
  <2>1. k - 1 \in 0..m /\ k - 1 \in 0..(m - 1)
      BY <1>1, <1>5
  <2> QED
      BY <1>4, <2>1 DEF IsWalk
<1>6. ASSUME NEW k \in 0..m PROVE WalkStep(root, rest, h, k) = WalkStep(root, rest, g, k)
    BY <1>5 DEF WalkStep
<1>7. h = [k \in 0..m |-> WalkStep(root, rest, h, k)]
    BY <1>6
<1> QED
    BY <1>1, <1>7, Zenon DEF IsWalk

LEMMA WalkIs ==
    ASSUME Least, NEW root, NEW rest, Len(rest) \in Nat
    PROVE  \E g : IsWalk(root, rest, g, Len(rest) + 1) /\ Walk(root, rest) = g[Len(rest) + 1]
<1>1. Walk(root, rest)
        = (CHOOSE g : g = [k \in 0..(Len(rest) + 1) |-> WalkStep(root, rest, g, k)])[Len(rest) + 1]
    BY Zenon DEF Walk, WalkStep
<1>2. Walk(root, rest) = (CHOOSE g : IsWalk(root, rest, g, Len(rest) + 1))[Len(rest) + 1]
    BY <1>1, Zenon DEF IsWalk
<1>3. \E g : IsWalk(root, rest, g, Len(rest) + 1)
  <2>1. Len(rest) + 1 \in Nat
      OBVIOUS
  <2> QED
      BY <2>1, WalkExists, Zenon
<1> QED
    BY <1>2, <1>3, Zenon

\* A component is complete before character k.
EndsAt(rest, k) == k > 1 /\ rest[k - 1] # "/" /\ (k = Len(rest) + 1 \/ rest[k] = "/")

LEMMA ComponentIs ==
    ASSUME NEW rest \in Seq(Chars), NEW k \in 1..(Len(rest) + 1), NEW b \in 0..(k - 1),
           b = 0 \/ rest[b] = "/", \A c \in (b + 1)..(k - 1) : rest[c] # "/"
    PROVE  Component(rest, k) = SubSeq(rest, b + 1, k - 1)
<1> DEFINE P(x) == (x = 0 \/ rest[x] = "/") /\ \A c \in (x + 1)..(k - 1) : rest[c] # "/"
<1>1. ASSUME NEW x \in 0..(k - 1), P(x) PROVE x = b
  <2>1. x < b => b \in (x + 1)..(k - 1) /\ b # 0
      OBVIOUS
  <2>2. b < x => x \in (b + 1)..(k - 1) /\ x # 0
      OBVIOUS
  <2>3. ~(x < b) /\ ~(b < x)
      BY <1>1, <2>1, <2>2
  <2> QED
      BY <2>3
<1>2. P(b)
    OBVIOUS
<1> HIDE DEF P
<1>3. (CHOOSE x \in 0..(k - 1) : P(x)) = b
    BY <1>1, <1>2, Zenon
<1> QED
    BY <1>3, Zenon DEF Component, P

LEMMA LastSlash ==
    ASSUME Least, NEW rest \in Seq(Chars), NEW k \in 1..(Len(rest) + 1)
    PROVE  \E b \in 0..(k - 1) : /\ b = 0 \/ rest[b] = "/"
                                 /\ \A c \in (b + 1)..(k - 1) : rest[c] # "/"
<1> DEFINE D == {d \in Nat : d <= k - 1 /\ (k - 1 - d = 0 \/ rest[k - 1 - d] = "/")}
<1>1. k - 1 \in D
    OBVIOUS
<1>2. PICK d \in D : \A y \in D : d <= y
    BY <1>1, Zenon DEF Least
<1>3. k - 1 - d \in 0..(k - 1) /\ (k - 1 - d = 0 \/ rest[k - 1 - d] = "/")
    BY <1>2
<1>4. ASSUME NEW c \in ((k - 1 - d) + 1)..(k - 1) PROVE rest[c] # "/"
  <2>1. k - 1 - c \in Nat /\ k - 1 - c < d /\ k - 1 - c <= k - 1 /\ k - 1 - (k - 1 - c) = c
      BY <1>2
  <2>2. k - 1 - c \notin D
    <3>1. d \in Nat /\ ~(d <= k - 1 - c)
        BY <1>2, <2>1
    <3> HIDE DEF D
    <3> QED
        BY <1>2, <3>1
  <2> QED
      BY <2>1, <2>2
<1> QED
    BY <1>3, <1>4

LEMMA ComponentEmpty ==
    ASSUME Least, NEW rest \in Seq(Chars), NEW k \in 1..(Len(rest) + 1)
    PROVE  Component(rest, k) = <<>> <=> k = 1 \/ rest[k - 1] = "/"
<1>1. CASE k = 1 \/ rest[k - 1] = "/"
  <2>1. Component(rest, k) = SubSeq(rest, (k - 1) + 1, k - 1)
    <3>1. k - 1 \in 0..(k - 1) /\ (k - 1 = 0 \/ rest[k - 1] = "/")
        BY <1>1
    <3>2. \A c \in ((k - 1) + 1)..(k - 1) : rest[c] # "/"
        OBVIOUS
    <3> QED
        BY <3>1, <3>2, ComponentIs
  <2>2. SubSeq(rest, (k - 1) + 1, k - 1) = <<>>
      OBVIOUS
  <2> QED
      BY <1>1, <2>1, <2>2
<1>2. CASE ~(k = 1 \/ rest[k - 1] = "/")
  <2>1. PICK b \in 0..(k - 1) : /\ b = 0 \/ rest[b] = "/"
                                /\ \A c \in (b + 1)..(k - 1) : rest[c] # "/"
      BY LastSlash
  <2>2. Component(rest, k) = SubSeq(rest, b + 1, k - 1)
      BY <2>1, ComponentIs, Zenon
  <2>3. b < k - 1
      BY <1>2, <2>1
  <2>4. Len(SubSeq(rest, b + 1, k - 1)) > 0
      BY <2>1, <2>3
  <2> QED
      BY <1>2, <2>2, <2>4
<1> QED
    BY <1>1, <1>2

LEMMA WalkNext ==
    ASSUME Least, NEW root, NEW rest \in Seq(Chars), NEW g, NEW n \in Nat, n <= Len(rest) + 1,
           IsWalk(root, rest, g, n), NEW k \in 1..n
    PROVE  g[k] = IF EndsAt(rest, k) THEN LookupChild(g[k - 1], Component(rest, k)) ELSE g[k - 1]
<1>1. k \in 1..(Len(rest) + 1) /\ k \in 0..n /\ k # 0
    OBVIOUS
<1>2. g[k] = WalkStep(root, rest, g, k)
    BY <1>1, Zenon DEF IsWalk
<1>3. Component(rest, k) = <<>> <=> k = 1 \/ rest[k - 1] = "/"
    BY <1>1, ComponentEmpty
<1>4. ~((k <= Len(rest) /\ rest[k] # "/") \/ Component(rest, k) = <<>>) <=> EndsAt(rest, k)
    BY <1>1, <1>3 DEF EndsAt
<1> QED
    BY <1>1, <1>2, <1>4 DEF WalkStep

----------------------------------------------------------------------------
(* The loop and the words of a path *)

Beyond(p, o) == {w \in Abs!Words(p) : w[1] > o}

LEMMA WordIs ==
    ASSUME NEW p \in Seq(Chars), NEW w
    PROVE  w \in Abs!Words(p) <=>
              /\ w = <<w[1], w[2]>> /\ w[1] \in 1..Len(p) /\ w[2] \in 1..Len(p) /\ w[1] <= w[2]
              /\ \A k \in w[1]..w[2] : p[k] # "/"
              /\ w[1] = 1 \/ p[w[1] - 1] = "/"
              /\ w[2] = Len(p) \/ p[w[2] + 1] = "/"
<1>1. DOMAIN p = 1..Len(p)
    OBVIOUS
<1> QED
    BY <1>1 DEF Abs!Words

\* Words do not overlap.
LEMMA WordsApart ==
    ASSUME NEW p \in Seq(Chars), NEW w \in Abs!Words(p), NEW x \in Abs!Words(p), w[1] <= x[1]
    PROVE  w = x \/ w[2] < x[1]
<1>1. /\ w = <<w[1], w[2]>> /\ w[1] \in 1..Len(p) /\ w[2] \in 1..Len(p) /\ w[1] <= w[2]
      /\ \A k \in w[1]..w[2] : p[k] # "/"
      /\ w[1] = 1 \/ p[w[1] - 1] = "/"
      /\ w[2] = Len(p) \/ p[w[2] + 1] = "/"
    BY WordIs
<1>2. /\ x = <<x[1], x[2]>> /\ x[1] \in 1..Len(p) /\ x[2] \in 1..Len(p) /\ x[1] <= x[2]
      /\ \A k \in x[1]..x[2] : p[k] # "/"
      /\ x[1] = 1 \/ p[x[1] - 1] = "/"
      /\ x[2] = Len(p) \/ p[x[2] + 1] = "/"
    BY WordIs
<1> SUFFICES ASSUME ~(w[2] < x[1]) PROVE w = x
    OBVIOUS
<1>3. x[1] = w[1]
  <2>1. x[1] > w[1] => x[1] - 1 \in w[1]..w[2]
      BY <1>1, <1>2
  <2> QED
      BY <1>1, <1>2, <2>1
<1>4. ~(w[2] < x[2])
  <2>1. w[2] < x[2] => w[2] + 1 \in x[1]..x[2]
      BY <1>1, <1>2, <1>3
  <2> QED
      BY <1>1, <1>2, <2>1
<1>5. ~(x[2] < w[2])
  <2>1. x[2] < w[2] => x[2] + 1 \in w[1]..w[2]
      BY <1>1, <1>2, <1>3
  <2> QED
      BY <1>1, <1>2, <2>1
<1>6. x[2] = w[2]
    BY <1>1, <1>2, <1>4, <1>5
<1> QED
    BY <1>1, <1>2, <1>3, <1>6, Zenon

\* The rest of a path, from o on, at a place that is not inside a word.
CutAt(p, o) == o \in 1..Len(p) /\ (o = Len(p) \/ p[o] = "/" \/ p[o + 1] = "/")

Rest(p, o) == SubSeq(p, o + 1, Len(p))

LEMMA RestIs ==
    ASSUME NEW p \in Seq(Chars), NEW o \in 1..Len(p)
    PROVE  /\ Rest(p, o) \in Seq(Chars) /\ Len(Rest(p, o)) = Len(p) - o
           /\ \A k \in 1..(Len(p) - o) : Rest(p, o)[k] = p[o + k]
    BY DEF Rest

\* The components of the rest are the words beyond o.
LEMMA EndIsWord ==
    ASSUME Least, NEW p \in Seq(Chars), NEW o, CutAt(p, o),
           NEW k \in 1..(Len(Rest(p, o)) + 1), EndsAt(Rest(p, o), k)
    PROVE  \E w \in Beyond(p, o) :
              w[2] = o + k - 1 /\ Component(Rest(p, o), k) = SubSeq(p, w[1], w[2])
<1> DEFINE rest == Rest(p, o)
<1>0. o \in 1..Len(p) /\ (o = Len(p) \/ p[o] = "/" \/ p[o + 1] = "/") /\ Len(p) \in Nat
    BY DEF CutAt
<1>1. /\ rest \in Seq(Chars) /\ Len(rest) = Len(p) - o
      /\ \A i \in 1..(Len(p) - o) : rest[i] = p[o + i]
    BY <1>0, RestIs
<1>2. k > 1 /\ rest[k - 1] # "/" /\ (k = Len(rest) + 1 \/ rest[k] = "/")
    BY Zenon DEF EndsAt
<1>3. PICK b \in 0..(k - 1) : (b = 0 \/ rest[b] = "/") /\ \A c \in (b + 1)..(k - 1) : rest[c] # "/"
    BY <1>1, LastSlash, Zenon
<1>4. Component(rest, k) = SubSeq(rest, b + 1, k - 1)
    BY <1>1, <1>3, ComponentIs, Zenon
<1>5. b < k - 1
  <2>1. b = k - 1 => b # 0 /\ rest[b] = rest[k - 1]
      BY <1>2
  <2>2. b # k - 1
      BY <1>2, <1>3, <2>1, Zenon
  <2> QED
      BY <2>2
<1> DEFINE w == <<o + b + 1, o + k - 1>>
<1>6. w[1] = o + b + 1 /\ w[2] = o + k - 1
    OBVIOUS
<1> HIDE DEF w
<1>7. /\ w[1] \in 1..Len(p) /\ w[2] \in 1..Len(p) /\ w[1] <= w[2] /\ w[1] > o /\ w[1] # 1
    BY <1>0, <1>1, <1>5, <1>6
<1>8. ASSUME NEW c \in w[1]..w[2] PROVE p[c] # "/"
  <2>1. c - o \in (b + 1)..(k - 1) /\ c - o \in 1..(Len(p) - o) /\ o + (c - o) = c
      BY <1>0, <1>1, <1>6
  <2> QED
      BY <1>1, <1>3, <2>1, Zenon
<1>9. p[w[1] - 1] = "/"
  <2>1. CASE b = 0
    <3>1. 1 \in (b + 1)..(k - 1) /\ 1 \in 1..(Len(p) - o)
        BY <1>0, <1>1, <1>2, <2>1
    <3>2. p[o + 1] # "/"
        BY <1>1, <1>3, <3>1
    <3>4. o # Len(p)
        BY <1>0, <3>1
    <3>3. w[1] - 1 = o
        BY <1>0, <1>6, <2>1
    <3> QED
        BY <1>0, <3>2, <3>3, <3>4
  <2>2. CASE b # 0
    <3>1. b \in 1..(Len(p) - o) /\ w[1] - 1 = o + b
        BY <1>0, <1>1, <1>5, <1>6, <2>2
    <3> QED
        BY <1>1, <1>3, <2>2, <3>1
  <2> QED
      BY <2>1, <2>2
<1>10. w[2] = Len(p) \/ p[w[2] + 1] = "/"
  <2>1. CASE k = Len(rest) + 1
      BY <1>0, <1>1, <1>6, <2>1
  <2>2. CASE k # Len(rest) + 1
    <3>1. k \in 1..(Len(p) - o)
      <4>1. k \in 1..((Len(p) - o) + 1) /\ k # (Len(p) - o) + 1
          BY <1>1, <2>2, Zenon
      <4> QED
          BY <1>0, <4>1
    <3>2. w[2] + 1 = o + k
        BY <1>0, <1>6
    <3> QED
        BY <1>1, <1>2, <2>2, <3>1, <3>2
  <2> QED
      BY <2>1, <2>2, Zenon
<1>11. w \in Beyond(p, o)
  <2>1. w = <<w[1], w[2]>>
      BY DEF w
  <2>2. w \in Abs!Words(p)
      BY <1>7, <1>8, <1>9, <1>10, <2>1, WordIs, Zenon
  <2> QED
      BY <1>7, <2>2 DEF Beyond
<1>12. SubSeq(rest, b + 1, k - 1) = SubSeq(p, w[1], w[2])
  <2>1. SubSeq(rest, b + 1, k - 1) = [i \in 1..(k - 1 - b) |-> rest[b + i]]
      BY <1>1, <1>3, <1>5
  <2>2. SubSeq(p, w[1], w[2]) = [i \in 1..(k - 1 - b) |-> p[o + b + i]]
      BY <1>0, <1>1, <1>3, <1>5, <1>6, <1>7
  <2>3. ASSUME NEW i \in 1..(k - 1 - b) PROVE rest[b + i] = p[o + b + i]
    <3>1. b + i \in 1..(Len(p) - o) /\ o + (b + i) = o + b + i
        BY <1>0, <1>1, <1>3
    <3> QED
        BY <1>1, <3>1
  <2> QED
      BY <2>1, <2>2, <2>3, Zenon
<1> QED
    BY <1>4, <1>6, <1>11, <1>12, Zenon

LEMMA WordIsEnd ==
    ASSUME NEW p \in Seq(Chars), NEW o, CutAt(p, o), NEW w \in Beyond(p, o)
    PROVE  w[2] - o + 1 \in 1..(Len(Rest(p, o)) + 1) /\ EndsAt(Rest(p, o), w[2] - o + 1)
<1> DEFINE rest == Rest(p, o)
<1>0. o \in 1..Len(p) /\ Len(p) \in Nat
    BY DEF CutAt
<1>1. /\ rest \in Seq(Chars) /\ Len(rest) = Len(p) - o
      /\ \A i \in 1..(Len(p) - o) : rest[i] = p[o + i]
    BY <1>0, RestIs
<1>2. /\ w[1] \in 1..Len(p) /\ w[2] \in 1..Len(p) /\ w[1] <= w[2] /\ w[1] > o
      /\ \A k \in w[1]..w[2] : p[k] # "/"
      /\ w[2] = Len(p) \/ p[w[2] + 1] = "/"
    BY WordIs DEF Beyond
<1>3. w[2] - o + 1 \in 1..(Len(rest) + 1) /\ w[2] - o + 1 > 1 /\ w[2] - o \in 1..(Len(p) - o)
  <2>1. w[2] - o \in 1..(Len(p) - o)
      BY <1>0, <1>2
  <2> QED
      BY <1>0, <1>1, <2>1
<1>4. rest[w[2] - o] # "/" /\ w[2] - o + 1 - 1 = w[2] - o
  <2>1. rest[w[2] - o] = p[w[2]]
    <3>1. o + (w[2] - o) = w[2]
        BY <1>0, <1>2
    <3> QED
        BY <1>1, <1>3, <3>1
  <2>2. w[2] \in w[1]..w[2]
      BY <1>2
  <2> QED
      BY <1>0, <1>2, <2>1, <2>2
<1>5. w[2] - o + 1 = Len(rest) + 1 \/ rest[w[2] - o + 1] = "/"
  <2>1. CASE w[2] = Len(p)
      BY <1>0, <1>1, <2>1
  <2>2. CASE w[2] # Len(p)
    <3>1. w[2] - o + 1 \in 1..(Len(p) - o) /\ o + (w[2] - o + 1) = w[2] + 1
        BY <1>0, <1>2, <2>2
    <3> QED
        BY <1>1, <1>2, <2>2, <3>1
  <2> QED
      BY <2>1, <2>2, Zenon
<1>6. rest[(w[2] - o + 1) - 1] # "/"
  <2>1. (w[2] - o + 1) - 1 = w[2] - o
      BY <1>0, <1>2
  <2> QED
      BY <1>4, <2>1, Zenon
<1> QED
    BY <1>3, <1>5, <1>6, Zenon DEF EndsAt

----------------------------------------------------------------------------
(* Mounts *)

\* The table that boot leaves, and no call changes it.
MountsOK ==
    \E r \in Roots : mounts = <<[path |-> <<"/">> \o Boot, root |-> RamRoot],
                                [path |-> <<"/">>, root |-> r]>>

Absolute(p) == p \in Seq(Chars) /\ p # <<>> /\ p[1] = "/"

LEMMA OneIn == ASSUME NEW S, NEW x \in S PROVE <<x>> \in Seq(S) /\ Len(<<x>>) = 1
    OBVIOUS

LEMMA OneIs ==
    ASSUME NEW S, NEW s \in Seq(S), Len(s) > 0
    PROVE  SubSeq(s, 1, 1) = <<s[1]>>
<1>1. SubSeq(s, 1, 1) = [i \in 1..1 |-> s[i]]
    OBVIOUS
<1>2. <<s[1]>> = [i \in 1..1 |-> s[1]]
    OBVIOUS
<1>3. \A i \in 1..1 : i = 1
    OBVIOUS
<1> QED
    BY <1>1, <1>2, <1>3, Zenon

LEMMA BootIs ==
    /\ Boot \in Seq(Chars) /\ Len(Boot) \in Nat /\ Len(Boot) > 0
    /\ <<"/">> \o Boot \in Seq(Chars) /\ Len(<<"/">> \o Boot) = Len(Boot) + 1
    /\ (<<"/">> \o Boot)[1] = "/"
    /\ \A i \in 2..(Len(Boot) + 1) : (<<"/">> \o Boot)[i] = Boot[i - 1] /\ Boot[i - 1] # "/"
<1>1. Boot \in Seq(Chars) /\ Boot # <<>> /\ \A i \in 1..Len(Boot) : Boot[i] # "/"
  <2>1. Boot \in Seq(STRING) /\ Boot # <<>> /\ \A i \in DOMAIN Boot : Boot[i] # "/"
      BY VfsAssumption
  <2>2. Boot \in Seq(Chars)
      BY <2>1, PathIs
  <2> QED
      BY <2>1, <2>2
<1>2. Len(Boot) \in Nat /\ Len(Boot) > 0
    BY <1>1
<1>3. \A i \in 2..(Len(Boot) + 1) : (<<"/">> \o Boot)[i] = Boot[i - 1] /\ Boot[i - 1] # "/"
    BY <1>1, <1>2
<1>4. <<"/">> \in Seq(Chars) /\ Len(<<"/">>) = 1
  <2>1. "/" \in Chars
      BY DEF Chars
  <2> QED
      BY <2>1, OneIn, Zenon
<1>5. <<"/">> \o Boot \in Seq(Chars) /\ Len(<<"/">> \o Boot) = Len(Boot) + 1
    BY <1>1, <1>4
<1>6. (<<"/">> \o Boot)[1] = "/"
    BY <1>1, <1>2
<1> QED
    BY <1>1, <1>2, <1>3, <1>5, <1>6, Zenon

LEMMA BelowBootIs ==
    ASSUME NEW p, Absolute(p)
    PROVE  Abs!BelowBoot(p) <=>
              /\ Len(Boot) + 1 <= Len(p)
              /\ \A i \in 2..(Len(Boot) + 1) : p[i] = Boot[i - 1]
              /\ Len(Boot) + 1 = Len(p) \/ p[Len(Boot) + 2] = "/"
<1> DEFINE L == Len(Boot) + 1
           b == <<2, L>>
<1>1. p \in Seq(Chars) /\ Len(p) \in Nat /\ Len(p) > 0 /\ p[1] = "/"
    BY DEF Absolute
<1>2. L \in Nat /\ L > 1 /\ Len(Boot) = L - 1 /\ \A i \in 2..L : Boot[i - 1] # "/"
    BY BootIs
<1>3. b[1] = 2 /\ b[2] = L /\ b = <<b[1], b[2]>>
    OBVIOUS
<1>4. Abs!BelowBoot(p) <=> b \in Abs!Words(p) /\ SubSeq(p, 2, L) = Boot
    BY DEF Abs!BelowBoot, Abs!BootWord
<1>5. b \in Abs!Words(p) <=>
              /\ b[1] \in 1..Len(p) /\ b[2] \in 1..Len(p) /\ b[1] <= b[2]
              /\ \A k \in b[1]..b[2] : p[k] # "/"
              /\ b[1] = 1 \/ p[b[1] - 1] = "/"
              /\ b[2] = Len(p) \/ p[b[2] + 1] = "/"
    BY <1>1, <1>3, WordIs
<1> HIDE DEF L
<1>6. b \in Abs!Words(p) <=> L <= Len(p) /\ (\A k \in 2..L : p[k] # "/") /\ (L = Len(p) \/ p[L + 1] = "/")
  <2>1. b[1] - 1 = 1 /\ p[b[1] - 1] = "/"
      BY <1>1, <1>3
  <2>2. L <= Len(p) => b[1] \in 1..Len(p) /\ b[2] \in 1..Len(p) /\ b[1] <= b[2]
      BY <1>1, <1>2, <1>3
  <2>3. b[2] \in 1..Len(p) => L <= Len(p)
      BY <1>1, <1>2, <1>3
  <2> QED
      BY <1>3, <1>5, <2>1, <2>2, <2>3
<1>7. ASSUME L <= Len(p) PROVE SubSeq(p, 2, L) = Boot <=> \A i \in 2..L : p[i] = Boot[i - 1]
  <2>1. SubSeq(p, 2, L) = [i \in 1..(L - 1) |-> p[i + 1]]
      BY <1>1, <1>2, <1>7
  <2>2. Boot = [i \in 1..(L - 1) |-> Boot[i]]
      BY <1>2, BootIs
  <2>3. SubSeq(p, 2, L) = Boot <=> \A i \in 1..(L - 1) : p[i + 1] = Boot[i]
      BY <2>1, <2>2, Zenon
  <2>4. ASSUME \A i \in 2..L : p[i] = Boot[i - 1], NEW i \in 1..(L - 1) PROVE p[i + 1] = Boot[i]
    <3>1. i + 1 \in 2..L /\ (i + 1) - 1 = i
        BY <1>2
    <3> QED
        BY <2>4, <3>1
  <2>5. ASSUME \A i \in 1..(L - 1) : p[i + 1] = Boot[i], NEW i \in 2..L PROVE p[i] = Boot[i - 1]
    <3>1. i - 1 \in 1..(L - 1) /\ (i - 1) + 1 = i
        BY <1>2
    <3> QED
        BY <2>5, <3>1
  <2> QED
      BY <2>3, <2>4, <2>5
<1>8. Len(Boot) + 2 = L + 1
    BY <1>2
<1>9. Abs!BelowBoot(p) <=> /\ L <= Len(p) /\ (\A i \in 2..L : p[i] = Boot[i - 1])
                           /\ L = Len(p) \/ p[L + 1] = "/"
    BY <1>2, <1>4, <1>6, <1>7
<1> QED
    BY <1>8, <1>9, Zenon DEF L

LEMMA CoversBoot ==
    ASSUME NEW p, Absolute(p)
    PROVE  Covers(<<"/">> \o Boot, p) <=> Abs!BelowBoot(p)
<1> DEFINE L == Len(Boot) + 1
           m == <<"/">> \o Boot
<1>1. p \in Seq(Chars) /\ Len(p) \in Nat /\ Len(p) > 0 /\ p[1] = "/"
    BY DEF Absolute
<1>2. /\ L \in Nat /\ L > 1 /\ m \in Seq(Chars) /\ Len(m) = L /\ m[1] = "/"
      /\ \A i \in 2..L : m[i] = Boot[i - 1] /\ Boot[i - 1] # "/"
    BY BootIs
<1>3. Abs!BelowBoot(p) <=> /\ L <= Len(p) /\ (\A i \in 2..L : p[i] = Boot[i - 1])
                           /\ L = Len(p) \/ p[L + 1] = "/"
  <2>1. Len(Boot) + 2 = L + 1
      BY BootIs
  <2> QED
      BY <2>1, BelowBootIs
<1> HIDE DEF L, m
<1>4. Covers(m, p) <=> p = m \/ (L <= Len(p) /\ SubSeq(p, 1, L) = m /\ (m[L] = "/" \/ p[L + 1] = "/"))
    BY <1>2, Zenon DEF Covers, StartsWith
<1>5. m[L] # "/"
    BY <1>2
<1>6. ASSUME L <= Len(p) PROVE SubSeq(p, 1, L) = m <=> \A i \in 2..L : p[i] = Boot[i - 1]
  <2>1. SubSeq(p, 1, L) = [i \in 1..L |-> p[i]]
      BY <1>1, <1>2, <1>6
  <2>2. m = [i \in 1..L |-> m[i]]
      BY <1>2
  <2>3. SubSeq(p, 1, L) = m <=> \A i \in 1..L : p[i] = m[i]
      BY <2>1, <2>2
  <2>4. \A i \in 1..L : i = 1 \/ i \in 2..L
      BY <1>2
  <2>5. \A i \in 2..L : i \in 1..L
      BY <1>2
  <2> QED
      BY <1>1, <1>2, <2>3, <2>4, <2>5
<1>7. p = m <=> L = Len(p) /\ SubSeq(p, 1, L) = m
  <2>1. L = Len(p) => SubSeq(p, 1, L) = p
      BY <1>1
  <2> QED
      BY <1>2, <2>1
<1>8. L = Len(p) => L <= Len(p)
    BY <1>1
<1>9. Covers(m, p) <=> Abs!BelowBoot(p)
    BY <1>3, <1>4, <1>5, <1>6, <1>7, <1>8, Zenon
<1> QED
    BY <1>9 DEF m

LEMMA CoversTop ==
    ASSUME NEW p, Absolute(p)
    PROVE  Covers(<<"/">>, p)
<1>1. p \in Seq(Chars) /\ Len(p) \in Nat /\ Len(p) > 0 /\ p[1] = "/"
    BY DEF Absolute
<1>2. Len(<<"/">>) = 1 /\ <<"/">>[1] = "/"
    OBVIOUS
<1>3. SubSeq(p, 1, 1) = <<"/">>
    BY <1>1, OneIs
<1> QED
    BY <1>1, <1>2, <1>3 DEF Covers, StartsWith

\* Where the mount point of a path ends.
Cut(p) == IF Abs!BelowBoot(p) THEN Len(Boot) + 1 ELSE 1

LEMMA TopIs == MountsOK => Top \in Roots
    BY DEF MountsOK, Top

LEMMA ResolveIs ==
    ASSUME NEW p, Absolute(p), MountsOK
    PROVE  /\ ResolveMount(p).root = Abs!Tree(p)
           /\ ResolveMount(p).rest = Rest(p, Cut(p))
<1>1. PICK r \in Roots : mounts = <<[path |-> <<"/">> \o Boot, root |-> RamRoot],
                                    [path |-> <<"/">>, root |-> r]>>
    BY DEF MountsOK
<1>2. /\ DOMAIN mounts = {1, 2} /\ Top = r
      /\ mounts[1].path = <<"/">> \o Boot /\ mounts[1].root = 1
      /\ mounts[2].path = <<"/">> /\ mounts[2].root = r
    BY <1>1 DEF Top, RamRoot
<1> DEFINE P(i) == Covers(mounts[i].path, p) /\ \A j \in 1..(i - 1) : ~Covers(mounts[j].path, p)
           c == CHOOSE i \in DOMAIN mounts : P(i)
<1>3. ResolveMount(p) = [root |-> mounts[c].root, rest |-> SubSeq(p, Len(mounts[c].path) + 1, Len(p))]
    BY Zenon DEF ResolveMount
<1>4. Covers(mounts[1].path, p) <=> Abs!BelowBoot(p)
    BY <1>2, CoversBoot, Zenon
<1>5. Covers(mounts[2].path, p)
    BY <1>2, CoversTop, Zenon
<1>6. P(1) <=> Abs!BelowBoot(p)
  <2>1. 1..(1 - 1) = {}
      OBVIOUS
  <2> QED
      BY <1>4, <2>1, Zenon
<1>7. P(2) <=> ~Abs!BelowBoot(p)
  <2>1. 1..(2 - 1) = {1}
      OBVIOUS
  <2> QED
      BY <1>4, <1>5, <2>1, Zenon
<1> HIDE DEF P
<1>8. c = IF Abs!BelowBoot(p) THEN 1 ELSE 2
  <2>1. 1 \in DOMAIN mounts /\ 2 \in DOMAIN mounts /\ (P(1) \/ P(2))
      BY <1>2, <1>6, <1>7, Zenon
  <2>2. c \in DOMAIN mounts /\ P(c)
      BY <2>1, Zenon
  <2>3. c = 1 \/ c = 2
      BY <1>2, <2>2, Zenon
  <2> HIDE DEF c
  <2> QED
      BY <1>6, <1>7, <2>2, <2>3, Zenon
<1> HIDE DEF c
<1>9. ResolveMount(p).root = mounts[c].root /\ ResolveMount(p).rest = SubSeq(p, Len(mounts[c].path) + 1, Len(p))
    BY <1>3
<1>10. Len(<<"/">> \o Boot) = Len(Boot) + 1 /\ Len(<<"/">>) = 1
    BY BootIs
<1>11. CASE Abs!BelowBoot(p)
    BY <1>2, <1>8, <1>9, <1>10, <1>11, Zenon DEF Abs!Tree, Cut, Rest
<1>12. CASE ~Abs!BelowBoot(p)
    BY <1>2, <1>8, <1>9, <1>10, <1>12, Zenon DEF Abs!Tree, Cut, Rest
<1> QED
    BY <1>11, <1>12

LEMMA CutIs ==
    ASSUME NEW p, Absolute(p)
    PROVE  CutAt(p, Cut(p)) /\ Beyond(p, Cut(p)) = Abs!Below(p)
<1>1. p \in Seq(Chars) /\ Len(p) \in Nat /\ Len(p) > 0 /\ p[1] = "/"
    BY DEF Absolute
<1>2. ASSUME NEW w \in Abs!Words(p) PROVE w[1] \in Nat /\ w[1] > 1
  <2>1. w[1] \in 1..Len(p) /\ w[2] \in 1..Len(p) /\ w[1] <= w[2] /\ \A k \in w[1]..w[2] : p[k] # "/"
      BY <1>1, WordIs
  <2>2. w[1] \in w[1]..w[2]
      BY <2>1
  <2>3. w[1] # 1
      BY <1>1, <2>1, <2>2
  <2> QED
      BY <2>1, <2>3
<1>3. CASE ~Abs!BelowBoot(p)
  <2>1. Cut(p) = 1
      BY <1>3 DEF Cut
  <2>2. CutAt(p, 1)
      BY <1>1 DEF CutAt
  <2>3. Beyond(p, 1) = Abs!Words(p)
      BY <1>2 DEF Beyond
  <2> QED
      BY <1>3, <2>1, <2>2, <2>3 DEF Abs!Below
<1>4. CASE Abs!BelowBoot(p)
  <2> DEFINE L == Len(Boot) + 1
             b == Abs!BootWord
  <2>1. b = <<2, L>> /\ b \in Abs!Words(p) /\ b[1] = 2 /\ b[2] = L
      BY <1>4 DEF Abs!BelowBoot, Abs!BootWord
  <2>2. L \in Nat /\ L > 1
      BY BootIs
  <2>3. L \in 1..Len(p) /\ (L = Len(p) \/ p[L + 1] = "/")
      BY <1>1, <2>1, WordIs
  <2>4. Cut(p) = L
      BY <1>4 DEF Cut
  <2>5. CutAt(p, L)
      BY <2>3 DEF CutAt
  <2> HIDE DEF L, b
  <2>6. ASSUME NEW w \in Abs!Words(p) PROVE w[1] > L <=> w # b
    <3>1. w[1] \in Nat /\ w[1] > 1
        BY <1>2
    <3>2. w = b \/ b[2] < w[1]
      <4>1. b[1] <= w[1]
          BY <2>1, <3>1
      <4> QED
          BY <1>1, <2>1, <4>1, WordsApart, Zenon
    <3>3. w = b => w[1] = 2
        BY <2>1
    <3> QED
        BY <2>1, <2>2, <3>1, <3>2, <3>3
  <2>7. Beyond(p, L) = Abs!Words(p) \ {b}
      BY <2>6, Zenon DEF Beyond
  <2> QED
      BY <1>4, <2>4, <2>5, <2>7 DEF Abs!Below, b
<1> QED
    BY <1>3, <1>4

----------------------------------------------------------------------------
(* The words of a path in order *)

\* The name that a word of p spells.
Name(p, w) == SubSeq(p, w[1], w[2])

\* The words that end within k characters, when g has those that end before.
SpeltStep(p, g, k) ==
    IF k = 0 THEN <<>>
    ELSE IF \E w \in Abs!Below(p) : w[2] = k
    THEN Append(g[k - 1], Name(p, CHOOSE w \in Abs!Below(p) : w[2] = k))
    ELSE g[k - 1]
IsSpelt(p, g, n) == g = [k \in 0..n |-> SpeltStep(p, g, k)]

\* The recursion has a solution, up to every place of the path.
LEMMA SpeltExists ==
    ASSUME Least, NEW p, NEW n \in Nat
    PROVE  \E g : IsSpelt(p, g, n)
<1> DEFINE None == {m \in Nat : ~\E g : IsSpelt(p, g, m)}
<1> SUFFICES ASSUME None # {} PROVE FALSE
    OBVIOUS
<1>1. PICK m \in None : \A y \in None : m <= y
    BY Zenon DEF Least
<1>2. m # 0
  <2> DEFINE g == [k \in 0..0 |-> <<>>]
  <2>1. \A k \in 0..0 : k = 0
      OBVIOUS
  <2>2. g = [k \in 0..0 |-> SpeltStep(p, g, k)]
      BY <2>1, Zenon DEF SpeltStep
  <2> QED
      BY <1>1, <2>2, Zenon DEF IsSpelt
<1>3. m - 1 \in Nat /\ m - 1 \notin None
    BY <1>1, <1>2
<1>4. PICK g : IsSpelt(p, g, m - 1)
    BY <1>3
<1> DEFINE h == [k \in 0..m |-> SpeltStep(p, g, k)]
<1>5. ASSUME NEW k \in 0..m, k # 0 PROVE h[k - 1] = g[k - 1]
  <2>1. k - 1 \in 0..m /\ k - 1 \in 0..(m - 1)
      BY <1>1, <1>5
  <2> QED
      BY <1>4, <2>1, Zenon DEF IsSpelt
<1>6. ASSUME NEW k \in 0..m PROVE SpeltStep(p, h, k) = SpeltStep(p, g, k)
  <2>1. CASE k = 0
      BY <2>1, Zenon DEF SpeltStep
  <2>2. CASE k # 0
    <3>1. h[k - 1] = g[k - 1]
        BY <1>5, <2>2, Zenon
    <3> HIDE DEF h
    <3> QED
        BY <2>2, <3>1, Zenon DEF SpeltStep
  <2> QED
      BY <2>1, <2>2, Zenon
<1>7. h = [k \in 0..m |-> SpeltStep(p, h, k)]
    BY <1>6, Zenon
<1> QED
    BY <1>1, <1>7, Zenon DEF IsSpelt

LEMMA SpeltIs ==
    ASSUME Least, NEW p, Len(p) \in Nat
    PROVE  \E g : IsSpelt(p, g, Len(p)) /\ Abs!Spelt(p) = g[Len(p)]
<1>1. Abs!Spelt(p) = (CHOOSE g : g = [k \in 0..Len(p) |-> SpeltStep(p, g, k)])[Len(p)]
    BY Zenon DEF Abs!Spelt, SpeltStep, Name
<1>2. Abs!Spelt(p) = (CHOOSE g : IsSpelt(p, g, Len(p)))[Len(p)]
    BY <1>1, Zenon DEF IsSpelt
<1>3. \E g : IsSpelt(p, g, Len(p))
    BY SpeltExists, Zenon
<1> QED
    BY <1>2, <1>3, Zenon

LEMMA BelowIs ==
    ASSUME NEW p \in Seq(Chars), NEW w \in Abs!Below(p)
    PROVE  /\ w \in Abs!Words(p) /\ w[1] \in 1..Len(p) /\ w[2] \in 1..Len(p) /\ w[1] <= w[2]
           /\ Name(p, w) \in Seq(Chars)
<1>1. w \in Abs!Words(p)
    BY Zenon DEF Abs!Below
<1>2. w[1] \in 1..Len(p) /\ w[2] \in 1..Len(p) /\ w[1] <= w[2]
    BY <1>1, WordIs, Zenon
<1>3. SubSeq(p, w[1], w[2]) \in Seq(Chars)
    BY <1>2
<1> QED
    BY <1>1, <1>2, <1>3, Zenon DEF Name

\* One word ends at a place, if any.
LEMMA OneEnds ==
    ASSUME NEW p \in Seq(Chars), NEW w \in Abs!Below(p), NEW x \in Abs!Below(p), w[2] = x[2]
    PROVE  w = x
<1>1. /\ w \in Abs!Words(p) /\ w[1] \in 1..Len(p) /\ w[2] \in 1..Len(p) /\ w[1] <= w[2]
      /\ x \in Abs!Words(p) /\ x[1] \in 1..Len(p) /\ x[2] \in 1..Len(p) /\ x[1] <= x[2]
    BY BelowIs, Zenon
<1>2. CASE w[1] <= x[1]
  <2>1. w = x \/ w[2] < x[1]
      BY <1>1, <1>2, WordsApart, Zenon
  <2> QED
      BY <1>1, <2>1
<1>3. CASE x[1] <= w[1]
  <2>1. x = w \/ x[2] < w[1]
      BY <1>1, <1>3, WordsApart, Zenon
  <2> QED
      BY <1>1, <2>1
<1> QED
    BY <1>1, <1>2, <1>3

LEMMA SpeltNext ==
    ASSUME NEW p \in Seq(Chars), NEW s, IsSpelt(p, s, Len(p)), NEW k \in 1..Len(p)
    PROVE  /\ (\A w \in Abs!Below(p) : w[2] # k) => s[k] = s[k - 1]
           /\ \A w \in Abs!Below(p) : w[2] = k => s[k] = Append(s[k - 1], Name(p, w))
<1>1. k \in 0..Len(p) /\ k # 0
    OBVIOUS
<1>2. s[k] = SpeltStep(p, s, k)
    BY <1>1, Zenon DEF IsSpelt
<1>3. (\A w \in Abs!Below(p) : w[2] # k) => s[k] = s[k - 1]
    BY <1>1, <1>2, Zenon DEF SpeltStep
<1>4. ASSUME NEW w \in Abs!Below(p), w[2] = k PROVE s[k] = Append(s[k - 1], Name(p, w))
  <2>1. (CHOOSE x \in Abs!Below(p) : x[2] = k) = w
      BY <1>4, OneEnds, Zenon
  <2> QED
      BY <1>1, <1>2, <1>4, <2>1, Zenon DEF SpeltStep
<1> QED
    BY <1>3, <1>4, Zenon

LEMMA SpeltFirst ==
    ASSUME NEW p \in Seq(Chars), NEW s, IsSpelt(p, s, Len(p))
    PROVE  s[0] = <<>>
<1>1. 0 \in 0..Len(p)
    OBVIOUS
<1> QED
    BY <1>1, Zenon DEF IsSpelt, SpeltStep

LEMMA SpeltType ==
    ASSUME Least, NEW p \in Seq(Chars), NEW s, IsSpelt(p, s, Len(p)), NEW j \in 0..Len(p)
    PROVE  s[j] \in Seq(Seq(Chars))
<1> DEFINE Out == {k \in 0..Len(p) : s[k] \notin Seq(Seq(Chars))}
<1> SUFFICES ASSUME Out # {} PROVE FALSE
    OBVIOUS
<1>1. Out \subseteq Nat
    OBVIOUS
<1>2. PICK k \in Out : \A y \in Out : k <= y
    BY <1>1, Zenon DEF Least
<1>3. k # 0
  <2>1. s[0] = <<>>
      BY SpeltFirst, Zenon
  <2>2. <<>> \in Seq(Seq(Chars))
      OBVIOUS
  <2> QED
      BY <1>2, <2>1, <2>2, Zenon
<1>4. k \in 1..Len(p) /\ k - 1 \in 0..Len(p) /\ ~(k <= k - 1)
    BY <1>2, <1>3
<1>5. s[k - 1] \in Seq(Seq(Chars))
    BY <1>2, <1>4, Zenon
<1>6. CASE \A w \in Abs!Below(p) : w[2] # k
    BY <1>2, <1>4, <1>5, <1>6, SpeltNext, ZenonT(60)
<1>7. ASSUME NEW w \in Abs!Below(p), w[2] = k PROVE FALSE
  <2>1. s[k] = Append(s[k - 1], Name(p, w))
    <3>1. \A x \in Abs!Below(p) : x[2] = k => s[k] = Append(s[k - 1], Name(p, x))
        BY <1>4, SpeltNext, ZenonT(60)
    <3> QED
        BY <1>7, <3>1, Zenon
  <2>2. Name(p, w) \in Seq(Chars)
      BY BelowIs, Zenon
  <2>3. s[k] \in Seq(Seq(Chars))
      BY <1>5, <2>1, <2>2
  <2> QED
      BY <1>2, <2>3, Zenon
<1> QED
    BY <1>6, <1>7, Zenon

\* Where no word ends, none is added.
LEMMA SpeltSame ==
    ASSUME Least, NEW p \in Seq(Chars), NEW s, IsSpelt(p, s, Len(p)),
           NEW a \in 0..Len(p), NEW b \in a..Len(p),
           \A w \in Abs!Below(p) : ~(a < w[2] /\ w[2] <= b)
    PROVE  s[b] = s[a]
<1> DEFINE Out == {k \in a..b : s[k] # s[a]}
<1> SUFFICES ASSUME Out # {} PROVE FALSE
  <2>1. b \in a..b
      OBVIOUS
  <2> QED
      BY <2>1, Zenon
<1>1. Out \subseteq Nat
    OBVIOUS
<1>2. PICK k \in Out : \A y \in Out : k <= y
    BY <1>1, Zenon DEF Least
<1>3. k \in 1..Len(p) /\ k - 1 \in a..b /\ ~(k <= k - 1) /\ a < k /\ k <= b
    BY <1>2
<1>4. s[k - 1] = s[a]
    BY <1>2, <1>3, Zenon
<1>5. \A w \in Abs!Below(p) : w[2] # k
    BY <1>3, Zenon
<1>6. s[k] = s[k - 1]
    BY <1>3, <1>5, SpeltNext, Zenon
<1> QED
    BY <1>2, <1>4, <1>6, Zenon

----------------------------------------------------------------------------
(* What a path leads to *)

Kids == UNION {[S -> Nat] : S \in SUBSET Seq(Chars)}
Inode == [fs : Roots, kind : {"dir", "file"}, data : Seq(Nat), children : Kids,
          words : Seq(Seq(Chars))]

\* The inodes are two trees, in which a name is that of one inode.
Table(t) ==
    /\ t \in Seq(Inode) /\ Len(t) >= 2
    /\ \A r \in Roots : t[r].kind = "dir" /\ t[r].fs = r /\ t[r].words = <<>>
    /\ \A n \in DOMAIN t : t[n].kind = "dir" => t[n].data = <<>>
    /\ \A m, n \in DOMAIN t : t[m].fs = t[n].fs /\ t[m].words = t[n].words => m = n
    /\ \A n \in DOMAIN t : \A word \in DOMAIN t[n].children :
          /\ t[n].children[word] \in DOMAIN t
          /\ t[t[n].children[word]].fs = t[n].fs
          /\ t[t[n].children[word]].words = Append(t[n].words, word)
    /\ \A n \in DOMAIN t \ Roots : \E d \in DOMAIN t :
          t[d].kind = "dir" /\ \E word \in DOMAIN t[d].children : t[d].children[word] = n

NodesOK == Table(inodes)

LEMMA RootsAre == Roots = {1, 2} /\ RamRoot = 1 /\ PondRoot = 2
    BY DEF Roots, RamRoot, PondRoot

LEMMA TableIs ==
    ASSUME NEW t, Table(t)
    PROVE  /\ t \in Seq(Inode) /\ Len(t) \in Nat /\ Len(t) >= 2 /\ DOMAIN t = 1..Len(t)
           /\ \A n \in 1..Len(t) : /\ t[n] \in Inode /\ t[n].data \in Seq(Nat)
                                   /\ t[n].kind \in {"dir", "file"} /\ t[n].fs \in Roots
                                   /\ t[n].words \in Seq(Seq(Chars))
                                   /\ DOMAIN t[n].children \subseteq Seq(Chars)
           /\ \A d \in Roots : d \in 1..Len(t)
<1>1. t \in Seq(Inode) /\ Len(t) \in Nat /\ Len(t) >= 2 /\ DOMAIN t = 1..Len(t)
    BY DEF Table
<1>2. ASSUME NEW n \in 1..Len(t)
      PROVE  /\ t[n] \in Inode /\ t[n].data \in Seq(Nat)
             /\ t[n].kind \in {"dir", "file"} /\ t[n].fs \in Roots
             /\ t[n].words \in Seq(Seq(Chars))
             /\ DOMAIN t[n].children \subseteq Seq(Chars)
  <2>1. t[n] \in Inode
      BY <1>1
  <2>2. /\ t[n].kind \in {"dir", "file"} /\ t[n].data \in Seq(Nat) /\ t[n].fs \in Roots
        /\ t[n].words \in Seq(Seq(Chars)) /\ t[n].children \in Kids
      BY <2>1 DEF Inode
  <2>3. PICK S \in SUBSET Seq(Chars) : t[n].children \in [S -> Nat]
      BY <2>2, Zenon DEF Kids
  <2>4. DOMAIN t[n].children \subseteq Seq(Chars)
      BY <2>3
  <2> QED
      BY <2>1, <2>2, <2>4, Zenon
<1>3. \A d \in Roots : d \in 1..Len(t)
    BY <1>1, RootsAre
<1> QED
    BY <1>1, <1>2, <1>3, Zenon

LEMMA AppendIs ==
    ASSUME NEW S, NEW s \in Seq(S), NEW a \in S
    PROVE  /\ Append(s, a) \in Seq(S) /\ Append(s, a) # <<>>
           /\ SubSeq(Append(s, a), 1, Len(Append(s, a)) - 1) = s
           /\ \A r \in Seq(S), b \in S : Append(r, b) = Append(s, a) => r = s /\ b = a
<1>0. /\ Append(s, a) \in Seq(S) /\ Len(Append(s, a)) = Len(s) + 1
      /\ \A i \in 1..Len(s) : Append(s, a)[i] = s[i]
    OBVIOUS
<1>1. /\ Append(s, a) \in Seq(S) /\ Append(s, a) # <<>> /\ Len(Append(s, a)) = Len(s) + 1
      /\ \A i \in 1..Len(s) : Append(s, a)[i] = s[i]
  <2>1. Len(s) + 1 # 0 /\ Len(<<>>) = 0
      OBVIOUS
  <2> QED
      BY <1>0, <2>1, Zenon
<1>2. SubSeq(Append(s, a), 1, Len(Append(s, a)) - 1) = s
  <2>1. SubSeq(Append(s, a), 1, Len(Append(s, a)) - 1) = [i \in 1..Len(s) |-> Append(s, a)[i]]
      BY <1>1
  <2>2. s = [i \in 1..Len(s) |-> s[i]]
      OBVIOUS
  <2> QED
      BY <1>1, <2>1, <2>2, Zenon
<1>3. ASSUME NEW r \in Seq(S), NEW b \in S, Append(r, b) = Append(s, a) PROVE r = s /\ b = a
  <2>1. /\ Len(Append(r, b)) = Len(r) + 1 /\ \A i \in 1..Len(r) : Append(r, b)[i] = r[i]
        /\ Append(r, b)[Len(r) + 1] = b /\ Append(s, a)[Len(s) + 1] = a
      OBVIOUS
  <2>2. Len(r) = Len(s)
      BY <1>1, <1>3, <2>1
  <2>3. \A i \in 1..Len(s) : r[i] = s[i]
      BY <1>1, <1>3, <2>1, <2>2
  <2>4. r = s
    <3>1. s = [i \in 1..Len(s) |-> s[i]] /\ r = [i \in 1..Len(r) |-> r[i]]
        OBVIOUS
    <3> QED
        BY <2>2, <2>3, <3>1, Zenon
  <2> QED
      BY <1>3, <2>1, <2>2, <2>4, Zenon
<1> QED
    BY <1>1, <1>2, <1>3, Zenon

LEMMA LinkIs ==
    ASSUME NEW t, Table(t), NEW d \in DOMAIN t, NEW word \in DOMAIN t[d].children
    PROVE  /\ t[d].children[word] \in DOMAIN t
           /\ t[t[d].children[word]].fs = t[d].fs
           /\ t[t[d].children[word]].words = Append(t[d].words, word)
    BY DEF Table

\* An inode is an entry of the directory whose name is the same without the last word.
LEMMA EntryIs ==
    ASSUME NEW t, Table(t), NEW n \in DOMAIN t, NEW words \in Seq(Seq(Chars)),
           NEW word \in Seq(Chars), t[n].words = Append(words, word)
    PROVE  \E d \in DOMAIN t : /\ t[d].fs = t[n].fs /\ t[d].words = words /\ t[d].kind = "dir"
                              /\ word \in DOMAIN t[d].children /\ t[d].children[word] = n
<1>1. /\ DOMAIN t = 1..Len(t)
      /\ \A m \in 1..Len(t) : t[m].words \in Seq(Seq(Chars)) /\ DOMAIN t[m].children \subseteq Seq(Chars)
    BY TableIs, Zenon
<1>2. /\ Append(words, word) # <<>>
      /\ \A r \in Seq(Seq(Chars)), b \in Seq(Chars) :
            Append(r, b) = Append(words, word) => r = words /\ b = word
    BY AppendIs
<1>3. n \notin Roots
    BY <1>2, Zenon DEF Table
<1>4. PICK d \in DOMAIN t : t[d].kind = "dir" /\ \E w \in DOMAIN t[d].children : t[d].children[w] = n
    BY <1>3, Zenon DEF Table
<1>5. PICK w \in DOMAIN t[d].children : t[d].children[w] = n
    BY <1>4, Zenon
<1>6. t[n].fs = t[d].fs /\ t[n].words = Append(t[d].words, w)
  <2>1. /\ t[t[d].children[w]].fs = t[d].fs
        /\ t[t[d].children[w]].words = Append(t[d].words, w)
      BY <1>4, <1>5, LinkIs, Zenon
  <2> QED
      BY <1>5, <2>1, Zenon
<1>7. t[d].words \in Seq(Seq(Chars)) /\ w \in Seq(Chars)
    BY <1>1, <1>4, <1>5, Zenon
<1>8. t[d].words = words /\ w = word
    BY <1>2, <1>6, <1>7, Zenon
<1> QED
    BY <1>4, <1>5, <1>6, <1>8, Zenon

\* What lookup returns for the name f: its inode, or an error if there is none.
Holds(f) == \E n \in DOMAIN inodes : NameIn(inodes, n) = f
Leads(node, f) ==
    \/ node \in DOMAIN inodes /\ NameIn(inodes, node) = f
    \/ node = NotFound /\ ~Holds(f)
    \/ /\ node = NotDir /\ ~Holds(f) /\ f[2] # <<>>
       /\ \A d \in DOMAIN inodes : NameIn(inodes, d) = Abs!ParentOf(f) => inodes[d].kind # "dir"

LEMMA ChildIs ==
    ASSUME NEW r, NEW words \in Seq(Seq(Chars)), NEW word \in Seq(Chars)
    PROVE  LET f == Child(<<r, words>>, word)
           IN  /\ f = <<r, Append(words, word)>> /\ f[1] = r /\ f[2] = Append(words, word)
               /\ f[2] # <<>> /\ f[2] \in Seq(Seq(Chars)) /\ Abs!ParentOf(f) = <<r, words>>
<1> DEFINE f == Child(<<r, words>>, word)
<1>1. f = <<r, Append(words, word)>> /\ f[1] = r /\ f[2] = Append(words, word)
    BY DEF Child
<1>2. /\ Append(words, word) \in Seq(Seq(Chars)) /\ Append(words, word) # <<>>
      /\ SubSeq(Append(words, word), 1, Len(Append(words, word)) - 1) = words
    BY AppendIs, Zenon
<1> HIDE DEF f
<1>3. Abs!ParentOf(f) = <<r, words>>
    BY <1>1, <1>2, Zenon DEF Abs!ParentOf
<1>4. f[2] # <<>> /\ f[2] \in Seq(Seq(Chars))
    BY <1>1, <1>2, Zenon
<1> QED
    BY <1>1, <1>3, <1>4, Zenon DEF f

\* One component of a path is one more word of a name.
LEMMA StepIs ==
    ASSUME NodesOK, NEW r, NEW words \in Seq(Seq(Chars)), NEW word \in Seq(Chars), NEW node,
           Leads(node, <<r, words>>)
    PROVE  Leads(LookupChild(node, word), <<r, Append(words, word)>>)
<1> DEFINE f == <<r, words>>
           g == <<r, Append(words, word)>>
           next == LookupChild(node, word)
<1>1. g[2] # <<>> /\ Abs!ParentOf(g) = f
    BY ChildIs, Zenon DEF Child
<1>2. DOMAIN inodes = 1..Len(inodes) /\ Len(inodes) \in Nat
    BY TableIs, Zenon DEF NodesOK
<1>3. ASSUME NEW n \in DOMAIN inodes, NameIn(inodes, n) = g
      PROVE  \E d \in DOMAIN inodes : /\ NameIn(inodes, d) = f /\ inodes[d].kind = "dir"
                                      /\ word \in DOMAIN inodes[d].children
                                      /\ inodes[d].children[word] = n
  <2>1. inodes[n].fs = r /\ inodes[n].words = Append(words, word)
      BY <1>3 DEF NameIn
  <2>2. PICK d \in DOMAIN inodes :
            /\ inodes[d].fs = inodes[n].fs /\ inodes[d].words = words /\ inodes[d].kind = "dir"
            /\ word \in DOMAIN inodes[d].children /\ inodes[d].children[word] = n
    <3>1. Table(inodes)
        BY DEF NodesOK
    <3> QED
        BY <2>1, <3>1, EntryIs
  <2>3. NameIn(inodes, d) = f
      BY <2>1, <2>2 DEF NameIn
  <2> QED
      BY <2>2, <2>3, Zenon
<1> HIDE DEF g
<1>4. CASE node \in DOMAIN inodes /\ NameIn(inodes, node) = f
  <2>1. ~(node < 0)
      BY <1>2, <1>4
  <2>2. ASSUME NEW d \in DOMAIN inodes, NameIn(inodes, d) = f PROVE d = node
    <3>1. inodes[d].fs = inodes[node].fs /\ inodes[d].words = inodes[node].words
        BY <1>4, <2>2 DEF NameIn
    <3> QED
        BY <1>4, <2>2, <3>1, Zenon DEF NodesOK, Table
  <2>3. CASE inodes[node].kind # "dir"
    <3>1. next = NotDir
        BY <2>1, <2>3, Zenon DEF LookupChild
    <3>2. ~Holds(g)
        BY <1>3, <2>2, <2>3, Zenon DEF Holds
    <3> HIDE DEF next
    <3> QED
        BY <1>1, <2>2, <2>3, <3>1, <3>2, Zenon DEF Leads, g, next
  <2>4. CASE inodes[node].kind = "dir" /\ word \notin DOMAIN inodes[node].children
    <3>1. next = NotFound
        BY <2>1, <2>4, Zenon DEF LookupChild
    <3>2. ~Holds(g)
        BY <1>3, <2>2, <2>4, Zenon DEF Holds
    <3> HIDE DEF next
    <3> QED
        BY <3>1, <3>2, Zenon DEF Leads, g, next
  <2>5. CASE inodes[node].kind = "dir" /\ word \in DOMAIN inodes[node].children
    <3>1. next = inodes[node].children[word]
        BY <2>1, <2>5, Zenon DEF LookupChild
    <3>2. /\ next \in DOMAIN inodes /\ inodes[next].fs = inodes[node].fs
          /\ inodes[next].words = Append(inodes[node].words, word)
      <4> DEFINE child == inodes[node].children[word]
      <4>1. /\ child \in DOMAIN inodes /\ inodes[child].fs = inodes[node].fs
            /\ inodes[child].words = Append(inodes[node].words, word)
          BY <1>4, <2>5, LinkIs DEF NodesOK
      <4> HIDE DEF next
      <4> QED
          BY <3>1, <4>1
    <3>3. NameIn(inodes, next) = g
      <4>1. inodes[node].fs = r /\ inodes[node].words = words
          BY <1>4 DEF NameIn
      <4> HIDE DEF next
      <4> QED
          BY <3>2, <4>1 DEF NameIn, g
    <3> HIDE DEF next
    <3> QED
        BY <3>2, <3>3, Zenon DEF Leads, g, next
  <2> QED
      BY <2>3, <2>4, <2>5, Zenon
<1>5. ASSUME node = NotFound \/ node = NotDir, ~Holds(f)
      PROVE  Leads(next, g)
  <2>1. ~Holds(g)
      BY <1>3, <1>5, Zenon DEF Holds
  <2>2. next = node
    <3>1. NotFound < 0 /\ NotDir < 0
        BY DEF NotFound, NotDir
    <3> QED
        BY <1>5, <3>1, Zenon DEF LookupChild
  <2>3. \A d \in DOMAIN inodes : NameIn(inodes, d) # f
      BY <1>5, Zenon DEF Holds
  <2> HIDE DEF next
  <2> QED
      BY <1>1, <1>5, <2>1, <2>2, <2>3, Zenon DEF Leads
<1> QED
    BY <1>4, <1>5, Zenon DEF Leads, g

\* lookup finds what the path names.
LEMMA LookupIs ==
    ASSUME Least, MountsOK, NodesOK, NEW p, Absolute(p)
    PROVE  /\ Leads(LookupPath(p), Abs!FileOf(p))
           /\ Abs!FileOf(p) = <<Abs!Tree(p), Abs!Spelt(p)>>
           /\ Abs!Tree(p) \in Roots /\ Abs!Spelt(p) \in Seq(Seq(Chars))
<1> DEFINE d == Abs!Tree(p)
           o == Cut(p)
           rest == Rest(p, o)
           N == Len(rest) + 1
<1>1. d \in Roots
    BY TopIs DEF Abs!Tree, Roots, RamRoot
<1>2. LookupPath(p) = Walk(d, rest)
    BY ResolveIs, Zenon DEF LookupPath, Absolute
<1>3. /\ CutAt(p, o) /\ Beyond(p, o) = Abs!Below(p) /\ p \in Seq(Chars)
    BY CutIs, Zenon DEF Absolute
<1>4. o \in 1..Len(p) /\ Len(p) \in Nat
    BY <1>3 DEF CutAt
<1>5. rest \in Seq(Chars) /\ Len(rest) = Len(p) - o
    BY <1>3, <1>4, RestIs, Zenon
<1>6. Len(rest) \in Nat /\ N \in Nat /\ N >= 1 /\ N <= Len(rest) + 1 /\ o + N - 1 = Len(p)
    BY <1>4, <1>5
<1>7. PICK g : IsWalk(d, rest, g, N) /\ Walk(d, rest) = g[N]
    BY <1>6, WalkIs, Zenon
<1>8. PICK s : IsSpelt(p, s, Len(p)) /\ Abs!Spelt(p) = s[Len(p)]
    BY <1>4, SpeltIs, Zenon
<1>9. ASSUME NEW k \in 1..N, EndsAt(rest, k)
      PROVE  \E w \in Abs!Below(p) : w[2] = o + k - 1 /\ Component(rest, k) = Name(p, w)
    BY <1>3, <1>9, EndIsWord, Zenon DEF Name
<1>10. ASSUME NEW w \in Abs!Below(p)
       PROVE  /\ w[2] \in Nat /\ w[2] > o
              /\ w[2] - o + 1 \in 1..N /\ EndsAt(rest, w[2] - o + 1)
  <2>1. w[2] - o + 1 \in 1..N /\ EndsAt(rest, w[2] - o + 1)
      BY <1>3, WordIsEnd, Zenon
  <2>2. w[1] \in 1..Len(p) /\ w[2] \in 1..Len(p) /\ w[1] <= w[2]
      BY <1>3, BelowIs, Zenon
  <2>3. w[1] > o
      BY <1>3, Zenon DEF Beyond
  <2> QED
      BY <1>4, <2>1, <2>2, <2>3
<1> HIDE DEF d, o, rest, N
<1>11. s[o] = <<>>
  <2>1. 0 \in 0..Len(p) /\ o \in 0..Len(p)
      BY <1>4
  <2>2. \A w \in Abs!Below(p) : ~(0 < w[2] /\ w[2] <= o)
      BY <1>4, <1>10
  <2>3. s[o] = s[0]
      BY <1>3, <1>8, <2>1, <2>2, SpeltSame, Zenon
  <2> QED
      BY <1>3, <1>8, <2>3, SpeltFirst, Zenon
<1>12. g[0] = d /\ g[1] = d
  <2>1. 0 \in 0..N /\ 1 \in 1..N /\ 1 - 1 = 0
      BY <1>6
  <2>2. g[0] = d
      BY <1>7, <2>1, Zenon DEF IsWalk, WalkStep
  <2>3. ~EndsAt(rest, 1)
      BY DEF EndsAt
  <2> QED
    <3>1. g[1] = IF EndsAt(rest, 1) THEN LookupChild(g[1 - 1], Component(rest, 1)) ELSE g[1 - 1]
        BY <1>5, <1>6, <1>7, <2>1, WalkNext, ZenonT(60)
    <3> QED
        BY <2>1, <2>2, <2>3, <3>1, Zenon
<1> DEFINE At(k) == Leads(g[k], <<d, s[o + k - 1]>>)
           Out == {k \in 1..N : ~At(k)}
<1>13. At(1)
  <2>1. o + 1 - 1 = o
      BY <1>4
  <2>2. d \in DOMAIN inodes /\ NameIn(inodes, d) = <<d, <<>>>>
    <3>1. d \in DOMAIN inodes
        BY <1>1, TableIs, Zenon DEF NodesOK
    <3>2. inodes[d].fs = d /\ inodes[d].words = <<>>
        BY <1>1, Zenon DEF NodesOK, Table
    <3> QED
        BY <3>1, <3>2 DEF NameIn
  <2> QED
      BY <1>11, <1>12, <2>1, <2>2, Zenon DEF Leads
<1>14. Out = {}
  <2> SUFFICES ASSUME Out # {} PROVE FALSE
      OBVIOUS
  <2>1. Out \subseteq Nat
      OBVIOUS
  <2>2. PICK k \in Out : \A y \in Out : k <= y
      BY <2>1, Zenon DEF Least
  <2>3. k \in 1..N /\ k # 1 /\ ~At(k)
      BY <1>13, <2>2, Zenon
  <2>4. /\ k - 1 \in 1..N /\ ~(k <= k - 1) /\ o + k - 1 \in 1..Len(p)
        /\ o + (k - 1) - 1 = (o + k - 1) - 1 /\ (o + k - 1) - 1 \in 0..Len(p)
      BY <1>4, <1>6, <2>3
  <2> DEFINE j == o + k - 1
  <2>5. Leads(g[k - 1], <<d, s[j - 1]>>)
    <3>1. At(k - 1)
        BY <2>2, <2>4, Zenon
    <3> QED
        BY <2>4, <3>1, Zenon
  <2>6. s[j - 1] \in Seq(Seq(Chars))
      BY <1>3, <1>8, <2>4, SpeltType, Zenon
  <2>7. g[k] = IF EndsAt(rest, k) THEN LookupChild(g[k - 1], Component(rest, k)) ELSE g[k - 1]
      BY <1>5, <1>6, <1>7, <2>3, WalkNext, Zenon
  <2>8. CASE EndsAt(rest, k)
    <3>1. PICK w \in Abs!Below(p) : w[2] = j /\ Component(rest, k) = Name(p, w)
        BY <1>9, <2>3, <2>8, Zenon
    <3>2. Name(p, w) \in Seq(Chars)
        BY <1>3, BelowIs, Zenon
    <3>3. s[j] = Append(s[j - 1], Name(p, w))
      <4>1. \A x \in Abs!Below(p) : x[2] = j => s[j] = Append(s[j - 1], Name(p, x))
          BY <1>3, <1>8, <2>4, SpeltNext, Zenon
      <4> QED
          BY <3>1, <4>1, Zenon
    <3>4. Leads(LookupChild(g[k - 1], Name(p, w)), <<d, Append(s[j - 1], Name(p, w))>>)
        BY <2>5, <2>6, <3>2, StepIs, Zenon
    <3> QED
        BY <2>3, <2>7, <2>8, <3>1, <3>3, <3>4, Zenon
  <2>9. CASE ~EndsAt(rest, k)
    <3>1. \A w \in Abs!Below(p) : w[2] # j
      <4>1. j - o + 1 = k
          BY <1>4, <2>3
      <4> QED
          BY <1>10, <2>9, <4>1, Zenon
    <3>2. s[j] = s[j - 1]
        BY <1>3, <1>8, <2>4, <3>1, SpeltNext, Zenon
    <3> QED
        BY <2>3, <2>5, <2>7, <2>9, <3>2, Zenon
  <2> QED
      BY <2>8, <2>9, Zenon
<1>15. Leads(LookupPath(p), <<d, Abs!Spelt(p)>>)
  <2>1. N \in 1..N
      BY <1>6
  <2>2. At(N)
      BY <1>14, <2>1, Zenon
  <2> QED
      BY <1>2, <1>6, <1>7, <1>8, <2>2, Zenon
<1>16. Abs!Spelt(p) \in Seq(Seq(Chars))
  <2>1. Len(p) \in 0..Len(p)
      BY <1>4
  <2> QED
      BY <1>3, <1>8, <2>1, SpeltType, Zenon
<1> QED
    BY <1>1, <1>15, <1>16, Zenon DEF d, Abs!FileOf

----------------------------------------------------------------------------
(* The parent of a path *)

\* The words of a path that ends before a slash of p.
LEMMA WordsBefore ==
    ASSUME NEW p \in Seq(Chars), NEW c \in 1..(Len(p) - 1), p[c + 1] = "/"
    PROVE  /\ SubSeq(p, 1, c) \in Seq(Chars) /\ Len(SubSeq(p, 1, c)) = c
           /\ \A k \in 1..c : SubSeq(p, 1, c)[k] = p[k]
           /\ Abs!Words(SubSeq(p, 1, c)) = {x \in Abs!Words(p) : x[2] <= c}
<1> DEFINE q == SubSeq(p, 1, c)
<1>1. Len(p) \in Nat /\ c \in Nat /\ c >= 1 /\ c < Len(p)
    OBVIOUS
<1>2. q \in Seq(Chars) /\ Len(q) = c /\ \A k \in 1..c : q[k] = p[k]
    BY <1>1
<1> HIDE DEF q
<1>3. ASSUME NEW x PROVE x \in Abs!Words(q) <=> x \in Abs!Words(p) /\ x[2] <= c
  <2>1. x \in Abs!Words(q) <=>
              /\ x = <<x[1], x[2]>> /\ x[1] \in 1..c /\ x[2] \in 1..c /\ x[1] <= x[2]
              /\ \A k \in x[1]..x[2] : q[k] # "/"
              /\ x[1] = 1 \/ q[x[1] - 1] = "/"
              /\ x[2] = c \/ q[x[2] + 1] = "/"
      BY <1>2, WordIs, Zenon
  <2>2. x \in Abs!Words(p) <=>
              /\ x = <<x[1], x[2]>> /\ x[1] \in 1..Len(p) /\ x[2] \in 1..Len(p) /\ x[1] <= x[2]
              /\ \A k \in x[1]..x[2] : p[k] # "/"
              /\ x[1] = 1 \/ p[x[1] - 1] = "/"
              /\ x[2] = Len(p) \/ p[x[2] + 1] = "/"
      BY WordIs
  <2>3. ASSUME x[1] \in 1..c, x[2] \in 1..c
        PROVE  /\ (\A k \in x[1]..x[2] : q[k] # "/") <=> (\A k \in x[1]..x[2] : p[k] # "/")
               /\ (x[1] = 1 \/ q[x[1] - 1] = "/") <=> (x[1] = 1 \/ p[x[1] - 1] = "/")
               /\ (x[2] = c \/ q[x[2] + 1] = "/") <=> (x[2] = Len(p) \/ p[x[2] + 1] = "/")
    <3>1. \A k \in x[1]..x[2] : k \in 1..c
        BY <1>1, <2>3
    <3>2. x[1] = 1 \/ x[1] - 1 \in 1..c
        BY <1>1, <2>3
    <3>3. x[2] # Len(p) /\ (x[2] = c \/ x[2] + 1 \in 1..c) /\ x[2] \in Nat
        BY <1>1, <2>3
    <3>4. (\A k \in x[1]..x[2] : q[k] # "/") <=> (\A k \in x[1]..x[2] : p[k] # "/")
        BY <1>2, <3>1, Zenon
    <3>5. (x[1] = 1 \/ q[x[1] - 1] = "/") <=> (x[1] = 1 \/ p[x[1] - 1] = "/")
        BY <1>2, <3>2, Zenon
    <3>6. (x[2] = c \/ q[x[2] + 1] = "/") <=> (x[2] = Len(p) \/ p[x[2] + 1] = "/")
      <4>1. CASE x[2] = c
          BY <4>1, Zenon
      <4>2. CASE x[2] # c
        <5>1. x[2] + 1 \in 1..c
            BY <3>3, <4>2, Zenon
        <5>2. q[x[2] + 1] = p[x[2] + 1]
            BY <1>2, <5>1, Zenon
        <5> QED
            BY <3>3, <4>2, <5>2, Zenon
      <4> QED
          BY <4>1, <4>2, Zenon
    <3> QED
        BY <3>4, <3>5, <3>6, Zenon
  <2>4. x[1] \in 1..Len(p) /\ x[2] \in 1..Len(p) /\ x[1] <= x[2] /\ x[2] <= c => x[1] \in 1..c /\ x[2] \in 1..c
      BY <1>1
  <2>5. x[1] \in 1..c /\ x[2] \in 1..c => x[1] \in 1..Len(p) /\ x[2] \in 1..Len(p) /\ x[2] <= c
      BY <1>1
  <2> QED
      BY <2>1, <2>2, <2>3, <2>4, <2>5, Zenon
<1>4. Abs!Words(q) = {x \in Abs!Words(p) : x[2] <= c}
    BY <1>3, Zenon
<1> QED
    BY <1>2, <1>4, Zenon DEF q

LEMMA SlashAt ==
    ASSUME NEW p, Absolute(p), NEW i \in 1..Len(p), p[i] = "/", \A j \in (i + 1)..Len(p) : p[j] # "/"
    PROVE  /\ SplitParent(p).parent = IF i = 1 THEN <<"/">> ELSE SubSeq(p, 1, i - 1)
           /\ SplitParent(p).name = SubSeq(p, i + 1, Len(p))
<1> DEFINE P(x) == p[x] = "/" /\ \A j \in (x + 1)..Len(p) : p[j] # "/"
           c == CHOOSE x \in DOMAIN p : P(x)
<1>1. DOMAIN p = 1..Len(p) /\ Len(p) \in Nat
    BY DEF Absolute
<1>2. ASSUME NEW x \in DOMAIN p, P(x) PROVE x = i
  <2>1. x < i => i \in (x + 1)..Len(p)
      BY <1>1
  <2>2. i < x => x \in (i + 1)..Len(p)
      BY <1>1
  <2>3. ~(x < i) /\ ~(i < x)
      BY <1>2, <2>1, <2>2
  <2> QED
      BY <1>1, <2>3
<1>3. P(i) /\ i \in DOMAIN p
    BY <1>1
<1> HIDE DEF P
<1>4. c = i
    BY <1>2, <1>3, Zenon
<1>5. SplitParent(p) = [parent |-> IF c = 1 THEN <<"/">> ELSE SubSeq(p, 1, c - 1),
                        name   |-> SubSeq(p, c + 1, Len(p))]
    BY Zenon DEF SplitParent, P
<1> HIDE DEF c
<1> QED
    BY <1>4, <1>5

LEMMA LastSlashOf ==
    ASSUME Least, NEW p, Absolute(p)
    PROVE  \E i \in 1..Len(p) : p[i] = "/" /\ \A j \in (i + 1)..Len(p) : p[j] # "/"
<1>1. p \in Seq(Chars) /\ Len(p) \in Nat /\ Len(p) > 0 /\ p[1] = "/"
    BY DEF Absolute
<1>2. Len(p) + 1 \in 1..(Len(p) + 1)
    BY <1>1
<1>3. PICK b \in 0..((Len(p) + 1) - 1) : /\ b = 0 \/ p[b] = "/"
                                         /\ \A c \in (b + 1)..((Len(p) + 1) - 1) : p[c] # "/"
    BY <1>1, <1>2, LastSlash, Zenon
<1>4. (Len(p) + 1) - 1 = Len(p)
    BY <1>1
<1>5. b # 0
  <2>1. b = 0 => 1 \in (b + 1)..Len(p)
      BY <1>1
  <2> QED
      BY <1>1, <1>3, <1>4, <2>1
<1> QED
    BY <1>1, <1>3, <1>4, <1>5

LEMMA NameBefore ==
    ASSUME NEW p \in Seq(Chars), NEW c \in 1..Len(p), NEW a \in 1..c, NEW b \in a..c
    PROVE  SubSeq(SubSeq(p, 1, c), a, b) = SubSeq(p, a, b)
<1> DEFINE q == SubSeq(p, 1, c)
<1>1. q \in Seq(Chars) /\ Len(q) = c /\ \A k \in 1..c : q[k] = p[k]
    OBVIOUS
<1> HIDE DEF q
<1>2. SubSeq(q, a, b) = [k \in 1..(b - a + 1) |-> q[a + k - 1]]
    BY <1>1
<1>3. SubSeq(p, a, b) = [k \in 1..(b - a + 1) |-> p[a + k - 1]]
    OBVIOUS
<1>4. \A k \in 1..(b - a + 1) : a + k - 1 \in 1..c
    OBVIOUS
<1>5. SubSeq(q, a, b) = SubSeq(p, a, b)
    BY <1>1, <1>2, <1>3, <1>4, Zenon
<1> QED
    BY <1>5 DEF q

LEMMA NoWords == Abs!Words(<<"/">>) = {}
<1>1. <<"/">> \in Seq(Chars) /\ Len(<<"/">>) = 1
  <2>1. "/" \in Chars
      BY DEF Chars
  <2> QED
      BY <2>1, OneIn, Zenon
<1>2. ASSUME NEW w \in Abs!Words(<<"/">>) PROVE FALSE
  <2>1. w[1] \in 1..1 /\ w[2] \in 1..1 /\ \A k \in w[1]..w[2] : <<"/">>[k] # "/"
      BY <1>1, WordIs, Zenon
  <2>2. 1 \in w[1]..w[2]
      BY <2>1
  <2> QED
      BY <2>1, <2>2
<1> QED
    BY <1>2, Zenon

\* The last word of a path that does not end in a slash, all others before it.
LEMMA LastWord ==
    ASSUME NEW p, Absolute(p), p[Len(p)] # "/",
           NEW i \in 1..Len(p), p[i] = "/", \A j \in (i + 1)..Len(p) : p[j] # "/"
    PROVE  /\ i < Len(p)
           /\ <<i + 1, Len(p)>> \in Abs!Words(p)
           /\ \A y \in Abs!Words(p) : y # <<i + 1, Len(p)>> => y[2] \in Nat /\ y[2] <= i - 1
<1> DEFINE x == <<i + 1, Len(p)>>
<1>1. p \in Seq(Chars) /\ Len(p) \in Nat
    BY DEF Absolute
<1>2. i < Len(p)
    BY <1>1
<1>3. x[1] = i + 1 /\ x[2] = Len(p) /\ x = <<x[1], x[2]>>
    OBVIOUS
<1> HIDE DEF x
<1>4. x \in Abs!Words(p)
  <2>1. x[1] \in 1..Len(p) /\ x[2] \in 1..Len(p) /\ x[1] <= x[2] /\ x[1] - 1 = i
      BY <1>1, <1>2, <1>3
  <2>2. \A k \in x[1]..x[2] : p[k] # "/"
      BY <1>3, Zenon
  <2> QED
      BY <1>1, <1>3, <2>1, <2>2, WordIs, Zenon
<1>5. ASSUME NEW y \in Abs!Words(p), y # x PROVE y[2] \in Nat /\ y[2] <= i - 1
  <2>1. /\ y[1] \in 1..Len(p) /\ y[2] \in 1..Len(p) /\ y[1] <= y[2]
        /\ \A k \in y[1]..y[2] : p[k] # "/"
      BY <1>1, WordIs
  <2>2. ~(x[1] <= y[1])
    <3>1. x[1] <= y[1] => x[2] < y[1]
        BY <1>1, <1>4, <1>5, WordsApart
    <3> QED
        BY <1>1, <1>3, <2>1, <3>1
  <2>3. y[2] < x[1]
    <3>1. y[1] <= x[1]
        BY <1>1, <1>3, <2>1, <2>2
    <3> QED
        BY <1>1, <1>4, <1>5, <3>1, WordsApart
  <2>4. y[2] # i
    <3>1. y[2] \in y[1]..y[2]
        BY <2>1
    <3> QED
        BY <2>1, <3>1
  <2> QED
      BY <1>1, <1>3, <2>1, <2>3, <2>4
<1> QED
    BY <1>2, <1>4, <1>5, Zenon DEF x

LEMMA ParentIs ==
    ASSUME Least, NEW p, Absolute(p), p[Len(p)] # "/", Abs!Below(p) # {}
    PROVE  \E x \in Abs!Below(p) :
              LET q == SplitParent(p).parent
              IN  /\ SplitParent(p).name = Name(p, x) /\ Name(p, x) # <<>>
                  /\ Absolute(q) /\ Abs!Tree(q) = Abs!Tree(p)
                  /\ Abs!Below(q) = Abs!Below(p) \ {x}
                  /\ \A w \in Abs!Below(q) : Name(q, w) = Name(p, w)
                  /\ x[2] = Len(p) /\ Len(q) \in Nat /\ Len(q) < Len(p)
                  /\ \A w \in Abs!Below(p) : w # x => w[2] <= Len(q)
<1>1. p \in Seq(Chars) /\ Len(p) \in Nat /\ Len(p) > 0 /\ p[1] = "/"
    BY DEF Absolute
<1>2. PICK i \in 1..Len(p) : p[i] = "/" /\ \A j \in (i + 1)..Len(p) : p[j] # "/"
    BY LastSlashOf
<1> DEFINE x == <<i + 1, Len(p)>>
           q == SplitParent(p).parent
           b == Abs!BootWord
<1>3. /\ i < Len(p) /\ x \in Abs!Words(p)
      /\ \A y \in Abs!Words(p) : y # x => y[2] \in Nat /\ y[2] <= i - 1
    BY <1>2, LastWord
<1>4. x[1] = i + 1 /\ x[2] = Len(p)
    OBVIOUS
<1>5. /\ q = IF i = 1 THEN <<"/">> ELSE SubSeq(p, 1, i - 1)
      /\ SplitParent(p).name = Name(p, x)
    BY <1>2, SlashAt DEF Name
<1>6. Name(p, x) # <<>>
  <2>1. Len(SubSeq(p, i + 1, Len(p))) > 0
      BY <1>1, <1>3
  <2>2. Name(p, x) = SubSeq(p, i + 1, Len(p))
      BY DEF Name
  <2>3. Name(p, x) = <<>> => Len(Name(p, x)) = 0
      OBVIOUS
  <2> QED
      BY <2>1, <2>2, <2>3
<1> HIDE DEF x, q, b
<1>7. x \in Abs!Below(p)
  <2> SUFFICES ASSUME Abs!BelowBoot(p), x = b PROVE FALSE
      BY <1>3 DEF Abs!Below, b
  <2>1. PICK y \in Abs!Below(p) : TRUE
      OBVIOUS
  <2>2. y[1] > Len(Boot) + 1 /\ y \in Abs!Words(p)
      BY CutIs, <2>1 DEF Beyond, Cut
  <2>3. y[1] \in 1..Len(p)
      BY <1>1, <2>2, WordIs
  <2>4. Len(Boot) + 1 = Len(p)
      BY <1>4 DEF b, Abs!BootWord
  <2> QED
      BY <1>1, <2>2, <2>3, <2>4
<1>8. /\ Absolute(q)
      /\ Abs!Words(q) = Abs!Words(p) \ {x}
      /\ \A w \in Abs!Words(q) : Name(q, w) = Name(p, w)
  <2>1. CASE i = 1
    <3>1. q = <<"/">>
        BY <1>5, <2>1
    <3>2. Absolute(<<"/">>)
      <4>1. "/" \in Chars
          BY DEF Chars
      <4>2. <<"/">> \in Seq(Chars)
          BY <4>1, OneIn, Zenon
      <4> QED
          BY <4>2 DEF Absolute
    <3>3. \A y \in Abs!Words(p) : y = x
      <4>1. \A y \in Abs!Words(p) : y[2] \in 1..Len(p)
          BY <1>1, WordIs
      <4> QED
          BY <1>3, <2>1, <4>1
    <3> QED
        BY <3>1, <3>2, <3>3, NoWords, Zenon
  <2>2. CASE i # 1
    <3> DEFINE c == i - 1
    <3>1. c \in 1..(Len(p) - 1) /\ c \in 1..Len(p) /\ c + 1 = i /\ c \in Nat
        BY <1>1, <1>3, <2>2
    <3>2. q = SubSeq(p, 1, c)
        BY <1>5, <2>2
    <3>3. /\ q \in Seq(Chars) /\ Len(q) = c /\ \A k \in 1..c : q[k] = p[k]
          /\ Abs!Words(q) = {y \in Abs!Words(p) : y[2] <= c}
        BY <1>1, <1>2, <3>1, <3>2, WordsBefore, ZenonT(30)
    <3>4. Absolute(q)
        BY <1>1, <3>1, <3>3 DEF Absolute
    <3>5. ~(x[2] <= c)
        BY <1>1, <1>3, <1>4, <3>1
    <3>6. Abs!Words(q) = Abs!Words(p) \ {x}
        BY <1>3, <3>3, <3>5, Zenon
    <3>7. ASSUME NEW w \in Abs!Words(q) PROVE Name(q, w) = Name(p, w)
      <4>1. w[1] \in 1..c /\ w[2] \in w[1]..c
          BY <3>3, WordIs
      <4> QED
          BY <1>1, <3>1, <3>2, <4>1, NameBefore, Zenon DEF Name
    <3> QED
        BY <3>4, <3>6, <3>7
  <2> QED
      BY <2>1, <2>2
<1>9. b[1] = 2 /\ b[2] = Len(Boot) + 1
    BY DEF b, Abs!BootWord
<1>10. Abs!BelowBoot(q) <=> Abs!BelowBoot(p)
  <2>1. \A r : Abs!BelowBoot(r) <=> b \in Abs!Words(r) /\ Name(r, b) = Boot
      BY <1>9 DEF Abs!BelowBoot, Name, b
  <2>2. Abs!BelowBoot(p) => b # x
      BY <1>7 DEF Abs!Below, b
  <2> QED
      BY <1>8, <2>1, <2>2, Zenon
<1>11. Abs!Tree(q) = Abs!Tree(p)
    BY <1>10 DEF Abs!Tree
<1>12. Abs!Below(q) = Abs!Below(p) \ {x} /\ Abs!Below(q) \subseteq Abs!Words(q)
    BY <1>8, <1>10 DEF Abs!Below
<1>13. Len(q) \in Nat /\ Len(q) < Len(p) /\ i - 1 <= Len(q)
  <2>1. CASE i = 1
    <3>1. Len(q) = 1
        BY <1>5, <2>1
    <3> QED
        BY <1>1, <1>3, <2>1, <3>1
  <2>2. CASE i # 1
    <3>1. q = SubSeq(p, 1, i - 1)
        BY <1>5, <2>2
    <3>2. Len(q) = i - 1
        BY <1>1, <2>2, <3>1
    <3> QED
        BY <1>1, <2>2, <3>2
  <2> QED
      BY <2>1, <2>2
<1>14. ASSUME NEW w \in Abs!Below(p), w # x PROVE w[2] <= Len(q)
  <2>1. w \in Abs!Words(p)
      BY DEF Abs!Below
  <2>2. w[2] \in Nat /\ w[2] <= i - 1
      BY <1>3, <1>14, <2>1
  <2> QED
      BY <1>1, <1>13, <2>2
<1> QED
    BY <1>4, <1>5, <1>6, <1>7, <1>8, <1>11, <1>12, <1>13, <1>14, Zenon DEF q

\* The name of the parent is the same without the last word.
LEMMA ParentSpelt ==
    ASSUME Least, NEW p, Absolute(p), p[Len(p)] # "/", Abs!Below(p) # {}
    PROVE  LET q == SplitParent(p).parent
               name == SplitParent(p).name
           IN  /\ Absolute(q) /\ Abs!Tree(q) = Abs!Tree(p)
               /\ name \in Seq(Chars) /\ name # <<>>
               /\ Abs!Spelt(p) = Append(Abs!Spelt(q), name)
<1> DEFINE q == SplitParent(p).parent
           name == SplitParent(p).name
<1>1. PICK x \in Abs!Below(p) :
          /\ name = Name(p, x) /\ Name(p, x) # <<>>
          /\ Absolute(q) /\ Abs!Tree(q) = Abs!Tree(p)
          /\ Abs!Below(q) = Abs!Below(p) \ {x}
          /\ \A w \in Abs!Below(q) : Name(q, w) = Name(p, w)
          /\ x[2] = Len(p) /\ Len(q) \in Nat /\ Len(q) < Len(p)
          /\ \A w \in Abs!Below(p) : w # x => w[2] <= Len(q)
    BY ParentIs, Zenon
<1>2. p \in Seq(Chars) /\ Len(p) \in Nat /\ Len(p) > 0 /\ q \in Seq(Chars)
    BY <1>1 DEF Absolute
<1> HIDE DEF q, name
<1>3. PICK s : IsSpelt(p, s, Len(p)) /\ Abs!Spelt(p) = s[Len(p)]
    BY <1>2, SpeltIs, Zenon
<1>4. PICK r : IsSpelt(q, r, Len(q)) /\ Abs!Spelt(q) = r[Len(q)]
    BY <1>1, SpeltIs, Zenon
<1> DEFINE Out == {k \in 0..Len(q) : s[k] # r[k]}
<1>5. Out = {}
  <2> SUFFICES ASSUME Out # {} PROVE FALSE
      OBVIOUS
  <2>1. Out \subseteq Nat
      OBVIOUS
  <2>2. PICK k \in Out : \A y \in Out : k <= y
      BY <2>1, Zenon DEF Least
  <2>3. k # 0
    <3>1. s[0] = <<>> /\ r[0] = <<>>
        BY <1>2, <1>3, <1>4, SpeltFirst, Zenon
    <3> QED
        BY <2>2, <3>1, Zenon
  <2>4. /\ k \in 1..Len(q) /\ k \in 1..Len(p) /\ k - 1 \in 0..Len(q) /\ ~(k <= k - 1)
        /\ k # Len(p)
      BY <1>1, <1>2, <2>2, <2>3
  <2>5. s[k - 1] = r[k - 1]
      BY <2>2, <2>4, Zenon
  <2>6. CASE \A w \in Abs!Below(q) : w[2] # k
    <3>1. \A w \in Abs!Below(p) : w[2] # k
        BY <1>1, <2>4, <2>6, Zenon
    <3>2. r[k] = r[k - 1]
        BY <1>2, <1>4, <2>4, <2>6, SpeltNext, Zenon
    <3>3. s[k] = s[k - 1]
        BY <1>2, <1>3, <2>4, <3>1, SpeltNext, Zenon
    <3> QED
        BY <2>2, <2>5, <3>2, <3>3, Zenon
  <2>7. ASSUME NEW w \in Abs!Below(q), w[2] = k PROVE FALSE
    <3>1. w \in Abs!Below(p) /\ Name(q, w) = Name(p, w)
        BY <1>1, Zenon
    <3>2. \A y \in Abs!Below(q) : y[2] = k => r[k] = Append(r[k - 1], Name(q, y))
        BY <1>2, <1>4, <2>4, SpeltNext, Zenon
    <3>3. \A y \in Abs!Below(p) : y[2] = k => s[k] = Append(s[k - 1], Name(p, y))
        BY <1>2, <1>3, <2>4, SpeltNext, Zenon
    <3> QED
        BY <2>2, <2>5, <2>7, <3>1, <3>2, <3>3, Zenon
  <2> QED
      BY <2>6, <2>7, Zenon
<1>6. s[Len(q)] = r[Len(q)]
  <2>1. Len(q) \in 0..Len(q)
      BY <1>1
  <2> QED
      BY <1>5, <2>1, Zenon
<1> DEFINE k == Len(p)
<1>7. s[k - 1] = s[Len(q)]
  <2>1. Len(q) \in 0..Len(p) /\ k - 1 \in Len(q)..Len(p)
      BY <1>1, <1>2
  <2>2. \A w \in Abs!Below(p) : w[2] \in 1..Len(p)
      BY <1>2, BelowIs, Zenon
  <2>3. \A w \in Abs!Below(p) : ~(Len(q) < w[2] /\ w[2] <= k - 1)
    <3>1. ~(Len(p) <= k - 1)
        BY <1>2
    <3>2. \A w \in Abs!Below(p) : w # x => ~(Len(q) < w[2])
        BY <1>1, <2>2
    <3> QED
        BY <1>1, <3>1, <3>2, Zenon
  <2> QED
      BY <1>2, <1>3, <2>1, <2>3, SpeltSame, Zenon
<1>8. s[k] = Append(s[k - 1], Name(p, x))
  <2>1. k \in 1..Len(p)
      BY <1>2
  <2>2. \A y \in Abs!Below(p) : y[2] = k => s[k] = Append(s[k - 1], Name(p, y))
      BY <1>2, <1>3, <2>1, SpeltNext, Zenon
  <2> QED
      BY <1>1, <2>2, Zenon
<1>9. Name(p, x) \in Seq(Chars)
    BY <1>2, BelowIs, Zenon
<1>10. Abs!Spelt(p) = Append(Abs!Spelt(q), name)
    BY <1>1, <1>3, <1>4, <1>6, <1>7, <1>8, Zenon
<1> QED
    BY <1>1, <1>9, <1>10, Zenon DEF q, name

LEMMA NoName ==
    ASSUME NEW p, Absolute(p), p[Len(p)] = "/"
    PROVE  SplitParent(p).name = <<>>
<1>1. p \in Seq(Chars) /\ Len(p) \in Nat /\ Len(p) > 0
    BY DEF Absolute
<1>2. Len(p) \in 1..Len(p) /\ \A j \in (Len(p) + 1)..Len(p) : p[j] # "/"
    BY <1>1
<1>3. SplitParent(p).name = SubSeq(p, Len(p) + 1, Len(p))
    BY <1>2, SlashAt, Zenon
<1> QED
    BY <1>1, <1>3

----------------------------------------------------------------------------
(* Tables of inodes *)

SlotsOK ==
    /\ nextFd \in Nat /\ nextFd >= 3
    /\ DOMAIN slots \subseteq 3..(nextFd - 1)
    /\ slots \in [DOMAIN slots -> [inode : 1..Len(inodes), offset : Nat]]
    /\ asked = [fd \in DOMAIN slots |-> asked[fd]]

\* No call makes a directory.
DirsOK == Named(inodes, "dir") = Named(Image, "dir")

VInv == MountsOK /\ NodesOK /\ DirsOK /\ SlotsOK

LEMMA NamedIs ==
    ASSUME NEW t, NEW kind, NEW f
    PROVE  f \in Named(t, kind) <=> \E n \in DOMAIN t : t[n].kind = kind /\ NameIn(t, n) = f
    BY Zenon DEF Named

LEMMA OneName ==
    ASSUME NEW t, Table(t), NEW m \in 1..Len(t), NEW n \in 1..Len(t), NameIn(t, m) = NameIn(t, n)
    PROVE  m = n
<1>1. t[m].fs = t[n].fs /\ t[m].words = t[n].words
    BY DEF NameIn
<1>2. m \in DOMAIN t /\ n \in DOMAIN t
    BY TableIs, Zenon
<1> QED
    BY <1>1, <1>2, Zenon DEF Table

LEMMA KindIs ==
    ASSUME NEW t, Table(t), NEW n \in 1..Len(t), NEW kind
    PROVE  NameIn(t, n) \in Named(t, kind) <=> t[n].kind = kind
<1>1. DOMAIN t = 1..Len(t)
    BY TableIs, Zenon
<1>2. ASSUME t[n].kind = kind PROVE NameIn(t, n) \in Named(t, kind)
    BY <1>1, <1>2, NamedIs, Zenon
<1>3. ASSUME NameIn(t, n) \in Named(t, kind) PROVE t[n].kind = kind
  <2>1. PICK m \in 1..Len(t) : t[m].kind = kind /\ NameIn(t, m) = NameIn(t, n)
    <3>1. \E m \in DOMAIN t : t[m].kind = kind /\ NameIn(t, m) = NameIn(t, n)
        BY <1>3, NamedIs
    <3> QED
        BY <1>1, <3>1, Zenon
  <2>2. m = n
      BY <2>1, OneName, Zenon
  <2> QED
      BY <2>1, <2>2, Zenon
<1> QED
    BY <1>2, <1>3, Zenon

LEMMA FilesInIs ==
    ASSUME NEW t, Table(t)
    PROVE  /\ DOMAIN FilesIn(t) = Named(t, "file")
           /\ FilesIn(t) = [f \in Named(t, "file") |-> FilesIn(t)[f]]
           /\ \A n \in 1..Len(t) : t[n].kind = "file" => FilesIn(t)[NameIn(t, n)] = t[n].data
<1>1. DOMAIN FilesIn(t) = Named(t, "file") /\ FilesIn(t) = [f \in Named(t, "file") |-> FilesIn(t)[f]]
    BY DEF FilesIn
<1>2. ASSUME NEW n \in 1..Len(t), t[n].kind = "file" PROVE FilesIn(t)[NameIn(t, n)] = t[n].data
  <2>1. NameIn(t, n) \in Named(t, "file")
      BY <1>2, KindIs, Zenon
  <2>2. DOMAIN t = 1..Len(t)
      BY TableIs, Zenon
  <2>3. (CHOOSE m \in DOMAIN t : NameIn(t, m) = NameIn(t, n)) = n
      BY <2>2, OneName, Zenon
  <2> QED
      BY <2>1, <2>3, Zenon DEF FilesIn
<1> QED
    BY <1>1, <1>2, Zenon

LEMMA RecordSet ==
    ASSUME NEW A, NEW B, NEW C, NEW D, NEW E,
           NEW x \in [fs : A, kind : B, data : C, children : D, words : E], NEW c \in C, NEW d \in D
    PROVE  /\ [x EXCEPT !.data = c] \in [fs : A, kind : B, data : C, children : D, words : E]
           /\ [x EXCEPT !.children = d] \in [fs : A, kind : B, data : C, children : D, words : E]
    OBVIOUS

LEMMA InodeSet ==
    ASSUME NEW x \in Inode
    PROVE  /\ \A c \in Seq(Nat) : [x EXCEPT !.data = c] \in Inode
           /\ \A d \in Kids : [x EXCEPT !.children = d] \in Inode
<1>1. x.data \in Seq(Nat) /\ x.children \in Kids
    BY DEF Inode
<1> QED
    BY <1>1, RecordSet, Zenon DEF Inode

WithData(t, n, v) == [t EXCEPT ![n].data = v]

LEMMA DataSet ==
    ASSUME NEW t, Table(t), NEW n \in 1..Len(t), t[n].kind = "file", NEW v \in Seq(Nat)
    PROVE  LET u == WithData(t, n, v)
           IN  /\ Table(u) /\ Len(u) = Len(t)
               /\ \A m \in 1..Len(t) : /\ NameIn(u, m) = NameIn(t, m) /\ u[m].kind = t[m].kind
                                       /\ u[m].data = IF m = n THEN v ELSE t[m].data
<1> DEFINE u == [t EXCEPT ![n].data = v]
<1>1. /\ t \in Seq(Inode) /\ Len(t) \in Nat /\ Len(t) >= 2 /\ DOMAIN t = 1..Len(t)
      /\ \A m \in 1..Len(t) : t[m] \in Inode
      /\ \A d \in Roots : d \in 1..Len(t)
    BY TableIs, Zenon
<1>2. u = [m \in 1..Len(t) |-> IF m = n THEN [t[n] EXCEPT !.data = v] ELSE t[m]]
    BY <1>1, Zenon
<1>3. [t[n] EXCEPT !.data = v] \in Inode
    BY <1>1, InodeSet, Zenon
<1>4. /\ [t[n] EXCEPT !.data = v].data = v
      /\ [t[n] EXCEPT !.data = v].children = t[n].children
      /\ [t[n] EXCEPT !.data = v].kind = t[n].kind
      /\ [t[n] EXCEPT !.data = v].fs = t[n].fs
      /\ [t[n] EXCEPT !.data = v].words = t[n].words
    BY <1>1 DEF Inode
<1> HIDE DEF u
<1>5. u \in Seq(Inode) /\ Len(u) = Len(t) /\ DOMAIN u = 1..Len(t)
    BY <1>1, <1>2, <1>3
<1>6. ASSUME NEW m \in 1..Len(t)
      PROVE  /\ u[m].children = t[m].children /\ u[m].kind = t[m].kind /\ u[m].fs = t[m].fs
             /\ u[m].words = t[m].words /\ u[m].data = IF m = n THEN v ELSE t[m].data
  <2>1. CASE m = n
      BY <1>2, <1>4, <2>1, Zenon
  <2>2. CASE m # n
      BY <1>2, <2>2, Zenon
  <2> QED
      BY <2>1, <2>2, Zenon
<1>7. Table(u)
  <2>1. \A r \in Roots : u[r].kind = "dir" /\ u[r].fs = r /\ u[r].words = <<>>
      BY <1>1, <1>6, ZenonT(60) DEF Table
  <2>2. \A m \in DOMAIN u : u[m].kind = "dir" => u[m].data = <<>>
    <3>1. \A m \in 1..Len(t) : t[m].kind = "dir" => t[m].data = <<>> /\ m # n
      <4>1. "file" # "dir"
          OBVIOUS
      <4> QED
          BY <1>1, <4>1, Zenon DEF Table
    <3> QED
        BY <1>5, <1>6, <3>1, Zenon
  <2>3. \A k, m \in DOMAIN u : u[k].fs = u[m].fs /\ u[k].words = u[m].words => k = m
    <3>1. \A k, m \in 1..Len(t) : t[k].fs = t[m].fs /\ t[k].words = t[m].words => k = m
        BY <1>1, Zenon DEF Table
    <3>2. \A m \in 1..Len(t) : u[m].fs = t[m].fs /\ u[m].words = t[m].words
        BY <1>6, Zenon
    <3> QED
        BY <1>5, <3>1, <3>2
  <2>4. ASSUME NEW m \in DOMAIN u, NEW word \in DOMAIN u[m].children
        PROVE  /\ u[m].children[word] \in DOMAIN u
               /\ u[u[m].children[word]].fs = u[m].fs
               /\ u[u[m].children[word]].words = Append(u[m].words, word)
    <3>1. m \in DOMAIN t /\ word \in DOMAIN t[m].children
        BY <1>1, <1>5, <1>6, <2>4, Zenon
    <3>2. /\ t[m].children[word] \in DOMAIN t
          /\ t[t[m].children[word]].fs = t[m].fs
          /\ t[t[m].children[word]].words = Append(t[m].words, word)
        BY <3>1, LinkIs, Zenon
    <3>3. u[m].children[word] = t[m].children[word]
        BY <1>1, <1>6, <3>1, Zenon
    <3> QED
        BY <1>1, <1>5, <1>6, <3>1, <3>2, <3>3, Zenon
  <2>5. ASSUME NEW m \in DOMAIN u \ Roots
        PROVE  \E d \in DOMAIN u :
                  u[d].kind = "dir" /\ \E word \in DOMAIN u[d].children : u[d].children[word] = m
    <3>1. PICK d \in DOMAIN t :
             t[d].kind = "dir" /\ \E word \in DOMAIN t[d].children : t[d].children[word] = m
        BY <1>1, <1>5, Zenon DEF Table
    <3> QED
        BY <1>1, <1>5, <1>6, <3>1, ZenonT(60)
  <2> QED
      BY <1>1, <1>5, <2>1, <2>2, <2>3, <2>4, <2>5, Zenon DEF Table
<1>8. \A m \in 1..Len(t) : NameIn(u, m) = NameIn(t, m)
    BY <1>6, Zenon DEF NameIn
<1> QED
    BY <1>5, <1>6, <1>7, <1>8, Zenon DEF u, WithData

\* A table with one file more.
WithFile(t, d, name) ==
    Append([t EXCEPT ![d].children = Put(@, name, Len(t) + 1)],
           NewFile(t[d].fs, Append(t[d].words, name)))

LEMMA FileAdded ==
    ASSUME NEW t, Table(t), NEW d \in 1..Len(t), t[d].kind = "dir", NEW name \in Seq(Chars),
           name \notin DOMAIN t[d].children
    PROVE  LET u == WithFile(t, d, name)
               new == Len(t) + 1
           IN  /\ Table(u) /\ Len(u) = new
               /\ NameIn(u, new) = Child(NameIn(t, d), name)
               /\ u[new].kind = "file" /\ u[new].data = <<>>
               /\ \A m \in 1..Len(t) : /\ NameIn(u, m) = NameIn(t, m) /\ u[m].kind = t[m].kind
                                       /\ u[m].data = t[m].data
<1> DEFINE new == Len(t) + 1
           kids == Put(t[d].children, name, new)
           e == [t EXCEPT ![d].children = Put(@, name, Len(t) + 1)]
           words == Append(t[d].words, name)
           file == NewFile(t[d].fs, words)
           u == Append(e, file)
<1>1. /\ t \in Seq(Inode) /\ Len(t) \in Nat /\ Len(t) >= 2 /\ DOMAIN t = 1..Len(t)
      /\ \A m \in 1..Len(t) : t[m] \in Inode
      /\ \A r \in Roots : r \in 1..Len(t)
      /\ t[d].fs \in Roots /\ t[d].words \in Seq(Seq(Chars))
    BY TableIs, Zenon
<1>2. /\ DOMAIN kids = DOMAIN t[d].children \cup {name}
      /\ kids[name] = new
      /\ \A y \in DOMAIN t[d].children : kids[y] = t[d].children[y]
  <2> HIDE DEF new
  <2>1. DOMAIN kids = DOMAIN t[d].children \cup {name}
      BY DEF Put
  <2>2. kids[name] = new
      BY DEF Put
  <2>3. \A y \in DOMAIN t[d].children : y # name => kids[y] = t[d].children[y]
      BY DEF Put
  <2> HIDE DEF kids
  <2> QED
      BY <2>1, <2>2, <2>3
<1>3. kids \in Kids
  <2>1. t[d].children \in Kids
      BY <1>1 DEF Inode
  <2>2. PICK S \in SUBSET Seq(Chars) : t[d].children \in [S -> Nat]
      BY <2>1, Zenon DEF Kids
  <2>3. kids \in [S \cup {name} -> Nat]
      BY <1>1, <2>2 DEF Put
  <2>4. S \cup {name} \in SUBSET Seq(Chars)
      BY <2>2
  <2> HIDE DEF kids
  <2> QED
      BY <2>3, <2>4, Zenon DEF Kids
<1>4. e = [m \in 1..Len(t) |-> IF m = d THEN [t[d] EXCEPT !.children = kids] ELSE t[m]]
    BY <1>1, Zenon
<1> HIDE DEF kids, e
<1>0. [t[d] EXCEPT !.children = kids] \in Inode
    BY <1>1, <1>3, InodeSet, Zenon
<1>5. /\ [t[d] EXCEPT !.children = kids].children = kids
      /\ [t[d] EXCEPT !.children = kids].data = t[d].data
      /\ [t[d] EXCEPT !.children = kids].kind = t[d].kind
      /\ [t[d] EXCEPT !.children = kids].fs = t[d].fs
      /\ [t[d] EXCEPT !.children = kids].words = t[d].words
    BY <1>1 DEF Inode
<1>6. words \in Seq(Seq(Chars)) /\ words # <<>>
    BY <1>1, AppendIs, ZenonT(60)
<1> HIDE DEF words
<1>7. /\ file \in Inode /\ file.data = <<>> /\ file.kind = "file" /\ file.fs = t[d].fs
      /\ file.words = words /\ file.children = <<>>
  <2>1. <<>> \in [{} -> Nat] /\ {} \in SUBSET Seq(Chars)
      OBVIOUS
  <2>2. <<>> \in Kids
      BY <2>1, Zenon DEF Kids
  <2>3. <<>> \in Seq(Nat)
      OBVIOUS
  <2> QED
      BY <1>1, <1>6, <2>2, <2>3 DEF NewFile, Inode
<1> HIDE DEF file
<1>8. e \in Seq(Inode) /\ Len(e) = Len(t)
    BY <1>0, <1>1, <1>4
<1>9. /\ u \in Seq(Inode) /\ Len(u) = new /\ DOMAIN u = 1..new
      /\ u[new] = file /\ \A m \in 1..Len(t) : u[m] = e[m]
    BY <1>1, <1>7, <1>8
<1> HIDE DEF u
<1>10. ASSUME NEW m \in 1..Len(t)
       PROVE  /\ u[m].data = t[m].data /\ u[m].kind = t[m].kind /\ u[m].fs = t[m].fs
              /\ u[m].words = t[m].words /\ u[m].children = IF m = d THEN kids ELSE t[m].children
  <2>1. CASE m = d
      BY <1>4, <1>5, <1>9, <2>1, Zenon
  <2>2. CASE m # d
      BY <1>4, <1>9, <2>2, Zenon
  <2> QED
      BY <2>1, <2>2, Zenon
<1>11. new \notin 1..Len(t) /\ new \in 1..new /\ 1..Len(t) \subseteq 1..new
    BY <1>1
<1>12. \A m \in 1..new : m \in 1..Len(t) \/ m = new
    BY <1>1
<1> HIDE DEF new
<1>13. /\ u[new].fs = t[d].fs /\ u[new].words = words
       /\ u[new].kind = "file" /\ u[new].children = <<>> /\ u[new].data = <<>>
    BY <1>7, <1>9, Zenon
\* No other inode has the name of the new one.
<1>14. ASSUME NEW m \in 1..Len(t), t[m].fs = t[d].fs, t[m].words = words PROVE FALSE
  <2>1. PICK c \in DOMAIN t : /\ t[c].fs = t[m].fs /\ t[c].words = t[d].words /\ t[c].kind = "dir"
                              /\ name \in DOMAIN t[c].children /\ t[c].children[name] = m
    <3>1. m \in DOMAIN t /\ t[m].words = Append(t[d].words, name)
        BY <1>1, <1>14, Zenon DEF words
    <3> QED
      <4>1. t[d].words \in Seq(Seq(Chars))
          BY <1>1, Zenon
      <4> QED
          BY <3>1, <4>1, EntryIs, SMTT(60)
  <2>2. c = d
      BY <1>1, <1>14, <2>1, Zenon DEF Table
  <2> QED
      BY <2>1, <2>2, Zenon
<1>15. Table(u)
  <2>1. \A r \in Roots : u[r].kind = "dir" /\ u[r].fs = r /\ u[r].words = <<>>
      BY <1>1, <1>10, Zenon DEF Table
  <2>2. ASSUME NEW m \in DOMAIN u, u[m].kind = "dir" PROVE u[m].data = <<>>
    <3>1. CASE m = new
        BY <1>13, <3>1, Zenon
    <3>2. CASE m \in 1..Len(t)
        BY <1>1, <1>10, <2>2, <3>2, ZenonT(60) DEF Table
    <3> QED
        BY <1>9, <1>12, <3>1, <3>2, Zenon
  <2>3. ASSUME NEW k \in DOMAIN u, NEW m \in DOMAIN u, u[k].fs = u[m].fs, u[k].words = u[m].words
        PROVE  k = m
    <3>1. CASE k \in 1..Len(t) /\ m \in 1..Len(t)
      <4>1. t[k].fs = t[m].fs /\ t[k].words = t[m].words
          BY <1>10, <2>3, <3>1, Zenon
      <4> QED
          BY <1>1, <3>1, <4>1, Zenon DEF Table
    <3>2. CASE k \in 1..Len(t) /\ m = new
        BY <1>10, <1>13, <1>14, <2>3, <3>2, Zenon
    <3>3. CASE k = new /\ m \in 1..Len(t)
        BY <1>10, <1>13, <1>14, <2>3, <3>3, Zenon
    <3> QED
        BY <1>9, <1>12, <3>1, <3>2, <3>3, Zenon
  <2>4. ASSUME NEW m \in DOMAIN u, NEW word \in DOMAIN u[m].children
        PROVE  /\ u[m].children[word] \in DOMAIN u
               /\ u[u[m].children[word]].fs = u[m].fs
               /\ u[u[m].children[word]].words = Append(u[m].words, word)
    <3>0. m # new
      <4>1. DOMAIN <<>> = {}
          OBVIOUS
      <4> QED
          BY <1>13, <2>4, <4>1, Zenon
    <3>1. m \in 1..Len(t)
        BY <1>9, <1>12, <3>0, Zenon
    <3>2. CASE word \in DOMAIN t[m].children
      <4>1. /\ t[m].children[word] \in 1..Len(t)
            /\ t[t[m].children[word]].fs = t[m].fs
            /\ t[t[m].children[word]].words = Append(t[m].words, word)
        <5>1. m \in DOMAIN t
            BY <1>1, <3>1, Zenon
        <5>2. /\ t[m].children[word] \in DOMAIN t
              /\ t[t[m].children[word]].fs = t[m].fs
              /\ t[t[m].children[word]].words = Append(t[m].words, word)
            BY <3>2, <5>1, LinkIs, Zenon
        <5> QED
            BY <1>1, <5>2, Zenon
      <4>2. u[m].children[word] = t[m].children[word]
          BY <1>2, <1>10, <3>1, <3>2, Zenon
      <4> QED
          BY <1>9, <1>10, <1>11, <3>1, <4>1, <4>2, Zenon
    <3>3. CASE word \notin DOMAIN t[m].children
      <4>1. m = d /\ word = name
          BY <1>2, <1>10, <2>4, <3>1, <3>3, Zenon
      <4>2. u[m].children[word] = new
          BY <1>2, <1>10, <3>1, <4>1, Zenon
      <4> QED
          BY <1>9, <1>10, <1>11, <1>13, <3>1, <4>1, <4>2, Zenon DEF words
    <3> QED
        BY <3>2, <3>3, Zenon
  <2>5. ASSUME NEW m \in DOMAIN u \ Roots
        PROVE  \E c \in DOMAIN u :
                  u[c].kind = "dir" /\ \E word \in DOMAIN u[c].children : u[c].children[word] = m
    <3>1. CASE m = new
      <4>1. u[d].kind = "dir" /\ name \in DOMAIN u[d].children /\ u[d].children[name] = m
          BY <1>2, <1>10, <3>1, Zenon
      <4> QED
          BY <1>9, <1>11, <4>1, Zenon
    <3>2. CASE m \in 1..Len(t)
      <4>1. PICK c \in DOMAIN t :
               t[c].kind = "dir" /\ \E word \in DOMAIN t[c].children : t[c].children[word] = m
          BY <1>1, <3>2, Zenon DEF Table
      <4>2. PICK word \in DOMAIN t[c].children : t[c].children[word] = m
          BY <4>1, Zenon
      <4>3. word \in DOMAIN u[c].children /\ u[c].children[word] = m
          BY <1>1, <1>2, <1>10, <4>1, <4>2, Zenon
      <4> QED
          BY <1>1, <1>9, <1>10, <1>11, <4>1, <4>3, Zenon
    <3> QED
        BY <1>9, <1>12, <3>1, <3>2, Zenon
  <2>6. Len(u) >= 2
      BY <1>1, <1>9 DEF new
  <2> QED
      BY <1>9, <2>1, <2>2, <2>3, <2>4, <2>5, <2>6, Zenon DEF Table
<1>16. NameIn(u, new) = Child(NameIn(t, d), name)
    BY <1>13 DEF NameIn, Child, words
<1>17. \A m \in 1..Len(t) : NameIn(u, m) = NameIn(t, m)
    BY <1>10, Zenon DEF NameIn
<1> QED
    BY <1>9, <1>10, <1>13, <1>15, <1>16, <1>17, Zenon DEF u, e, file, words, new, WithFile

\* Two sets with the same members are one.
LEMMA SameSet ==
    ASSUME NEW A, NEW B, \A x : x \in A <=> x \in B
    PROVE  A = B
    OBVIOUS

\* What becomes of the files when one is written, and when one is made.
LEMMA FilesSet ==
    ASSUME NEW t, Table(t), NEW u, Table(u), Len(u) = Len(t),
           \A m \in 1..Len(t) : NameIn(u, m) = NameIn(t, m) /\ u[m].kind = t[m].kind,
           NEW n \in 1..Len(t), t[n].kind = "file", NEW v,
           u[n].data = v, \A m \in 1..Len(t) : m # n => u[m].data = t[m].data
    PROVE  /\ Named(u, "dir") = Named(t, "dir")
           /\ NameIn(t, n) \in DOMAIN FilesIn(t)
           /\ FilesIn(u) = [FilesIn(t) EXCEPT ![NameIn(t, n)] = v]
<1> DEFINE N == Named(t, "file")
           f == NameIn(t, n)
<1>1. DOMAIN t = 1..Len(t) /\ DOMAIN u = 1..Len(t)
    BY TableIs, Zenon
<1>2. \A kind : Named(u, kind) = Named(t, kind)
  <2> SUFFICES ASSUME NEW kind, NEW g PROVE g \in Named(u, kind) <=> g \in Named(t, kind)
      BY SameSet, Zenon
  <2>1. g \in Named(u, kind) <=> \E m \in DOMAIN u : u[m].kind = kind /\ NameIn(u, m) = g
      BY NamedIs
  <2>2. g \in Named(t, kind) <=> \E m \in DOMAIN t : t[m].kind = kind /\ NameIn(t, m) = g
      BY NamedIs
  <2> QED
      BY <1>1, <2>1, <2>2, Zenon
<1>3. /\ DOMAIN FilesIn(t) = N /\ FilesIn(t) = [g \in N |-> FilesIn(t)[g]]
      /\ \A m \in 1..Len(t) : t[m].kind = "file" => FilesIn(t)[NameIn(t, m)] = t[m].data
    BY FilesInIs, Zenon
<1>4. /\ FilesIn(u) = [g \in N |-> FilesIn(u)[g]]
      /\ \A m \in 1..Len(t) : t[m].kind = "file" => FilesIn(u)[NameIn(t, m)] = u[m].data
  <2>1. /\ FilesIn(u) = [g \in Named(u, "file") |-> FilesIn(u)[g]]
        /\ \A m \in 1..Len(u) : u[m].kind = "file" => FilesIn(u)[NameIn(u, m)] = u[m].data
      BY FilesInIs, Zenon
  <2>2. Named(u, "file") = N
      BY <1>2, Zenon
  <2> HIDE DEF N
  <2> QED
      BY <2>1, <2>2, Zenon
<1>5. f \in N
    BY KindIs, Zenon
<1>6. ASSUME NEW g \in N PROVE FilesIn(u)[g] = IF g = f THEN v ELSE FilesIn(t)[g]
  <2>1. PICK m \in 1..Len(t) : t[m].kind = "file" /\ NameIn(t, m) = g
    <3>1. \E m \in DOMAIN t : t[m].kind = "file" /\ NameIn(t, m) = g
        BY NamedIs
    <3> QED
        BY <1>1, <3>1, Zenon
  <2>2. m = n <=> g = f
      BY <2>1, OneName, Zenon
  <2>3. FilesIn(u)[g] = u[m].data /\ FilesIn(t)[g] = t[m].data
      BY <1>3, <1>4, <2>1, Zenon
  <2> QED
      BY <2>2, <2>3, Zenon
<1> HIDE DEF N, f
<1>7. FilesIn(u) = [FilesIn(t) EXCEPT ![f] = v]
  <2> DEFINE F == FilesIn(t)
             G == FilesIn(u)
  <2> HIDE DEF F, G
  <2>1. F = [g \in N |-> F[g]] /\ G = [g \in N |-> G[g]] /\ \A g \in N : G[g] = IF g = f THEN v ELSE F[g]
      BY <1>3, <1>4, <1>6, Zenon DEF F, G
  <2>2. G = [F EXCEPT ![f] = v]
      BY <2>1
  <2> QED
      BY <2>2, Zenon DEF F, G
<1> QED
    BY <1>2, <1>3, <1>5, <1>7, Zenon DEF f

OneMore(files, f) == [g \in DOMAIN files \cup {f} |-> IF g = f THEN <<>> ELSE files[g]]

LEMMA FilesPlus ==
    ASSUME NEW t, Table(t), NEW u, Table(u), Len(u) = Len(t) + 1,
           u[Len(t) + 1].kind = "file", u[Len(t) + 1].data = <<>>,
           \A m \in 1..Len(t) : /\ NameIn(u, m) = NameIn(t, m) /\ u[m].kind = t[m].kind
                                 /\ u[m].data = t[m].data,
           NEW f, NameIn(u, Len(t) + 1) = f
    PROVE  /\ Named(u, "dir") = Named(t, "dir")
           /\ FilesIn(u) = OneMore(FilesIn(t), f)
<1> DEFINE N == Named(t, "file")
           new == Len(t) + 1
<1>1. DOMAIN t = 1..Len(t) /\ DOMAIN u = 1..new /\ Len(t) \in Nat
    BY TableIs, Zenon
<1>2. /\ new \in 1..new /\ new \notin 1..Len(t) /\ 1..Len(t) \subseteq 1..new
      /\ \A m \in 1..new : m \in 1..Len(t) \/ m = new
    BY <1>1
<1>0. NameIn(u, new) = f
    BY Zenon
<1> HIDE DEF new
<1>3. ASSUME NEW kind, NEW g PROVE g \in Named(u, kind) <=> g \in Named(t, kind) \/ (kind = "file" /\ g = f)
  <2>1. g \in Named(u, kind) <=> \E m \in 1..new : u[m].kind = kind /\ NameIn(u, m) = g
    <3>1. g \in Named(u, kind) <=> \E m \in DOMAIN u : u[m].kind = kind /\ NameIn(u, m) = g
        BY NamedIs
    <3> QED
        BY <1>1, <3>1, Zenon
  <2>2. g \in Named(t, kind) <=> \E m \in 1..Len(t) : t[m].kind = kind /\ NameIn(t, m) = g
      BY <1>1, NamedIs
  <2>3. u[new].kind = "file"
      BY DEF new
  <2> QED
      BY <1>0, <1>2, <2>1, <2>2, <2>3, Zenon
<1>4. Named(u, "dir") = Named(t, "dir")
  <2>1. \A g : g \in Named(u, "dir") <=> g \in Named(t, "dir")
    <3>1. "dir" # "file"
        OBVIOUS
    <3> QED
        BY <1>3, <3>1, Zenon
  <2> QED
      BY <2>1, SameSet, Zenon
<1>5. Named(u, "file") = N \cup {f}
    BY <1>3, Zenon
<1>6. /\ DOMAIN FilesIn(t) = N
      /\ \A m \in 1..Len(t) : t[m].kind = "file" => FilesIn(t)[NameIn(t, m)] = t[m].data
    BY FilesInIs, Zenon
<1>7. /\ FilesIn(u) = [g \in N \cup {f} |-> FilesIn(u)[g]]
      /\ \A m \in 1..new : u[m].kind = "file" => FilesIn(u)[NameIn(u, m)] = u[m].data
  <2>1. /\ FilesIn(u) = [g \in Named(u, "file") |-> FilesIn(u)[g]]
        /\ \A m \in 1..Len(u) : u[m].kind = "file" => FilesIn(u)[NameIn(u, m)] = u[m].data
      BY FilesInIs, Zenon
  <2> HIDE DEF N
  <2> QED
      BY <1>5, <2>1, Zenon DEF new
<1>8. u[new].kind = "file" /\ u[new].data = <<>>
    BY DEF new
<1>9. ASSUME NEW g \in N \cup {f} PROVE FilesIn(u)[g] = IF g = f THEN <<>> ELSE FilesIn(t)[g]
  <2>1. CASE g = f
      BY <1>0, <1>2, <1>7, <1>8, <2>1, Zenon
  <2>2. CASE g # f
    <3>1. \E m \in DOMAIN t : t[m].kind = "file" /\ NameIn(t, m) = g
        BY <2>2, NamedIs
    <3>2. PICK m \in 1..Len(t) : t[m].kind = "file" /\ NameIn(t, m) = g
        BY <1>1, <3>1, Zenon
    <3>3. FilesIn(t)[g] = t[m].data
        BY <1>6, <3>2, Zenon
    <3>4. FilesIn(u)[g] = u[m].data
        BY <1>2, <1>7, <3>2, Zenon
    <3> QED
        BY <2>2, <3>2, <3>3, <3>4, Zenon
  <2> QED
      BY <2>1, <2>2, Zenon
<1> HIDE DEF N
<1>10. FilesIn(u) = [g \in DOMAIN FilesIn(t) \cup {f} |-> IF g = f THEN <<>> ELSE FilesIn(t)[g]]
    BY <1>6, <1>7, <1>9, Zenon
<1> QED
    BY <1>4, <1>10, Zenon DEF OneMore

----------------------------------------------------------------------------
(* The state of FileSystem *)

FilesNow == FilesIn(inodes)
OpenNow == [fd \in DOMAIN slots |-> [path   |-> asked[fd],
                                     file   |-> NameIn(inodes, slots[fd].inode),
                                     offset |-> slots[fd].offset]]

OpenOf(t, s, a) == [fd \in DOMAIN s |-> [path   |-> a[fd],
                                         file   |-> NameIn(t, s[fd].inode),
                                         offset |-> s[fd].offset]]

LEMMA NowIs ==
    /\ FilesNow = FilesIn(inodes) /\ FilesNow' = FilesIn(inodes')
    /\ OpenNow = OpenOf(inodes, slots, asked) /\ OpenNow' = OpenOf(inodes', slots', asked')
<1>1. FilesNow = FilesIn(inodes)
    BY Zenon DEF FilesNow
<1>2. FilesNow' = FilesIn(inodes')
    BY Zenon DEF FilesNow, FilesIn, Named, NameIn
<1>3. OpenNow = OpenOf(inodes, slots, asked)
    BY Zenon DEF OpenNow, OpenOf
<1>4. OpenNow' = OpenOf(inodes', slots', asked')
    BY Zenon DEF OpenNow, OpenOf, NameIn
<1> QED
    BY <1>1, <1>2, <1>3, <1>4

\* What a descriptor stands for.
LEMMA SlotIs ==
    ASSUME VInv, NEW fd \in DOMAIN slots
    PROVE  LET n == slots[fd].inode
               f == NameIn(inodes, n)
           IN  /\ n \in 1..Len(inodes) /\ slots[fd].offset \in Nat
               /\ inodes[n].data \in Seq(Nat)
               /\ fd \in DOMAIN OpenNow
               /\ OpenNow[fd] = [path |-> asked[fd], file |-> f, offset |-> slots[fd].offset]
               /\ Abs!IsDir(f) <=> inodes[n].kind = "dir"
               /\ inodes[n].kind # "dir" <=> inodes[n].kind = "file"
               /\ Abs!Data(f) = inodes[n].data
<1> DEFINE n == slots[fd].inode
           f == NameIn(inodes, n)
<1>1. slots[fd] \in [inode : 1..Len(inodes), offset : Nat] /\ Table(inodes)
    BY DEF VInv, SlotsOK, NodesOK
<1>2. n \in 1..Len(inodes) /\ slots[fd].offset \in Nat
    BY <1>1
<1>3. fd \in DOMAIN OpenNow /\ OpenNow[fd] = [path |-> asked[fd], file |-> f, offset |-> slots[fd].offset]
    BY NowIs DEF OpenOf
<1> HIDE DEF n
<1>4. inodes[n].kind \in {"dir", "file"} /\ inodes[n].data \in Seq(Nat)
    BY <1>1, <1>2, TableIs, Zenon
<1>5. inodes[n].kind # "dir" <=> inodes[n].kind = "file"
    BY <1>4
<1>6. Abs!IsDir(f) <=> inodes[n].kind = "dir"
    BY <1>1, <1>2, KindIs, Zenon DEF Abs!IsDir, VInv, DirsOK
<1>7. Abs!Data(f) = inodes[n].data
  <2>1. Abs!Data(f) = IF Abs!IsDir(f) THEN <<>> ELSE FilesNow[f]
      BY Zenon DEF Abs!Data, FilesNow
  <2>2. CASE inodes[n].kind = "dir"
    <3>1. n \in DOMAIN inodes
        BY <1>1, <1>2, TableIs, Zenon
    <3>2. inodes[n].data = <<>>
        BY <1>1, <2>2, <3>1, Zenon DEF Table
    <3> QED
        BY <1>6, <2>1, <2>2, <3>2, Zenon
  <2>3. CASE inodes[n].kind = "file"
    <3>1. FilesIn(inodes)[f] = inodes[n].data
        BY <1>1, <1>2, <2>3, FilesInIs, Zenon
    <3> QED
        BY <1>5, <1>6, <2>1, <2>3, <3>1, Zenon DEF FilesNow
  <2> QED
      BY <1>5, <2>2, <2>3, Zenon
<1> QED
    BY <1>2, <1>3, <1>4, <1>5, <1>6, <1>7, Zenon DEF n

----------------------------------------------------------------------------
(* Calls that leave the table of inodes alone *)

LEMMA SameTop == mounts' = mounts => Top' = Top /\ MountsOK' = MountsOK
    BY DEF Top, MountsOK, Roots, RamRoot, PondRoot

\* The descriptor table with another offset for fd.
LEMMA OffsetSet ==
    ASSUME VInv, NEW fd \in DOMAIN slots, NEW new \in Nat,
           slots' = [slots EXCEPT ![fd].offset = new], UNCHANGED <<inodes, mounts, nextFd, asked>>
    PROVE  VInv' /\ OpenNow' = [OpenNow EXCEPT ![fd].offset = new] /\ FilesNow' = FilesNow /\ Top' = Top
<1>1. /\ slots \in [DOMAIN slots -> [inode : 1..Len(inodes), offset : Nat]]
      /\ DOMAIN slots \subseteq 3..(nextFd - 1) /\ nextFd \in Nat /\ nextFd >= 3
      /\ asked = [g \in DOMAIN slots |-> asked[g]]
    BY DEF VInv, SlotsOK
<1>2. /\ DOMAIN slots' = DOMAIN slots
      /\ slots' \in [DOMAIN slots -> [inode : 1..Len(inodes), offset : Nat]]
      /\ slots'[fd].inode = slots[fd].inode /\ slots'[fd].offset = new
      /\ \A g \in DOMAIN slots : g # fd => slots'[g] = slots[g]
    BY <1>1
<1>3. SlotsOK'
    BY <1>1, <1>2, Zenon DEF SlotsOK
<1>4. VInv'
    BY <1>3, SameTop DEF VInv, NodesOK, DirsOK
<1>5. OpenOf(inodes, slots', asked) = [OpenOf(inodes, slots, asked) EXCEPT ![fd].offset = new]
  <2> DEFINE R(g) == [path |-> asked[g], file |-> NameIn(inodes, slots[g].inode), offset |-> slots[g].offset]
             Q(g) == [path |-> asked[g], file |-> NameIn(inodes, slots'[g].inode), offset |-> slots'[g].offset]
  <2>1. OpenOf(inodes, slots, asked) = [g \in DOMAIN slots |-> R(g)]
      BY Zenon DEF OpenOf
  <2>2. OpenOf(inodes, slots', asked) = [g \in DOMAIN slots |-> Q(g)]
      BY <1>2, Zenon DEF OpenOf
  <2>3. Q(fd) = [R(fd) EXCEPT !.offset = new]
      BY <1>2
  <2>4. \A g \in DOMAIN slots : g # fd => Q(g) = R(g)
      BY <1>2
  <2> HIDE DEF R, Q
  <2> QED
      BY <2>1, <2>2, <2>3, <2>4
<1>6. OpenNow' = [OpenNow EXCEPT ![fd].offset = new] /\ FilesNow' = FilesNow
    BY <1>5, NowIs
<1> QED
    BY <1>4, <1>6, SameTop

\* A call that changes neither files nor descriptors.
LEMMA NothingSet ==
    ASSUME VInv, UNCHANGED <<inodes, mounts, slots, nextFd, asked>>
    PROVE  VInv' /\ OpenNow' = OpenNow /\ FilesNow' = FilesNow /\ Top' = Top
<1>1. VInv'
    BY SameTop DEF VInv, NodesOK, DirsOK, SlotsOK
<1>2. OpenNow' = OpenNow /\ FilesNow' = FilesNow
    BY NowIs
<1> QED
    BY <1>1, <1>2, SameTop

\* The bytes from the offset on, as many as there are.
LEMMA ReadAtIs ==
    ASSUME NEW node, NEW off \in Nat, NEW len \in Nat, NEW S, inodes[node].data \in Seq(S)
    PROVE  /\ RamReadAt(node, off, len)
                = SubSeq(inodes[node].data, off + 1, Abs!Smaller(off + len, Len(inodes[node].data)))
           /\ Len(RamReadAt(node, off, len)) \in Nat
<1> DEFINE d == inodes[node].data
           e == Abs!Smaller(off + len, Len(d))
<1>1. Len(d) \in Nat /\ d \in Seq(S)
    OBVIOUS
<1>2. e \in Nat /\ e <= Len(d) /\ e <= off + len
    BY <1>1 DEF Abs!Smaller
<1>3. CASE off >= Len(d)
  <2>1. RamReadAt(node, off, len) = <<>>
      BY <1>3, Zenon DEF RamReadAt
  <2>2. SubSeq(d, off + 1, e) = <<>>
    <3>1. e < off + 1
        BY <1>1, <1>2, <1>3
    <3> HIDE DEF e, d
    <3> QED
        BY <1>1, <1>2, <3>1
  <2> QED
      BY <2>1, <2>2, Zenon
<1>4. CASE ~(off >= Len(d))
  <2>1. RamReadAt(node, off, len) = SubSeq(d, off + 1, off + Smaller(len, Len(d) - off))
      BY <1>4, Zenon DEF RamReadAt
  <2>2. off + Smaller(len, Len(d) - off) = e
      BY <1>1, <1>4 DEF Smaller, Abs!Smaller
  <2>3. Len(SubSeq(d, off + 1, e)) \in Nat
    <3> HIDE DEF e, d
    <3> QED
        BY <1>1, <1>2
  <2> QED
      BY <2>1, <2>2, <2>3, Zenon
<1> QED
    BY <1>3, <1>4

LEMMA ReadIs ==
    ASSUME VInv, NEW fd \in DOMAIN slots, NEW len \in 0..MAX_IO, Read(fd, len)
    PROVE  VInv' /\ Abs!Read(fd, len)
<1> DEFINE n == slots[fd].inode
           f == NameIn(inodes, n)
           off == slots[fd].offset
           d == RamReadAt(n, off, len)
<1>1. /\ off \in Nat /\ inodes[n].data \in Seq(Nat)
      /\ OpenNow[fd] = [path |-> asked[fd], file |-> f, offset |-> off]
      /\ Abs!IsDir(f) <=> inodes[n].kind = "dir"
      /\ inodes[n].kind # "dir" <=> inodes[n].kind = "file"
      /\ Abs!Data(f) = inodes[n].data
    BY SlotIs, Zenon
<1>2. OpenNow[fd].file = f /\ OpenNow[fd].offset = off
    BY <1>1
<1>3. len \in Nat
    BY VfsAssumption
<1>4. UNCHANGED <<inodes, mounts, nextFd, asked>>
    BY DEF Read
<1>5. d = SubSeq(Abs!Data(f), off + 1, Abs!Smaller(off + len, Len(Abs!Data(f)))) /\ Len(d) \in Nat
    BY <1>1, <1>3, ReadAtIs, ZenonT(30)
<1>6. IF inodes[n].kind # "file" THEN ret' = [isDir |-> fd] /\ UNCHANGED slots
      ELSE ret' = [data |-> d] /\ slots' = [slots EXCEPT ![fd].offset = @ + Len(d)]
    BY Zenon DEF Read
<1> HIDE DEF n, f, off, d
<1>7. CASE inodes[n].kind = "dir"
  <2>1. ret' = [isDir |-> fd] /\ UNCHANGED slots
      BY <1>1, <1>6, <1>7, Zenon
  <2>2. VInv' /\ OpenNow' = OpenNow /\ FilesNow' = FilesNow /\ Top' = Top
      BY <1>4, <2>1, NothingSet
  <2> QED
      BY <1>1, <1>2, <1>7, <2>1, <2>2, Zenon DEF Abs!Read, OpenNow, FilesNow
<1>8. CASE inodes[n].kind = "file"
  <2>1. ret' = [data |-> d] /\ slots' = [slots EXCEPT ![fd].offset = off + Len(d)]
      BY <1>1, <1>6, <1>8 DEF off
  <2>2. off + Len(d) \in Nat
    <3>1. off \in Nat /\ Len(d) \in Nat
        BY <1>1, <1>5, Zenon
    <3> QED
        BY <3>1
  <2>3. /\ VInv' /\ OpenNow' = [OpenNow EXCEPT ![fd].offset = off + Len(d)]
        /\ FilesNow' = FilesNow /\ Top' = Top
      BY <1>4, <2>1, <2>2, OffsetSet, Zenon
  <2>4. [OpenNow EXCEPT ![fd].offset = off + Len(d)] = [OpenNow EXCEPT ![fd].offset = @ + Len(d)]
      BY <1>2
  <2>5. /\ ~Abs!IsDir(OpenNow[fd].file)
        /\ ret' = [data |-> d] /\ OpenNow' = [OpenNow EXCEPT ![fd].offset = @ + Len(d)]
        /\ d = SubSeq(Abs!Data(OpenNow[fd].file), OpenNow[fd].offset + 1,
                      Abs!Smaller(OpenNow[fd].offset + len, Len(Abs!Data(OpenNow[fd].file))))
      BY <1>1, <1>2, <1>5, <1>8, <2>1, <2>3, <2>4, Zenon
  <2> QED
      BY <2>3, <2>5, Zenon DEF Abs!Read, OpenNow, FilesNow
<1> QED
    BY <1>1, <1>7, <1>8, Zenon

LEMMA CloseIs ==
    ASSUME VInv, NEW fd \in DOMAIN slots, Close(fd)
    PROVE  VInv' /\ Abs!Close(fd)
<1>1. /\ slots' = [g \in DOMAIN slots \ {fd} |-> slots[g]]
      /\ asked' = [g \in DOMAIN slots \ {fd} |-> asked[g]]
      /\ ret' = Done /\ UNCHANGED <<inodes, mounts, nextFd>>
    BY DEF Close
<1>2. /\ slots \in [DOMAIN slots -> [inode : 1..Len(inodes), offset : Nat]]
      /\ DOMAIN slots \subseteq 3..(nextFd - 1) /\ nextFd \in Nat /\ nextFd >= 3
    BY DEF VInv, SlotsOK
<1>3. DOMAIN slots' = DOMAIN slots \ {fd} /\ DOMAIN asked' = DOMAIN slots \ {fd}
    BY <1>1, Zenon
<1>4. VInv'
  <2>1. slots' \in [DOMAIN slots' -> [inode : 1..Len(inodes), offset : Nat]]
      BY <1>1, <1>2
  <2>2. asked' = [g \in DOMAIN slots' |-> asked'[g]]
      BY <1>1, <1>3
  <2>3. SlotsOK'
      BY <1>1, <1>2, <1>3, <2>1, <2>2 DEF SlotsOK
  <2> QED
      BY <1>1, <2>3, SameTop DEF VInv, NodesOK, DirsOK
<1>5. OpenOf(inodes, slots', asked')
        = [g \in DOMAIN OpenOf(inodes, slots, asked) \ {fd} |-> OpenOf(inodes, slots, asked)[g]]
  <2> DEFINE R(g) == [path |-> asked[g], file |-> NameIn(inodes, slots[g].inode), offset |-> slots[g].offset]
             Q(g) == [path |-> asked'[g], file |-> NameIn(inodes, slots'[g].inode), offset |-> slots'[g].offset]
  <2>1. OpenOf(inodes, slots, asked) = [g \in DOMAIN slots |-> R(g)]
      BY Zenon DEF OpenOf
  <2>2. OpenOf(inodes, slots', asked') = [g \in DOMAIN slots \ {fd} |-> Q(g)]
      BY <1>3, Zenon DEF OpenOf
  <2>3. \A g \in DOMAIN slots \ {fd} : asked'[g] = asked[g] /\ slots'[g] = slots[g]
      BY <1>1, Zenon
  <2>4. \A g \in DOMAIN slots \ {fd} : Q(g) = R(g)
      BY <2>3, Zenon
  <2> HIDE DEF R, Q
  <2> QED
      BY <2>1, <2>2, <2>4
<1>6. /\ OpenNow' = [g \in DOMAIN OpenNow \ {fd} |-> OpenNow[g]]
      /\ FilesNow' = FilesNow /\ Top' = Top /\ ret' = Abs!Done
    BY <1>1, <1>5, NowIs, SameTop DEF Done, Abs!Done
<1> QED
    BY <1>4, <1>6, Zenon DEF Abs!Close, OpenNow, FilesNow

LEMMA BadFdIs ==
    ASSUME VInv, NEW fd, BadFd(fd)
    PROVE  VInv' /\ Abs!BadFd(fd)
<1>1. ret' = [bad |-> fd] /\ UNCHANGED <<inodes, mounts, slots, nextFd, asked>>
    BY DEF BadFd
<1>2. VInv' /\ OpenNow' = OpenNow /\ FilesNow' = FilesNow /\ Top' = Top
    BY <1>1, NothingSet
<1> QED
    BY <1>1, <1>2, Zenon DEF Abs!BadFd, OpenNow, FilesNow

----------------------------------------------------------------------------
(* Writing *)

LEMMA ConcatIs ==
    ASSUME NEW S, NEW x \in Seq(S), NEW y \in Seq(S)
    PROVE  /\ x \o y \in Seq(S) /\ Len(x \o y) = Len(x) + Len(y)
           /\ \A i \in 1..(Len(x) + Len(y)) : (x \o y)[i] = IF i <= Len(x) THEN x[i] ELSE y[i - Len(x)]
    OBVIOUS

\* What Abs!Write puts in a file.
Written(data, off, buf) ==
    [i \in 1..Abs!Larger(off + Len(buf), Len(data)) |->
        IF i \in (off + 1)..(off + Len(buf)) THEN buf[i - off]
        ELSE IF i <= Len(data) THEN data[i] ELSE 0]

\* resize and copy: the bytes at their place, what was there around them, zeros
\* in a gap.
LEMMA WriteAtIs ==
    ASSUME NEW S, 0 \in S, NEW data \in Seq(S), NEW off \in Nat, NEW buf \in Seq(S)
    PROVE  /\ RamWriteAt(data, off, buf) \in Seq(S)
           /\ RamWriteAt(data, off, buf) = Written(data, off, buf)
<1> DEFINE end == off + Len(buf)
           M == Abs!Larger(end, Len(data))
           zeros == [i \in 1..(end - Len(data)) |-> 0]
           resized == IF end > Len(data) THEN data \o zeros ELSE data
           A == SubSeq(resized, 1, off)
           C == SubSeq(resized, end + 1, Len(resized))
           r == RamWriteAt(data, off, buf)
<1>1. Len(data) \in Nat /\ Len(buf) \in Nat /\ end \in Nat /\ end >= off /\ end - off = Len(buf)
    OBVIOUS
<1>2. M \in Nat /\ M >= end /\ M >= Len(data) /\ (end > Len(data) => M = end) /\ (~(end > Len(data)) => M = Len(data))
    BY <1>1 DEF Abs!Larger
<1>3. r = A \o buf \o C
    BY Zenon DEF RamWriteAt
<1> HIDE DEF M, r, end
<1>4. /\ resized \in Seq(S) /\ Len(resized) = M
      /\ \A i \in 1..M : resized[i] = IF i <= Len(data) THEN data[i] ELSE 0
  <2>1. CASE end > Len(data)
    <3>1. zeros \in Seq(S) /\ Len(zeros) = end - Len(data) /\ \A i \in 1..(end - Len(data)) : zeros[i] = 0
      <4>1. end - Len(data) \in Nat
          BY <1>1, <2>1
      <4> QED
          BY <4>1
    <3> HIDE DEF zeros
    <3>2. data \o zeros \in Seq(S) /\ Len(data \o zeros) = M
        BY <1>1, <1>2, <2>1, <3>1
    <3>3. ASSUME NEW i \in 1..M PROVE (data \o zeros)[i] = IF i <= Len(data) THEN data[i] ELSE 0
      <4>1. CASE i <= Len(data)
          BY <1>1, <1>2, <2>1, <3>1, <4>1
      <4>2. CASE ~(i <= Len(data))
        <5>1. i - Len(data) \in 1..(end - Len(data))
            BY <1>1, <1>2, <2>1, <4>2
        <5>2. (data \o zeros)[i] = zeros[i - Len(data)]
            BY <1>1, <1>2, <2>1, <3>1, <4>2
        <5> QED
            BY <3>1, <4>2, <5>1, <5>2, Zenon
      <4> QED
          BY <4>1, <4>2, Zenon
    <3> QED
        BY <2>1, <3>2, <3>3, Zenon
  <2>2. CASE ~(end > Len(data))
      BY <1>1, <1>2, <2>2
  <2> QED
      BY <2>1, <2>2, Zenon
<1> HIDE DEF resized
<1>5. A \in Seq(S) /\ Len(A) = off /\ \A i \in 1..off : A[i] = resized[i]
    BY <1>1, <1>2, <1>4
<1>6. C \in Seq(S) /\ Len(C) = M - end /\ \A i \in 1..(M - end) : C[i] = resized[end + i]
    BY <1>1, <1>2, <1>4
<1> HIDE DEF A, C
<1> DEFINE B == A \o buf
<1>7. B \in Seq(S) /\ Len(B) = end /\ \A i \in 1..end : B[i] = IF i <= off THEN A[i] ELSE buf[i - off]
    BY <1>5, ConcatIs, Zenon DEF end
<1>8. r = B \o C
    BY <1>3
<1> HIDE DEF B
<1>9. r \in Seq(S) /\ Len(r) = M /\ \A i \in 1..M : r[i] = IF i <= end THEN B[i] ELSE C[i - end]
  <2>1. end + (M - end) = M
      BY <1>1, <1>2
  <2>2. /\ B \o C \in Seq(S) /\ Len(B \o C) = Len(B) + Len(C)
        /\ \A i \in 1..(Len(B) + Len(C)) : (B \o C)[i] = IF i <= Len(B) THEN B[i] ELSE C[i - Len(B)]
      BY <1>6, <1>7, ConcatIs, Zenon
  <2> QED
      BY <1>6, <1>7, <1>8, <2>1, <2>2, Zenon
<1>10. ASSUME NEW i \in 1..M
       PROVE  r[i] = IF i \in (off + 1)..end THEN buf[i - off]
                     ELSE IF i <= Len(data) THEN data[i] ELSE 0
  <2>1. CASE i <= off
    <3>1. i <= end /\ i \in 1..end /\ i \in 1..off /\ i \notin (off + 1)..end
        BY <1>1, <2>1
    <3> QED
        BY <1>4, <1>5, <1>7, <1>9, <2>1, <3>1, Zenon
  <2>2. CASE i \in (off + 1)..end
    <3>1. i <= end /\ i \in 1..end /\ ~(i <= off)
        BY <1>1, <2>2
    <3> QED
        BY <1>7, <1>9, <2>2, <3>1, Zenon
  <2>3. CASE i > end
    <3>1. ~(i <= end) /\ i - end \in 1..(M - end) /\ end + (i - end) = i /\ i \notin (off + 1)..end
        BY <1>1, <1>2, <2>3
    <3> QED
        BY <1>4, <1>6, <1>9, <3>1, Zenon
  <2> QED
      BY <1>1, <2>1, <2>2, <2>3
<1>11. r = [i \in 1..M |-> r[i]]
    BY <1>9
<1>12. r = [i \in 1..M |-> IF i \in (off + 1)..end THEN buf[i - off]
                            ELSE IF i <= Len(data) THEN data[i] ELSE 0]
    BY <1>10, <1>11, Zenon
<1> QED
    BY <1>9, <1>12, Zenon DEF M, end, r, Written

LEMMA WriteIs ==
    ASSUME VInv, NEW fd \in DOMAIN slots, NEW len \in 0..MAX_IO, NEW buf \in [1..len -> Byte],
           Write(fd, buf)
    PROVE  VInv' /\ buf \in Abs!Buffer /\ Abs!Write(fd, buf)
<1> DEFINE n == slots[fd].inode
           f == NameIn(inodes, n)
           off == slots[fd].offset
           B == Nat
           end == off + Len(buf)
           w == RamWriteAt(inodes[n].data, off, buf)
           a == Written(inodes[n].data, off, buf)
<1>1. /\ off \in Nat /\ n \in 1..Len(inodes) /\ inodes[n].data \in Seq(B)
      /\ fd \in DOMAIN OpenNow
      /\ OpenNow[fd] = [path |-> asked[fd], file |-> f, offset |-> off]
      /\ Abs!IsDir(f) <=> inodes[n].kind = "dir"
      /\ inodes[n].kind # "dir" <=> inodes[n].kind = "file"
      /\ Abs!Data(f) = inodes[n].data
    BY SlotIs, Zenon
<1>2. OpenNow[fd].file = f /\ OpenNow[fd].offset = off
    BY <1>1
<1>3. len \in Nat /\ buf \in Seq(B) /\ Len(buf) \in Nat /\ 0 \in B
  <2>1. len \in Nat /\ \A i \in 1..len : buf[i] \in Nat
    <3>1. MAX_IO \in Nat /\ Byte \subseteq Nat
        BY VfsAssumption, Zenon
    <3>2. len \in Nat
        BY <3>1
    <3>3. \A i \in 1..len : buf[i] \in Byte
        BY Zenon
    <3> QED
        BY <3>1, <3>2, <3>3, Zenon
  <2>2. buf \in [1..len -> Nat]
      BY <2>1, Zenon
  <2> QED
      BY <2>1, <2>2
<1>4. buf \in Abs!Buffer
    BY DEF Abs!Buffer
<1>5. w \in Seq(B) /\ w = a
  <2> HIDE DEF n, off, B
  <2>1. 0 \in B /\ inodes[n].data \in Seq(B) /\ off \in Nat /\ buf \in Seq(B)
      BY <1>1, <1>3, Zenon
  <2>2. RamWriteAt(inodes[n].data, off, buf) \in Seq(B)
      BY <2>1, WriteAtIs
  <2>3. RamWriteAt(inodes[n].data, off, buf) = Written(inodes[n].data, off, buf)
      BY <2>1, WriteAtIs
  <2> QED
      BY <2>2, <2>3, Zenon
<1>6. UNCHANGED <<mounts, nextFd, asked>>
    BY DEF Write
<1>7. IF inodes[n].kind # "file" THEN ret' = [isDir |-> fd] /\ UNCHANGED <<slots, inodes>>
      ELSE /\ inodes' = [inodes EXCEPT ![n].data = RamWriteAt(@, off, buf)]
           /\ slots' = [slots EXCEPT ![fd].offset = @ + Len(buf)]
           /\ ret' = Done
    BY Zenon DEF Write
<1>8. end \in Nat
    BY <1>1, <1>3
<1> HIDE DEF B, end, w, a
<1>9. CASE inodes[n].kind = "dir"
  <2>1. ret' = [isDir |-> fd] /\ UNCHANGED <<slots, inodes>>
      BY <1>1, <1>7, <1>9
  <2>2. VInv' /\ OpenNow' = OpenNow /\ FilesNow' = FilesNow /\ Top' = Top
      BY <1>6, <2>1, NothingSet
  <2> QED
      BY <1>1, <1>2, <1>4, <1>9, <2>1, <2>2, Zenon DEF Abs!Write, OpenNow, FilesNow
<1>10. CASE inodes[n].kind = "file"
  <2>1. /\ inodes' = WithData(inodes, n, w)
        /\ slots' = [slots EXCEPT ![fd].offset = end] /\ ret' = Done
      BY <1>1, <1>7, <1>10 DEF w, end, WithData
  <2>2. Table(inodes)
      BY DEF VInv, NodesOK
  <2>3. /\ Table(inodes') /\ Len(inodes') = Len(inodes)
        /\ \A m \in 1..Len(inodes) : /\ NameIn(inodes', m) = NameIn(inodes, m)
                                      /\ inodes'[m].kind = inodes[m].kind
                                      /\ inodes'[m].data = IF m = n THEN w ELSE inodes[m].data
    <3> HIDE DEF n
    <3>1. w \in Seq(Nat)
        BY <1>5 DEF B
    <3>2. n \in 1..Len(inodes) /\ inodes[n].kind = "file" /\ Table(inodes)
        BY <1>1, <1>10, <2>2, Zenon
    <3> DEFINE u == WithData(inodes, n, w)
    <3>3. /\ Table(u) /\ Len(u) = Len(inodes)
          /\ \A m \in 1..Len(inodes) : /\ NameIn(u, m) = NameIn(inodes, m)
                                        /\ u[m].kind = inodes[m].kind
                                        /\ u[m].data = IF m = n THEN w ELSE inodes[m].data
        BY <3>1, <3>2, DataSet, Zenon
    <3>4. u = inodes'
        BY <2>1, Zenon
    <3> HIDE DEF u
    <3> QED
        BY <3>3, <3>4, Zenon
  <2>4. /\ Named(inodes', "dir") = Named(inodes, "dir")
        /\ FilesIn(inodes') = [FilesIn(inodes) EXCEPT ![f] = w]
    <3> HIDE DEF n
    <3>1. n \in 1..Len(inodes) /\ inodes[n].kind = "file"
        BY <1>1, <1>10, Zenon
    <3>2. \A m \in 1..Len(inodes) : NameIn(inodes', m) = NameIn(inodes, m) /\ inodes'[m].kind = inodes[m].kind
        BY <2>3, Zenon
    <3>3. \A m \in 1..Len(inodes) : inodes'[m].data = IF m = n THEN w ELSE inodes[m].data
        BY <2>3, Zenon
    <3> DEFINE u == inodes'
    <3>4. Table(inodes) /\ Table(u) /\ Len(u) = Len(inodes)
        BY <2>2, <2>3, Zenon
    <3> HIDE DEF w, u
    <3>5. \A m \in 1..Len(inodes) : NameIn(u, m) = NameIn(inodes, m) /\ u[m].kind = inodes[m].kind
        BY <3>2, Zenon DEF u
    <3>6. u[n].data = w /\ \A m \in 1..Len(inodes) : m # n => u[m].data = inodes[m].data
        BY <3>1, <3>3, Zenon DEF u
    <3>7. Named(u, "dir") = Named(inodes, "dir") /\ FilesIn(u) = [FilesIn(inodes) EXCEPT ![f] = w]
        BY <3>1, <3>4, <3>5, <3>6, FilesSet
    <3> QED
        BY <3>7, Zenon DEF u
  <2>5. /\ slots \in [DOMAIN slots -> [inode : 1..Len(inodes), offset : Nat]]
        /\ DOMAIN slots \subseteq 3..(nextFd - 1) /\ nextFd \in Nat /\ nextFd >= 3
        /\ asked = [g \in DOMAIN slots |-> asked[g]]
      BY DEF VInv, SlotsOK
  <2>6. /\ DOMAIN slots' = DOMAIN slots
        /\ slots' \in [DOMAIN slots -> [inode : 1..Len(inodes), offset : Nat]]
        /\ slots'[fd].inode = slots[fd].inode /\ slots'[fd].offset = end
        /\ \A g \in DOMAIN slots : g # fd => slots'[g] = slots[g]
      BY <1>8, <2>1, <2>5
  <2>7. VInv'
    <3>1. SlotsOK'
        BY <1>6, <2>3, <2>5, <2>6, Zenon DEF SlotsOK
    <3> QED
        BY <1>6, <2>3, <2>4, <3>1, SameTop DEF VInv, NodesOK, DirsOK
  <2>8. OpenOf(inodes', slots', asked') = [OpenOf(inodes, slots, asked) EXCEPT ![fd].offset = end]
    <3> DEFINE R(g) == [path |-> asked[g], file |-> NameIn(inodes, slots[g].inode), offset |-> slots[g].offset]
               Q(g) == [path |-> asked'[g], file |-> NameIn(inodes', slots'[g].inode), offset |-> slots'[g].offset]
    <3>1. OpenOf(inodes, slots, asked) = [g \in DOMAIN slots |-> R(g)]
        BY Zenon DEF OpenOf
    <3>2. OpenOf(inodes', slots', asked') = [g \in DOMAIN slots |-> Q(g)]
        BY <2>6, Zenon DEF OpenOf
    <3>3. \A g \in DOMAIN slots : NameIn(inodes', slots'[g].inode) = NameIn(inodes, slots[g].inode)
      <4>1. \A g \in DOMAIN slots : slots[g].inode \in 1..Len(inodes) /\ slots'[g].inode = slots[g].inode
          BY <2>5, <2>6, Zenon
      <4> QED
          BY <2>3, <4>1, Zenon
    <3>4. Q(fd) = [R(fd) EXCEPT !.offset = end]
        BY <1>6, <2>6, <3>3
    <3>5. \A g \in DOMAIN slots : g # fd => Q(g) = R(g)
        BY <1>6, <2>6, <3>3
    <3> HIDE DEF R, Q
    <3> QED
        BY <3>1, <3>2, <3>4, <3>5
  <2>9. /\ ret' = Abs!Done /\ OpenNow' = [OpenNow EXCEPT ![fd].offset = end]
         /\ FilesNow' = [FilesNow EXCEPT ![f] = a] /\ Top' = Top /\ ~Abs!IsDir(f)
      BY <1>1, <1>5, <1>6, <1>10, <2>1, <2>4, <2>8, NowIs, SameTop, Zenon DEF Done, Abs!Done
  <2>10. /\ a = Written(Abs!Data(OpenNow[fd].file), OpenNow[fd].offset, buf)
         /\ end = OpenNow[fd].offset + Len(buf)
    <3> HIDE DEF n, f, off
    <3> QED
      BY <1>1, <1>2, Zenon DEF a, end
  <2>11. /\ OpenNow' = [OpenNow EXCEPT ![fd].offset = end]
         /\ FilesNow' = [FilesNow EXCEPT ![OpenNow[fd].file] = a]
         /\ ~Abs!IsDir(OpenNow[fd].file)
      BY <1>2, <2>9, Zenon
  <2> HIDE DEF f, n, off
  <2> QED
      BY <1>4, <2>7, <2>9, <2>10, <2>11, Zenon DEF Abs!Write, OpenNow, FilesNow, Written
<1> QED
    BY <1>1, <1>9, <1>10, Zenon

----------------------------------------------------------------------------
(* Opening *)

LEMMA PathOf ==
    ASSUME NEW p \in Path
    PROVE  /\ p \in Seq(Chars) /\ p # <<>>
           /\ Absolute(p) <=> Abs!IsAbsolute(p)
           /\ ~Absolute(p) => LookupPath(p) = InvalidPath
<1>1. p \in Seq(STRING) /\ p # <<>>
    BY VfsAssumption
<1>2. p \in Seq(Chars)
    BY <1>1, PathIs
<1> QED
    BY <1>1, <1>2, Zenon DEF Absolute, Abs!IsAbsolute, LookupPath

\* A call that is refused leaves all as it was.
LEMMA RefuseIs ==
    ASSUME VInv, NEW p, NEW create, OpenFails(p), UNCHANGED mounts, ~Abs!Found(p, create)
    PROVE  VInv' /\ Abs!Refuses(p, create)
<1>1. ret' = [refused |-> p] /\ UNCHANGED <<inodes, mounts, slots, nextFd, asked>>
    BY DEF OpenFails
<1>2. VInv' /\ OpenNow' = OpenNow /\ FilesNow' = FilesNow /\ Top' = Top
    BY <1>1, NothingSet
<1> QED
    BY <1>1, <1>2, Zenon DEF Abs!Refuses, OpenNow, FilesNow

\* A descriptor more, for a node of the table of inodes that is then there.
LEMMA InstallIs ==
    ASSUME VInv, NEW p, NEW node, node \in 1..Len(inodes'), Table(inodes'), Len(inodes) <= Len(inodes'),
           \A m \in 1..Len(inodes) : NameIn(inodes', m) = NameIn(inodes, m),
           Named(inodes', "dir") = Named(inodes, "dir"),
           Install(node, p), UNCHANGED mounts, nextFd <= MaxFd
    PROVE  LET o == [path |-> p, file |-> NameIn(inodes', node), offset |-> 0]
           IN  /\ VInv' /\ Top' = Top /\ ret' = [fd |-> nextFd]
               /\ nextFd \in Fd \ DOMAIN OpenNow
               /\ OpenNow' = [g \in DOMAIN OpenNow \cup {nextFd} |-> IF g = nextFd THEN o ELSE OpenNow[g]]
               /\ OpenNow'[nextFd].path = p
<1> DEFINE fd == nextFd
           o == [path |-> p, file |-> NameIn(inodes', node), offset |-> 0]
<1>1. /\ slots \in [DOMAIN slots -> [inode : 1..Len(inodes), offset : Nat]]
      /\ DOMAIN slots \subseteq 3..(fd - 1) /\ fd \in Nat /\ fd >= 3
      /\ asked = [g \in DOMAIN slots |-> asked[g]] /\ Table(inodes)
    BY DEF VInv, SlotsOK, NodesOK
<1>2. /\ slots' = [g \in DOMAIN slots \cup {fd} |-> IF g = fd THEN [inode |-> node, offset |-> 0] ELSE slots[g]]
      /\ asked' = [g \in DOMAIN asked \cup {fd} |-> IF g = fd THEN p ELSE asked[g]]
      /\ nextFd' = fd + 1 /\ ret' = [fd |-> nextFd]
    BY Zenon DEF Install, Put
<1>3. fd \notin DOMAIN slots /\ fd \in Fd
    BY <1>1, VfsAssumption DEF Fd
<1>4. DOMAIN asked = DOMAIN slots
    BY <1>1, Zenon
<1> HIDE DEF fd
<1>5. /\ DOMAIN slots' = DOMAIN slots \cup {fd} /\ DOMAIN asked' = DOMAIN slots \cup {fd}
      /\ slots'[fd] = [inode |-> node, offset |-> 0] /\ asked'[fd] = p
      /\ \A g \in DOMAIN slots : g # fd /\ slots'[g] = slots[g] /\ asked'[g] = asked[g]
    BY <1>2, <1>3, <1>4, Zenon
<1>6. \A g \in DOMAIN slots : slots[g].inode \in 1..Len(inodes) /\ slots[g].inode \in 1..Len(inodes')
                              /\ slots[g] \in [inode : 1..Len(inodes'), offset : Nat]
  <2>1. Len(inodes) \in Nat /\ Len(inodes') \in Nat
      BY <1>1, TableIs
  <2>2. 1..Len(inodes) \subseteq 1..Len(inodes')
      BY <2>1
  <2> QED
      BY <1>1, <2>2
<1>7. SlotsOK'
  <2>1. slots' \in [DOMAIN slots' -> [inode : 1..Len(inodes'), offset : Nat]]
      BY <1>2, <1>5, <1>6
  <2>2. asked' = [g \in DOMAIN slots' |-> asked'[g]]
      BY <1>2, <1>4, <1>5
  <2>3. DOMAIN slots' \subseteq 3..(nextFd' - 1) /\ nextFd' \in Nat /\ nextFd' >= 3
      BY <1>1, <1>2, <1>5
  <2> QED
      BY <2>1, <2>2, <2>3 DEF SlotsOK
<1>8. VInv'
    BY <1>7, SameTop DEF VInv, NodesOK, DirsOK
<1>9. DOMAIN OpenNow = DOMAIN slots
    BY NowIs, Zenon DEF OpenOf
<1>10. OpenNow' = [g \in DOMAIN OpenNow \cup {fd} |-> IF g = fd THEN o ELSE OpenNow[g]]
  <2> DEFINE R(g) == [path |-> asked[g], file |-> NameIn(inodes, slots[g].inode), offset |-> slots[g].offset]
             Q(g) == [path |-> asked'[g], file |-> NameIn(inodes', slots'[g].inode), offset |-> slots'[g].offset]
  <2>1. OpenNow = [g \in DOMAIN slots |-> R(g)]
      BY NowIs, Zenon DEF OpenOf
  <2>2. OpenNow' = [g \in DOMAIN slots \cup {fd} |-> Q(g)]
      BY <1>5, NowIs, Zenon DEF OpenOf
  <2>3. Q(fd) = o
    <3>1. slots'[fd].inode = node /\ slots'[fd].offset = 0
        BY <1>5
    <3> QED
        BY <1>5, <3>1, Zenon
  <2>4. \A g \in DOMAIN slots : Q(g) = R(g)
      BY <1>5, <1>6, Zenon
  <2> HIDE DEF R, Q, o
  <2> QED
      BY <1>9, <2>1, <2>2, <2>3, <2>4, <1>5
<1>11. OpenNow'[fd].path = p
    BY <1>10
<1> QED
    BY <1>2, <1>3, <1>8, <1>9, <1>10, <1>11, SameTop, Zenon DEF fd

\* What is there is a directory or a file.
LEMMA HoldsIs ==
    ASSUME VInv, NEW f
    PROVE  Holds(f) <=> Abs!IsDir(f) \/ f \in DOMAIN FilesNow
<1>1. Table(inodes) /\ Named(inodes, "dir") = Named(Image, "dir")
    BY DEF VInv, NodesOK, DirsOK
<1>2. Abs!IsDir(f) <=> \E n \in DOMAIN inodes : inodes[n].kind = "dir" /\ NameIn(inodes, n) = f
  <2>1. Abs!IsDir(f) <=> f \in Named(inodes, "dir")
      BY <1>1, Zenon DEF Abs!IsDir
  <2>2. f \in Named(inodes, "dir") <=> \E n \in DOMAIN inodes : inodes[n].kind = "dir" /\ NameIn(inodes, n) = f
      BY NamedIs
  <2> QED
      BY <2>1, <2>2, Zenon
<1>3. f \in DOMAIN FilesNow <=> \E n \in DOMAIN inodes : inodes[n].kind = "file" /\ NameIn(inodes, n) = f
  <2>1. DOMAIN FilesNow = Named(inodes, "file")
      BY <1>1, FilesInIs, Zenon DEF FilesNow
  <2>2. f \in Named(inodes, "file") <=> \E n \in DOMAIN inodes : inodes[n].kind = "file" /\ NameIn(inodes, n) = f
      BY NamedIs
  <2> QED
      BY <2>1, <2>2, Zenon
<1>4. \A n \in DOMAIN inodes : inodes[n].kind = "dir" \/ inodes[n].kind = "file"
  <2>1. \A n \in DOMAIN inodes : inodes[n].kind \in {"dir", "file"}
      BY <1>1, TableIs, Zenon
  <2> QED
      BY <2>1, Zenon
<1> QED
    BY <1>2, <1>3, <1>4, Zenon DEF Holds

LEMMA DirIs ==
    ASSUME VInv, NEW n \in DOMAIN inodes
    PROVE  Abs!IsDir(NameIn(inodes, n)) <=> inodes[n].kind = "dir"
<1>1. Table(inodes) /\ n \in 1..Len(inodes) /\ Named(inodes, "dir") = Named(Image, "dir")
    BY TableIs, Zenon DEF VInv, NodesOK, DirsOK
<1> QED
    BY <1>1, KindIs, Zenon DEF Abs!IsDir

\* A path without words names a root.
LEMMA RootHeld ==
    ASSUME Least, VInv, NEW p, Absolute(p), Abs!Below(p) = {}
    PROVE  Holds(Abs!FileOf(p))
<1> DEFINE r == Abs!Tree(p)
<1>1. p \in Seq(Chars) /\ Len(p) \in Nat
    BY DEF Absolute
<1>2. PICK s : IsSpelt(p, s, Len(p)) /\ Abs!Spelt(p) = s[Len(p)]
    BY <1>1, SpeltIs, Zenon
<1>3. 0 \in 0..Len(p) /\ Len(p) \in 0..Len(p)
    BY <1>1
<1>4. s[Len(p)] = s[0] /\ s[0] = <<>>
  <2>1. \A w \in Abs!Below(p) : ~(0 < w[2] /\ w[2] <= Len(p))
      BY Zenon
  <2>2. s[Len(p)] = s[0]
      BY <1>1, <1>2, <1>3, <2>1, SpeltSame, Zenon
  <2> QED
      BY <1>1, <1>2, <2>2, SpeltFirst, Zenon
<1>5. Abs!FileOf(p) = <<r, <<>>>> /\ r \in Roots
    BY <1>2, <1>4, LookupIs, Zenon DEF VInv
<1>6. Table(inodes) /\ r \in DOMAIN inodes
    BY <1>5, TableIs, Zenon DEF VInv, NodesOK
<1> HIDE DEF r
<1>7. inodes[r].fs = r /\ inodes[r].words = <<>>
    BY <1>5, <1>6 DEF Table
<1>8. NameIn(inodes, r) = Abs!FileOf(p)
    BY <1>5, <1>7, Zenon DEF NameIn
<1> QED
    BY <1>6, <1>8, Zenon DEF Holds

\* A missing file is made if there is a directory for it, and only then.
Fits(p, d, name) ==
    /\ inodes[d].kind = "dir" /\ name \notin DOMAIN inodes[d].children
    /\ Abs!FileOf(p) = Child(NameIn(inodes, d), name)
    /\ inodes' = WithFile(inodes, d, name) /\ Install(Len(inodes) + 1, p)

LEMMA CreateIs ==
    ASSUME Least, VInv, NEW p, Absolute(p), ~Holds(Abs!FileOf(p)), CreateFile(p)
    PROVE  LET fits == p[Len(p)] # "/" /\ Abs!IsDir(Abs!ParentOf(Abs!FileOf(p)))
           IN  \/ ~fits /\ OpenFails(p)
               \/ fits /\ \E d \in 1..Len(inodes), name \in Seq(Chars) : Fits(p, d, name)
<1> DEFINE q == SplitParent(p).parent
           name == SplitParent(p).name
           dir == LookupPath(q)
           f == Abs!FileOf(p)
           g == Abs!FileOf(q)
<1>1. MountsOK /\ NodesOK /\ Table(inodes) /\ DOMAIN inodes = 1..Len(inodes) /\ Len(inodes) \in Nat
    BY TableIs, Zenon DEF VInv, NodesOK
<1>2. IF name = <<>> \/ dir < 0 THEN OpenFails(p)
      ELSE IF inodes[dir].kind # "dir" \/ name \in DOMAIN inodes[dir].children
      THEN OpenFails(p)
      ELSE inodes' = CreateIn(dir, name) /\ Install(Len(inodes) + 1, p)
    BY Zenon DEF CreateFile
<1>3. CASE p[Len(p)] = "/"
  <2>1. name = <<>>
      BY <1>3, NoName, Zenon
  <2> QED
      BY <1>2, <1>3, <2>1, Zenon
<1>4. CASE p[Len(p)] # "/"
  <2>1. Abs!Below(p) # {}
      BY RootHeld, Zenon
  <2>2. /\ Absolute(q) /\ Abs!Tree(q) = Abs!Tree(p)
        /\ name \in Seq(Chars) /\ name # <<>>
        /\ Abs!Spelt(p) = Append(Abs!Spelt(q), name)
      BY <1>4, <2>1, ParentSpelt, Zenon
  <2>3. f = <<Abs!Tree(p), Abs!Spelt(p)>>
      BY <1>1, LookupIs, Zenon
  <2>4. /\ Leads(dir, g) /\ g = <<Abs!Tree(q), Abs!Spelt(q)>>
        /\ Abs!Spelt(q) \in Seq(Seq(Chars))
      BY <1>1, <2>2, LookupIs, Zenon
  <2> HIDE DEF q, name, dir
  <2>5. f = Child(g, name) /\ Abs!ParentOf(f) = g
    <3> DEFINE r == Abs!Tree(q)
               words == Abs!Spelt(q)
    <3>1. f = <<r, Append(words, name)>>
        BY <2>2, <2>3, Zenon
    <3> HIDE DEF r, words
    <3>2. /\ Child(<<r, words>>, name) = <<r, Append(words, name)>>
          /\ Abs!ParentOf(Child(<<r, words>>, name)) = <<r, words>>
        BY <2>2, <2>4, ChildIs, Zenon DEF words
    <3>3. g = <<r, words>>
        BY <2>4, Zenon DEF r, words
    <3> HIDE DEF f, g
    <3> QED
        BY <3>1, <3>2, <3>3, Zenon
  <2> HIDE DEF f, g
  <2>6. CASE dir \in DOMAIN inodes /\ NameIn(inodes, dir) = g
    <3>1. dir \in 1..Len(inodes) /\ ~(dir < 0)
        BY <1>1, <2>6
    <3>2. Abs!IsDir(g) <=> inodes[dir].kind = "dir"
        BY <2>6, DirIs, Zenon
    <3>3. CASE inodes[dir].kind # "dir"
        BY <1>2, <2>5, <3>2, <3>3, Zenon DEF f
    <3>4. CASE inodes[dir].kind = "dir"
      <4>1. name \notin DOMAIN inodes[dir].children
        <5> SUFFICES ASSUME name \in DOMAIN inodes[dir].children PROVE FALSE
            BY Zenon
        <5> DEFINE n == inodes[dir].children[name]
        <5>1. /\ n \in DOMAIN inodes /\ inodes[n].fs = inodes[dir].fs
              /\ inodes[n].words = Append(inodes[dir].words, name)
            BY <1>1, <2>6, LinkIs, Zenon
        <5> HIDE DEF n
        <5>2. NameIn(inodes, n) = Child(NameIn(inodes, dir), name)
            BY <5>1 DEF NameIn, Child
        <5>3. NameIn(inodes, n) = f
            BY <2>5, <2>6, <5>2, Zenon
        <5> QED
            BY <5>1, <5>3, Zenon DEF Holds, f
      <4>2. inodes' = CreateIn(dir, name) /\ Install(Len(inodes) + 1, p)
          BY <1>2, <2>2, <3>1, <3>4, <4>1, Zenon
      <4>3. inodes' = WithFile(inodes, dir, name)
          BY <4>2, Zenon DEF CreateIn, WithFile
      <4>4. Fits(p, dir, name)
          BY <2>5, <2>6, <3>4, <4>1, <4>2, <4>3, Zenon DEF Fits, f
      <4> QED
          BY <1>4, <2>2, <2>5, <3>1, <3>2, <3>4, <4>4, Zenon DEF f
    <3> QED
        BY <3>3, <3>4
  <2>7. CASE (dir = NotFound \/ dir = NotDir) /\ ~Holds(g)
    <3>1. dir < 0
        BY <2>7 DEF NotFound, NotDir
    <3>2. ~Abs!IsDir(g)
        BY <2>7, HoldsIs, Zenon
    <3> QED
        BY <1>2, <2>5, <3>1, <3>2, Zenon DEF f
  <2> QED
      BY <2>4, <2>6, <2>7, Zenon DEF Leads
<1> QED
    BY <1>3, <1>4

LEMMA OpenIs ==
    ASSUME Least, VInv, NEW p \in Path, NEW create \in BOOLEAN, Open(p, create)
    PROVE  /\ VInv'
           /\ Abs!Refuses(p, create) \/ \E fd \in Fd \ DOMAIN OpenNow : Abs!Opens(p, create, fd)
<1> DEFINE f == Abs!FileOf(p)
           node == LookupPath(p)
           new == Len(inodes) + 1
<1>1. nextFd <= MaxFd /\ UNCHANGED mounts
    BY DEF Open
<1>2. /\ node > 0 => Install(node, p) /\ UNCHANGED inodes
      /\ ~(node > 0) /\ create /\ node = NotFound => CreateFile(p)
      /\ ~(node > 0) /\ ~(create /\ node = NotFound) => OpenFails(p)
    BY Zenon DEF Open
<1>3. MountsOK /\ NodesOK /\ Table(inodes) /\ DOMAIN inodes = 1..Len(inodes) /\ Len(inodes) \in Nat
    BY TableIs, Zenon DEF VInv, NodesOK
<1>4. /\ p \in Seq(Chars) /\ (Absolute(p) <=> Abs!IsAbsolute(p))
      /\ ~Absolute(p) => node = InvalidPath
    BY PathOf, Zenon
<1>5. /\ ~(NotFound > 0) /\ ~(NotDir > 0) /\ ~(InvalidPath > 0)
      /\ NotDir # NotFound /\ InvalidPath # NotFound
    BY DEF NotFound, NotDir, InvalidPath
<1> HIDE DEF node
<1>6. ASSUME OpenFails(p), ~Abs!Found(p, create) PROVE VInv' /\ Abs!Refuses(p, create)
    BY <1>1, <1>6, RefuseIs, Zenon
<1>7. Abs!Found(p, create) <=>
         /\ Absolute(p)
         /\ \/ Holds(f)
            \/ create /\ p[Len(p)] # "/" /\ Abs!IsDir(Abs!ParentOf(f))
  <2>1. Holds(f) <=> Abs!IsDir(f) \/ f \in DOMAIN FilesNow
      BY HoldsIs, Zenon
  <2> QED
      BY <1>4, <2>1, Zenon DEF Abs!Found, FilesNow
\* A descriptor for a node of the inodes that are then there.
<1>8. ASSUME NEW n, n \in 1..Len(inodes'), Table(inodes'), Len(inodes) <= Len(inodes'),
             \A m \in 1..Len(inodes) : NameIn(inodes', m) = NameIn(inodes, m),
             Named(inodes', "dir") = Named(inodes, "dir"),
             Install(n, p), NameIn(inodes', n) = f, Abs!Found(p, create),
             FilesNow' = IF Abs!IsDir(f) \/ f \in DOMAIN FilesNow THEN FilesNow
                         ELSE [g \in DOMAIN FilesNow \cup {f} |-> IF g = f THEN <<>> ELSE FilesNow[g]]
      PROVE  VInv' /\ \E fd \in Fd \ DOMAIN OpenNow : Abs!Opens(p, create, fd)
  <2> DEFINE o == [path |-> p, file |-> NameIn(inodes', n), offset |-> 0]
             a == [path |-> p, file |-> f, offset |-> 0]
  <2>1. /\ VInv' /\ Top' = Top /\ ret' = [fd |-> nextFd]
        /\ nextFd \in Fd \ DOMAIN OpenNow
        /\ OpenNow' = [g \in DOMAIN OpenNow \cup {nextFd} |-> IF g = nextFd THEN o ELSE OpenNow[g]]
        /\ OpenNow'[nextFd].path = p
      BY <1>1, <1>8, InstallIs, Zenon
  <2>2. o = a
      BY <1>8, Zenon
  <2> HIDE DEF o
  <2>3. OpenNow' = [g \in DOMAIN OpenNow \cup {nextFd} |-> IF g = nextFd THEN a ELSE OpenNow[g]]
      BY <2>1, <2>2, Zenon
  <2>4. Abs!Opens(p, create, nextFd)
      BY <1>8, <2>1, <2>3, Zenon DEF Abs!Opens, OpenNow, FilesNow
  <2> QED
      BY <2>1, <2>4, Zenon DEF Abs!Opens
<1>9. CASE ~Absolute(p)
    BY <1>2, <1>4, <1>5, <1>6, <1>7, <1>9, Zenon
<1>10. CASE Absolute(p)
  <2>1. Leads(node, f) /\ f = <<Abs!Tree(p), Abs!Spelt(p)>>
      BY <1>3, <1>10, LookupIs, Zenon DEF node
  <2>2. CASE node \in DOMAIN inodes /\ NameIn(inodes, node) = f
    <3>1. node \in 1..Len(inodes) /\ node > 0
        BY <1>3, <2>2
    <3>2. Install(node, p) /\ UNCHANGED inodes
        BY <1>2, <3>1, Zenon
    <3>3. Len(inodes) <= Len(inodes') /\ node \in 1..Len(inodes') /\ Table(inodes')
      <4>1. Len(inodes) <= Len(inodes)
          BY <1>3
      <4> QED
          BY <1>3, <3>1, <3>2, <4>1
    <3>4. /\ NameIn(inodes', node) = f /\ Named(inodes', "dir") = Named(inodes, "dir")
          /\ \A m \in 1..Len(inodes) : NameIn(inodes', m) = NameIn(inodes, m)
        BY <2>2, <3>2
    <3>5. Holds(f)
        BY <2>2, Zenon DEF Holds
    <3>6. Abs!IsDir(f) \/ f \in DOMAIN FilesNow
        BY <3>5, HoldsIs, Zenon
    <3>7. FilesNow' = FilesNow
        BY <3>2, NowIs
    <3>8. Abs!Found(p, create)
        BY <1>7, <1>10, <3>5, Zenon
    <3>9. FilesNow' = IF Abs!IsDir(f) \/ f \in DOMAIN FilesNow THEN FilesNow
                      ELSE [g \in DOMAIN FilesNow \cup {f} |-> IF g = f THEN <<>> ELSE FilesNow[g]]
        BY <3>6, <3>7, Zenon
    <3> HIDE DEF f
    <3> QED
        BY <1>8, <3>2, <3>3, <3>4, <3>8, <3>9, Zenon
  <2>3. CASE node = NotDir /\ ~Holds(f) /\ ~Abs!IsDir(Abs!ParentOf(f))
      BY <1>2, <1>5, <1>6, <1>7, <2>3, Zenon
  <2>4. CASE node = NotFound /\ ~Holds(f)
    <3>1. CASE ~create
        BY <1>2, <1>5, <1>6, <1>7, <2>4, <3>1, Zenon
    <3>2. CASE create
      <4> DEFINE fits == p[Len(p)] # "/" /\ Abs!IsDir(Abs!ParentOf(f))
      <4>1. CreateFile(p)
          BY <1>2, <1>5, <2>4, <3>2, Zenon
      <4>2. \/ ~fits /\ OpenFails(p)
            \/ fits /\ \E d \in 1..Len(inodes), name \in Seq(Chars) : Fits(p, d, name)
          BY <1>10, <2>4, <4>1, CreateIs, Zenon
      <4>3. CASE ~fits /\ OpenFails(p)
          BY <1>6, <1>7, <2>4, <4>3, Zenon
      <4>4. ASSUME NEW d \in 1..Len(inodes), NEW name \in Seq(Chars), fits, Fits(p, d, name)
            PROVE  VInv' /\ \E fd \in Fd \ DOMAIN OpenNow : Abs!Opens(p, create, fd)
        <5> DEFINE u == WithFile(inodes, d, name)
        <5>1. /\ inodes[d].kind = "dir" /\ name \notin DOMAIN inodes[d].children
              /\ f = Child(NameIn(inodes, d), name) /\ inodes' = u /\ Install(new, p)
            BY <4>4, Zenon DEF Fits
        <5>2. /\ Table(u) /\ Len(u) = new
              /\ NameIn(u, new) = Child(NameIn(inodes, d), name)
              /\ u[new].kind = "file" /\ u[new].data = <<>>
              /\ \A m \in 1..Len(inodes) : /\ NameIn(u, m) = NameIn(inodes, m) /\ u[m].kind = inodes[m].kind
                                           /\ u[m].data = inodes[m].data
            BY <1>3, <5>1, FileAdded, Zenon
        <5>3. Len(inodes) <= Len(u) /\ new \in 1..Len(u)
            BY <1>3, <5>2
        <5> HIDE DEF u, f
        <5>4. NameIn(u, new) = f
            BY <5>1, <5>2, Zenon
        <5>5. /\ Named(u, "dir") = Named(inodes, "dir")
              /\ FilesIn(u) = OneMore(FilesIn(inodes), f)
          <6>1. Table(inodes) /\ Table(u) /\ Len(u) = Len(inodes) + 1
              BY <1>3, <5>2, Zenon
          <6>2. /\ u[Len(inodes) + 1].kind = "file" /\ u[Len(inodes) + 1].data = <<>>
                /\ NameIn(u, Len(inodes) + 1) = f
              BY <5>2, <5>4, Zenon
          <6>3. \A m \in 1..Len(inodes) : /\ NameIn(u, m) = NameIn(inodes, m) /\ u[m].kind = inodes[m].kind
                                           /\ u[m].data = inodes[m].data
              BY <5>2, Zenon
          <6> QED
              BY <6>1, <6>2, <6>3, FilesPlus, Zenon
        <5> HIDE DEF new
        <5>6. ~(Abs!IsDir(f) \/ f \in DOMAIN FilesNow)
            BY <2>4, HoldsIs, Zenon
        <5>7. FilesNow' = IF Abs!IsDir(f) \/ f \in DOMAIN FilesNow THEN FilesNow
                          ELSE [g \in DOMAIN FilesNow \cup {f} |-> IF g = f THEN <<>> ELSE FilesNow[g]]
          <6>1. FilesNow' = FilesIn(u) /\ FilesNow = FilesIn(inodes)
              BY <5>1, NowIs, Zenon
          <6>2. FilesNow' = [g \in DOMAIN FilesNow \cup {f} |-> IF g = f THEN <<>> ELSE FilesNow[g]]
              BY <5>5, <6>1, Zenon DEF OneMore
          <6> QED
              BY <5>6, <6>2, Zenon
        <5>8. Abs!Found(p, create)
            BY <1>7, <1>10, <3>2, <4>4, Zenon
        <5>9. /\ new \in 1..Len(inodes') /\ Table(inodes') /\ Len(inodes) <= Len(inodes')
              /\ \A m \in 1..Len(inodes) : NameIn(inodes', m) = NameIn(inodes, m)
              /\ Named(inodes', "dir") = Named(inodes, "dir") /\ NameIn(inodes', new) = f
          <6>1. inodes' = u
              BY <5>1, Zenon
          <6>2. \A m \in 1..Len(inodes) : NameIn(u, m) = NameIn(inodes, m)
              BY <5>2, Zenon
          <6> QED
              BY <5>2, <5>3, <5>4, <5>5, <6>1, <6>2, Zenon
        <5>10. Install(new, p)
            BY <5>1, Zenon
        <5> QED
            BY <1>8, <5>7, <5>8, <5>9, <5>10, Zenon
      <4> QED
          BY <4>2, <4>3, <4>4, Zenon
    <3> QED
        BY <3>1, <3>2
  <2>5. node = NotDir /\ ~Holds(f) => \/ ~Abs!IsDir(Abs!ParentOf(f)) \/ node = NotFound
                                      \/ node \in DOMAIN inodes /\ NameIn(inodes, node) = f
    <3> DEFINE g == Abs!ParentOf(f)
    <3> SUFFICES ASSUME \A d \in DOMAIN inodes : NameIn(inodes, d) = g => inodes[d].kind # "dir"
                 PROVE  ~Abs!IsDir(g)
        BY <2>1, Zenon DEF Leads
    <3> HIDE DEF g
    <3>1. Abs!IsDir(g) => Holds(g)
        BY HoldsIs, Zenon
    <3>2. \A d \in DOMAIN inodes : NameIn(inodes, d) = g => ~Abs!IsDir(g)
        BY DirIs, Zenon
    <3> QED
        BY <3>1, <3>2, Zenon DEF Holds
  <2> QED
      BY <2>1, <2>2, <2>3, <2>4, <2>5, Zenon DEF Leads
<1> QED
    BY <1>9, <1>10

----------------------------------------------------------------------------
(* Finite directories *)

INSTANCE FiniteSetTheorems

\* The directories have finitely many entries: without that, the size of one of
\* PondFS would mean nothing.
Finite == \A d \in DOMAIN inodes : IsFiniteSet(DOMAIN inodes[d].children)

\* The least number of a set.
LEMMA LeastIs == Least
<1> SUFFICES ASSUME NEW S, S \subseteq Nat, S # {} PROVE \E x \in S : \A y \in S : x <= y
    BY Zenon DEF Least
<1>1. \E x \in S : \A y \in S : ~(<<y, x>> \in OpToRel(<, Nat))
    BY NatLessThanWellFounded, WFMin, Zenon
<1>2. PICK x \in S : \A y \in S : ~(<<y, x>> \in OpToRel(<, Nat))
    BY <1>1, Zenon
<1>3. \A y \in S : ~(y < x)
    BY <1>2, Zenon DEF OpToRel
<1> QED
    BY <1>3

\* A name that is not empty has a last word.
LEMMA LastIs ==
    ASSUME NEW S, NEW s \in Seq(S), s # <<>>
    PROVE  LET r == SubSeq(s, 1, Len(s) - 1)
           IN  r \in Seq(S) /\ s[Len(s)] \in S /\ s = Append(r, s[Len(s)])
<1> DEFINE r == SubSeq(s, 1, Len(s) - 1)
           a == Append(r, s[Len(s)])
<1>1. Len(s) \in Nat /\ Len(s) >= 1
    OBVIOUS
<1>2. r \in Seq(S) /\ s[Len(s)] \in S /\ Len(r) = Len(s) - 1 /\ \A i \in 1..(Len(s) - 1) : r[i] = s[i]
  <2>1. Len(s) - 1 \in Nat /\ Len(s) - 1 <= Len(s) /\ Len(s) \in 1..Len(s)
      BY <1>1
  <2>2. r \in Seq(S)
      BY <2>1
  <2>3. Len(r) = Len(s) - 1
    <3> DEFINE m == Len(s) - 1
    <3>1. m \in 0..Len(s)
        BY <2>1
    <3> HIDE DEF m
    <3>2. Len(SubSeq(s, 1, m)) = m
        BY <3>1
    <3> QED
        BY <3>2, Zenon DEF m
  <2>4. \A i \in 1..(Len(s) - 1) : r[i] = s[i]
      BY <2>1
  <2>5. s[Len(s)] \in S
      BY <2>1
  <2> QED
      BY <2>2, <2>3, <2>4, <2>5
<1> HIDE DEF r
<1>3. a \in Seq(S) /\ Len(a) = Len(s) /\ \A i \in 1..Len(s) : a[i] = s[i]
    BY <1>1, <1>2
<1> HIDE DEF a
<1>4. a = s
    BY <1>1, <1>3
<1> QED
    BY <1>2, <1>4, Zenon DEF a, r

\* The entries of a directory, one for each name below its own.
BelowIn(t, f) == {g \in Named(t, "dir") \cup Named(t, "file") : g[2] # <<>> /\ Abs!ParentOf(g) = f}

LEMMA NameIs ==
    ASSUME NEW t, Table(t), NEW n \in DOMAIN t
    PROVE  /\ NameIn(t, n) \in Named(t, "dir") \cup Named(t, "file")
           /\ NameIn(t, n)[1] = t[n].fs /\ NameIn(t, n)[2] = t[n].words
<1>1. n \in 1..Len(t) /\ t[n].kind \in {"dir", "file"}
    BY TableIs, Zenon
<1>2. NameIn(t, n) \in Named(t, "dir") <=> t[n].kind = "dir"
    BY <1>1, KindIs, Zenon
<1>3. NameIn(t, n) \in Named(t, "file") <=> t[n].kind = "file"
    BY <1>1, KindIs, Zenon
<1>4. NameIn(t, n)[1] = t[n].fs /\ NameIn(t, n)[2] = t[n].words
    BY DEF NameIn
<1> QED
    BY <1>1, <1>2, <1>3, <1>4, Zenon

LEMMA EntriesOf ==
    ASSUME NEW t, Table(t), NEW d \in DOMAIN t, IsFiniteSet(DOMAIN t[d].children)
    PROVE  Cardinality(BelowIn(t, NameIn(t, d))) = Cardinality(DOMAIN t[d].children)
<1> DEFINE D == DOMAIN t[d].children
           f == NameIn(t, d)
           G == BelowIn(t, f)
           c(word) == t[d].children[word]
           h == [word \in D |-> NameIn(t, c(word))]
<1>1. IsFiniteSet(D)
    OBVIOUS
<1>2. /\ DOMAIN t = 1..Len(t) /\ t[d].words \in Seq(Seq(Chars)) /\ D \subseteq Seq(Chars)
      /\ \A n \in DOMAIN t : t[n].words \in Seq(Seq(Chars))
    BY TableIs, ZenonT(60)
<1>3. \A word \in D : /\ c(word) \in DOMAIN t /\ t[c(word)].fs = t[d].fs
                       /\ t[c(word)].words = Append(t[d].words, word)
    BY LinkIs, Zenon
<1> HIDE DEF D, c
<1>4. ASSUME NEW word \in D PROVE h[word] \in G /\ h[word][2] = Append(t[d].words, word)
  <2> DEFINE g == NameIn(t, c(word))
             x == Child(<<t[d].fs, t[d].words>>, word)
  <2>1. h[word] = g
      BY Zenon
  <2>2. c(word) \in DOMAIN t /\ t[c(word)].fs = t[d].fs /\ t[c(word)].words = Append(t[d].words, word)
      BY <1>3, Zenon
  <2>3. /\ x = <<t[d].fs, Append(t[d].words, word)>> /\ x[2] = Append(t[d].words, word)
        /\ x[2] # <<>> /\ Abs!ParentOf(x) = <<t[d].fs, t[d].words>>
    <3>1. word \in Seq(Chars)
        BY <1>2, Zenon
    <3> DEFINE fs == t[d].fs
               words == t[d].words
    <3>2. words \in Seq(Seq(Chars))
        BY <1>2, Zenon
    <3> HIDE DEF fs, words
    <3> DEFINE y == Child(<<fs, words>>, word)
    <3>3. y = <<fs, Append(words, word)>> /\ Abs!ParentOf(y) = <<fs, words>>
        BY <3>1, <3>2, ChildIs, Zenon
    <3>4. y[2] = Append(words, word) /\ y[2] # <<>>
      <4>1. Append(words, word) # <<>>
          BY <3>1, <3>2, AppendIs
      <4> HIDE DEF y
      <4>2. y[2] = Append(words, word)
          BY <3>3
      <4> QED
          BY <4>1, <4>2, Zenon
    <3> QED
        BY <3>3, <3>4, Zenon DEF fs, words
  <2>4. g = x
      BY <2>2, <2>3, Zenon DEF NameIn
  <2>5. g \in Named(t, "dir") \cup Named(t, "file")
      BY <2>2, NameIs, Zenon
  <2>6. f = <<t[d].fs, t[d].words>>
      BY Zenon DEF NameIn
  <2> HIDE DEF g, x, h, f
  <2>7. g \in BelowIn(t, f) /\ g[2] = Append(t[d].words, word)
      BY <2>3, <2>4, <2>5, <2>6, Zenon DEF BelowIn
  <2> QED
      BY <2>1, <2>7, Zenon
<1>5. ASSUME NEW g \in G PROVE \E word \in D : h[word] = g
  <2>1. g \in Named(t, "dir") \cup Named(t, "file") /\ g[2] # <<>> /\ Abs!ParentOf(g) = f
      BY Zenon DEF BelowIn
  <2>2. PICK n \in DOMAIN t : NameIn(t, n) = g
    <3>1. \A kind : g \in Named(t, kind) => \E n \in DOMAIN t : NameIn(t, n) = g
      <4> TAKE kind
      <4>1. g \in Named(t, kind) <=> \E n \in DOMAIN t : t[n].kind = kind /\ NameIn(t, n) = g
          BY NamedIs
      <4> QED
          BY <4>1, Zenon
    <3> QED
        BY <2>1, <3>1, Zenon
  <2> DEFINE s == t[n].words
             r == SubSeq(s, 1, Len(s) - 1)
             word == s[Len(s)]
  <2>3. g[1] = t[n].fs /\ g[2] = s
      BY <2>2, NameIs, Zenon
  <2>4. s \in Seq(Seq(Chars)) /\ s # <<>>
      BY <1>2, <2>1, <2>3, Zenon
  <2>5. r \in Seq(Seq(Chars)) /\ word \in Seq(Chars) /\ s = Append(r, word)
    <3> HIDE DEF s
    <3> QED
        BY <2>4, LastIs, Zenon
  <2>6. Abs!ParentOf(g) = <<t[n].fs, r>>
      BY <2>3, Zenon DEF Abs!ParentOf
  <2> HIDE DEF r, word
  <2>7. t[n].fs = t[d].fs /\ r = t[d].words
    <3>1. f = <<t[d].fs, t[d].words>>
        BY Zenon DEF NameIn
    <3>2. <<t[n].fs, r>> = <<t[d].fs, t[d].words>>
        BY <2>1, <2>6, <3>1, Zenon
    <3> QED
        BY <3>2
  <2>8. PICK e \in DOMAIN t : /\ t[e].fs = t[n].fs /\ t[e].words = r /\ t[e].kind = "dir"
                              /\ word \in DOMAIN t[e].children /\ t[e].children[word] = n
      BY <2>5, EntryIs, SMTT(60)
  <2>9. e = d
    <3>1. NameIn(t, e) = NameIn(t, d)
        BY <2>7, <2>8, Zenon DEF NameIn
    <3> QED
        BY <1>2, <3>1, OneName, Zenon
  <2>10. word \in D /\ c(word) = n
      BY <2>8, <2>9, Zenon DEF D, c
  <2>11. h[word] = g
      BY <2>2, <2>10, Zenon
  <2> QED
      BY <2>10, <2>11, Zenon
<1>6. ASSUME NEW a \in D, NEW b \in D, h[a] = h[b] PROVE a = b
  <2>1. Append(t[d].words, a) = Append(t[d].words, b)
      BY <1>4, <1>6, Zenon
  <2>2. a \in Seq(Chars) /\ b \in Seq(Chars)
      BY <1>2, Zenon
  <2>3. \A r \in Seq(Seq(Chars)), x \in Seq(Chars) : Append(r, x) = Append(t[d].words, b) => r = t[d].words /\ x = b
      BY <1>2, <2>2, AppendIs
  <2> QED
      BY <1>2, <2>1, <2>2, <2>3, Zenon
<1>7. h \in [D -> G]
    BY <1>4, Zenon
<1> HIDE DEF G, h
<1>8. h \in Bijection(D, G)
  <2>1. h \in Injection(D, G)
      BY <1>6, <1>7, Zenon DEF Injection, IsInjective
  <2>2. h \in Surjection(D, G)
      BY <1>5, <1>7, Zenon DEF Surjection
  <2> QED
      BY <2>1, <2>2, Zenon DEF Bijection
<1>9. Cardinality(G) = Cardinality(D)
  <2>1. ExistsBijection(D, G)
      BY <1>8, Zenon DEF ExistsBijection
  <2> QED
      BY <1>1, <2>1, FS_Bijection, Zenon
<1> QED
    BY <1>9, Zenon DEF D, G

\* size, of a file, of a directory of ramfs and of one of PondFS.
LEMMA SizeIs ==
    ASSUME VInv, Finite, NEW fd \in DOMAIN slots
    PROVE  /\ Size(slots[fd].inode) = Abs!Length(OpenNow[fd].file)
           /\ Size(slots[fd].inode) \in Nat
<1> DEFINE n == slots[fd].inode
           f == NameIn(inodes, n)
<1>1. /\ n \in 1..Len(inodes) /\ inodes[n].data \in Seq(Nat)
      /\ OpenNow[fd].file = f /\ Abs!Data(f) = inodes[n].data
      /\ Abs!IsDir(f) <=> inodes[n].kind = "dir"
  <2>1. /\ n \in 1..Len(inodes) /\ inodes[n].data \in Seq(Nat)
        /\ OpenNow[fd] = [path |-> asked[fd], file |-> f, offset |-> slots[fd].offset]
        /\ Abs!Data(f) = inodes[n].data
        /\ Abs!IsDir(f) <=> inodes[n].kind = "dir"
      BY SlotIs, Zenon
  <2>2. OpenNow[fd].file = f
      BY <2>1
  <2> QED
      BY <2>1, <2>2, Zenon
<1>2. Table(inodes) /\ n \in DOMAIN inodes
    BY <1>1, TableIs, Zenon DEF VInv, NodesOK
<1> HIDE DEF n
<1>3. f[1] = inodes[n].fs
    BY <1>2, NameIs, Zenon
<1>4. CASE inodes[n].kind = "dir" /\ inodes[n].fs = 2
  <2>1. Size(n) = Cardinality(DOMAIN inodes[n].children)
      BY <1>4, RootsAre, Zenon DEF Size
  <2>2. Abs!Length(f) = Abs!Cardinality(Abs!Entries(f))
      BY <1>1, <1>3, <1>4, Zenon DEF Abs!Length
  <2>3. Abs!Entries(f) = BelowIn(inodes, f)
    <3>1. Named(Image, "dir") = Named(inodes, "dir") /\ DOMAIN FilesIn(inodes) = Named(inodes, "file")
        BY <1>2, FilesInIs, Zenon DEF VInv, DirsOK
    <3> QED
        BY <3>1, Zenon DEF Abs!Entries, BelowIn
  <2>4. Abs!Length(f) = Cardinality(BelowIn(inodes, f))
      BY <2>2, <2>3, Zenon DEF Cardinality, Abs!Cardinality
  <2>5. IsFiniteSet(DOMAIN inodes[n].children)
      BY <1>2, Zenon DEF Finite
  <2>6. Cardinality(DOMAIN inodes[n].children) \in Nat
      BY <2>5, FS_CardinalityType, Zenon
  <2>7. Cardinality(BelowIn(inodes, f)) = Cardinality(DOMAIN inodes[n].children)
      BY <1>2, <2>5, EntriesOf, Zenon
  <2> QED
      BY <1>1, <2>1, <2>4, <2>6, <2>7, Zenon DEF n
<1>5. CASE ~(inodes[n].kind = "dir" /\ inodes[n].fs = 2)
  <2>1. Size(n) = Len(inodes[n].data)
      BY <1>5, RootsAre, Zenon DEF Size
  <2>2. Abs!Length(f) = Len(Abs!Data(f))
      BY <1>1, <1>3, <1>5, Zenon DEF Abs!Length
  <2>3. Len(inodes[n].data) \in Nat
      BY <1>1
  <2> QED
      BY <1>1, <2>1, <2>2, <2>3, Zenon DEF n
<1> QED
    BY <1>4, <1>5

LEMMA LseekIs ==
    ASSUME VInv, Finite, NEW fd \in DOMAIN slots, NEW off \in SeekArg, NEW whence \in {"set", "cur", "end"},
           Lseek(fd, off, whence)
    PROVE  VInv' /\ Abs!Seek(fd, off, whence)
<1> DEFINE n == slots[fd].inode
           base == CASE whence = "set" -> 0
                     [] whence = "cur" -> slots[fd].offset
                     [] whence = "end" -> Size(n)
           absBase == CASE whence = "set" -> 0
                        [] whence = "cur" -> OpenNow[fd].offset
                        [] whence = "end" -> Abs!Length(OpenNow[fd].file)
           new == Larger(0, base + off)
<1>1. slots[fd].offset \in Nat /\ OpenNow[fd].offset = slots[fd].offset
  <2>1. /\ slots[fd].offset \in Nat
        /\ OpenNow[fd] = [path |-> asked[fd], file |-> NameIn(inodes, n), offset |-> slots[fd].offset]
      BY SlotIs, Zenon
  <2> QED
      BY <2>1
<1>2. Size(n) = Abs!Length(OpenNow[fd].file) /\ Size(n) \in Nat
    BY SizeIs
<1>3. base \in Nat /\ absBase = base
  <2>1. CASE whence = "set"
      BY <2>1
  <2>2. CASE whence = "cur"
      BY <1>1, <2>2
  <2>3. CASE whence = "end"
      BY <1>2, <2>3
  <2> QED
      BY <2>1, <2>2, <2>3
<1>4. slots' = [slots EXCEPT ![fd].offset = new] /\ ret' = Done /\ UNCHANGED <<inodes, mounts, nextFd, asked>>
    BY Zenon DEF Lseek
<1> HIDE DEF base, absBase
<1>5. new \in Nat /\ new = Abs!Larger(0, absBase + off)
  <2>1. off \in Int
      BY VfsAssumption
  <2> QED
      BY <1>3, <2>1 DEF Larger, Abs!Larger
<1> HIDE DEF new
<1>6. VInv' /\ OpenNow' = [OpenNow EXCEPT ![fd].offset = new] /\ FilesNow' = FilesNow /\ Top' = Top
    BY <1>4, <1>5, OffsetSet, Zenon
<1>7. /\ OpenNow' = [OpenNow EXCEPT ![fd].offset = Abs!Larger(0, absBase + off)]
      /\ ret' = Abs!Done /\ FilesNow' = FilesNow /\ Top' = Top
    BY <1>4, <1>5, <1>6, Zenon DEF Done, Abs!Done
<1> QED
    BY <1>6, <1>7, Zenon DEF Abs!Seek, OpenNow, FilesNow, absBase

LEMMA FstatIs ==
    ASSUME VInv, Finite, NEW fd \in DOMAIN slots, Fstat(fd)
    PROVE  VInv' /\ Abs!Stat(fd)
<1> DEFINE n == slots[fd].inode
           f == NameIn(inodes, n)
<1>1. /\ ret' = [size |-> Size(n), dir |-> inodes[n].kind = "dir"]
      /\ UNCHANGED <<inodes, mounts, slots, nextFd, asked>>
    BY Zenon DEF Fstat
<1>2. VInv' /\ OpenNow' = OpenNow /\ FilesNow' = FilesNow /\ Top' = Top
    BY <1>1, NothingSet
<1>3. /\ OpenNow[fd] = [path |-> asked[fd], file |-> f, offset |-> slots[fd].offset]
      /\ Abs!IsDir(f) <=> inodes[n].kind = "dir"
    BY SlotIs, Zenon
<1>4. OpenNow[fd].file = f
    BY <1>3
<1>5. (inodes[n].kind = "dir") = Abs!IsDir(OpenNow[fd].file)
  <2>1. Abs!IsDir(f) \in BOOLEAN
      BY DEF Abs!IsDir
  <2> QED
      BY <1>3, <1>4, <2>1
<1>6. Size(n) = Abs!Length(OpenNow[fd].file)
    BY SizeIs
<1>7. ret' = [size |-> Abs!Length(OpenNow[fd].file), dir |-> Abs!IsDir(OpenNow[fd].file)]
    BY <1>1, <1>5, <1>6, Zenon
<1> QED
    BY <1>2, <1>7, Zenon DEF Abs!Stat, OpenNow, FilesNow

\* A new file adds one name to one directory, and no other call adds any.
LEMMA FiniteNext ==
    ASSUME VInv, Finite, VfsNext
    PROVE  Finite'
<1>1. /\ inodes \in Seq(Inode) /\ DOMAIN inodes = 1..Len(inodes)
      /\ \A d \in Roots : d \in 1..Len(inodes)
    BY TableIs, Zenon DEF VInv, NodesOK
<1>2. CASE UNCHANGED inodes
    BY <1>2, Zenon DEF Finite
<1>3. ASSUME NEW dir, NEW name, inodes' = CreateIn(dir, name) PROVE Finite'
  <2> DEFINE e == [inodes EXCEPT ![dir].children = Put(@, name, Len(inodes) + 1)]
             x == NewFile(inodes[dir].fs, Append(inodes[dir].words, name))
             S == {e[i] : i \in 1..Len(inodes)} \cup {x}
  <2>1. inodes' = Append(e, x) /\ x.children = <<>>
      BY <1>3 DEF CreateIn, NewFile
  <2>2. \A d \in DOMAIN inodes :
           e[d] = IF d = dir THEN [inodes[d] EXCEPT !.children = Put(@, name, Len(inodes) + 1)]
                  ELSE inodes[d]
      BY <1>1, Zenon
  <2>3. ASSUME NEW d \in DOMAIN inodes
        PROVE  DOMAIN e[d].children \in {DOMAIN inodes[d].children, DOMAIN inodes[d].children \cup {name}}
    <3>1. inodes[d] \in Inode
        BY <1>1
    <3>2. [inodes[d] EXCEPT !.children = Put(@, name, Len(inodes) + 1)].children
            = Put(inodes[d].children, name, Len(inodes) + 1)
        BY <3>1 DEF Inode
    <3>3. DOMAIN Put(inodes[d].children, name, Len(inodes) + 1) = DOMAIN inodes[d].children \cup {name}
        BY Zenon DEF Put
    <3> QED
        BY <2>2, <3>2, <3>3, Zenon
  <2>4. e \in Seq(S) /\ Len(e) = Len(inodes) /\ x \in S
    <3>1. Len(inodes) \in Nat
        BY <1>1
    <3>2. e \in [1..Len(inodes) -> S] /\ x \in S
        BY <1>1, Zenon
    <3> HIDE DEF e, S
    <3> QED
        BY <3>1, <3>2
  <2> HIDE DEF e, x, S
  <2>5. /\ DOMAIN Append(e, x) = 1..(Len(inodes) + 1) /\ Append(e, x)[Len(inodes) + 1] = x
        /\ \A d \in DOMAIN inodes : Append(e, x)[d] = e[d]
      BY <1>1, <2>4
  <2>6. \A d \in DOMAIN inodes : /\ IsFiniteSet(DOMAIN inodes[d].children)
                                 /\ IsFiniteSet(DOMAIN inodes[d].children \cup {name})
      BY FS_AddElement, Zenon DEF Finite
  <2>7. \A d \in 1..(Len(inodes) + 1) : d \in DOMAIN inodes \/ d = Len(inodes) + 1
      BY <1>1
  <2>8. IsFiniteSet(DOMAIN x.children)
    <3>1. DOMAIN x.children = {}
        BY <2>1
    <3> QED
        BY <3>1, FS_EmptySet, Zenon
  <2>9. ASSUME NEW d \in DOMAIN inodes' PROVE IsFiniteSet(DOMAIN inodes'[d].children)
    <3>1. d \in 1..(Len(inodes) + 1)
        BY <2>1, <2>5, Zenon
    <3>2. CASE d \in DOMAIN inodes
      <4>1. inodes'[d] = e[d]
          BY <2>1, <2>5, <3>2, Zenon
      <4> QED
          BY <2>3, <2>6, <3>2, <4>1, Zenon
    <3>3. CASE d = Len(inodes) + 1
      <4>1. inodes'[d] = x
          BY <2>1, <2>5, <3>3, Zenon
      <4> QED
          BY <2>8, <4>1, Zenon
    <3> QED
        BY <2>7, <3>1, <3>2, <3>3, Zenon
  <2> QED
      BY <2>9, Zenon DEF Finite
<1>4. ASSUME NEW n, NEW v, inodes' = [inodes EXCEPT ![n].data = v] PROVE Finite'
  <2>1. ASSUME NEW d \in DOMAIN inodes PROVE inodes'[d].children = inodes[d].children
    <3>1. inodes[d] \in Inode
        BY <1>1
    <3>2. inodes'[d] = IF d = n THEN [inodes[d] EXCEPT !.data = v] ELSE inodes[d]
        BY <1>1, <1>4, Zenon
    <3>3. [inodes[d] EXCEPT !.data = v].children = inodes[d].children
        BY <3>1 DEF Inode
    <3> QED
        BY <3>2, <3>3, Zenon
  <2>2. DOMAIN inodes' = DOMAIN inodes
      BY <1>1, <1>4, Zenon
  <2> QED
      BY <2>1, <2>2, Zenon DEF Finite
<1>5. ASSUME NEW p \in Path, NEW create \in BOOLEAN, Open(p, create) PROVE Finite'
  <2>1. UNCHANGED inodes \/ \E dir, name : inodes' = CreateIn(dir, name)
      BY <1>5, Zenon DEF Open, CreateFile, OpenFails
  <2> QED
      BY <1>2, <1>3, <2>1, Zenon
<1>6. ASSUME NEW fd \in DOMAIN slots, NEW buf, Write(fd, buf) PROVE Finite'
  <2>1. UNCHANGED inodes \/ \E v : inodes' = [inodes EXCEPT ![slots[fd].inode].data = v]
      BY <1>6, Zenon DEF Write
  <2> QED
      BY <1>2, <1>4, <2>1, Zenon
<1>7. ASSUME NEW fd, NEW len, Read(fd, len) PROVE Finite'
    BY <1>2, <1>7, Zenon DEF Read
<1>8. ASSUME NEW fd, NEW off, NEW whence, Lseek(fd, off, whence) PROVE Finite'
    BY <1>2, <1>8, Zenon DEF Lseek
<1>9. ASSUME NEW fd, Fstat(fd) \/ Close(fd) \/ BadFd(fd) PROVE Finite'
    BY <1>2, <1>9, Zenon DEF Fstat, Close, BadFd
<1> QED
    BY <1>5, <1>6, <1>7, <1>8, <1>9, Zenon DEF VfsNext

----------------------------------------------------------------------------
(* The specification *)

\* The mount table that boot leaves.
LEMMA OnePut ==
    ASSUME NEW e, NEW t
    PROVE  /\ SubSeq(<<>>, 1, 0) \o <<e>> \o SubSeq(<<>>, 0 + 1, Len(<<>>)) = <<e>>
           /\ SubSeq(<<e>>, 1, 1) \o <<t>> \o SubSeq(<<e>>, 1 + 1, Len(<<e>>)) = <<e, t>>
<1> DEFINE s == <<e>>
           u == <<t>>
           S == {e, t}
<1>1. SubSeq(<<>>, 1, 0) = <<>> /\ SubSeq(<<>>, 0 + 1, Len(<<>>)) = <<>>
    OBVIOUS
<1>2. <<>> \o s = s /\ s \o <<>> = s
    OBVIOUS
<1>3. /\ s \in Seq(S) /\ Len(s) = 1 /\ s[1] = e
      /\ u \in Seq(S) /\ Len(u) = 1 /\ u[1] = t
    OBVIOUS
<1>4. <<e, t>> = [i \in 1..2 |-> IF i = 1 THEN e ELSE t] /\ <<e, t>> \o <<>> = <<e, t>>
    OBVIOUS
<1> HIDE DEF s, u, S
<1>5. SubSeq(s, 1, 1) = s
  <2>1. SubSeq(s, 1, 1) = <<s[1]>>
      BY <1>3, OneIs
  <2> QED
      BY <1>3, <2>1, Zenon DEF s
<1>6. SubSeq(s, 1 + 1, Len(s)) = <<>>
    BY <1>3
<1>7. s \o u = [i \in 1..2 |-> IF i = 1 THEN e ELSE t]
  <2>1. s \o u \in Seq(S) /\ Len(s \o u) = 2 /\ (s \o u)[1] = s[1] /\ (s \o u)[2] = u[1]
    <3>1. /\ s \o u \in Seq(S) /\ Len(s \o u) = Len(s) + Len(u)
          /\ \A i \in 1..(Len(s) + Len(u)) : (s \o u)[i] = IF i <= Len(s) THEN s[i] ELSE u[i - Len(s)]
        BY <1>3, ConcatIs, Zenon
    <3> DEFINE c == s \o u
    <3> HIDE DEF c
    <3>2. \A i \in 1..2 : c[i] = IF i <= 1 THEN s[i] ELSE u[i - 1]
        BY <1>3, <3>1 DEF c
    <3>3. c[1] = s[1] /\ c[2] = u[1]
        BY <3>2
    <3>4. Len(s) + Len(u) = 2
        BY <1>3
    <3> QED
        BY <3>1, <3>3, <3>4, Zenon DEF c
  <2> DEFINE c == s \o u
  <2> HIDE DEF c
  <2>2. c \in Seq(S) /\ Len(c) = 2 /\ c[1] = e /\ c[2] = t
      BY <1>3, <2>1 DEF c
  <2>3. c = [i \in 1..2 |-> c[i]]
      BY <2>2
  <2>4. \A i \in 1..2 : c[i] = IF i = 1 THEN e ELSE t
      BY <2>2
  <2> QED
      BY <2>3, <2>4, Zenon DEF c
<1>8. SubSeq(<<>>, 1, 0) \o s \o SubSeq(<<>>, 0 + 1, Len(<<>>)) = s
    BY <1>1, <1>2, Zenon
<1>9. SubSeq(s, 1, 1) \o u \o SubSeq(s, 1 + 1, Len(s)) = <<e, t>>
    BY <1>4, <1>5, <1>6, <1>7, Zenon
<1> QED
    BY <1>8, <1>9, Zenon DEF s, u

LEMMA BootMounts ==
    ASSUME NEW root
    PROVE  Mount(Mount(<<>>, <<"/">> \o Boot, RamRoot), <<"/">>, root)
             = <<[path |-> <<"/">> \o Boot, root |-> RamRoot], [path |-> <<"/">>, root |-> root]>>
<1> DEFINE b == <<"/">> \o Boot
           e == [path |-> b, root |-> RamRoot]
           t == [path |-> <<"/">>, root |-> root]
<1>1. Len(b) \in Nat /\ Len(b) >= 2 /\ Len(<<"/">>) = 1
  <2>1. Boot \in Seq(Chars) /\ Boot # <<>>
      BY VfsAssumption, PathIs
  <2>2. Len(Boot) \in Nat /\ Len(Boot) >= 1
      BY <2>1
  <2>3. <<"/">> \in Seq(Chars) /\ Len(<<"/">>) = 1
      BY OneIn DEF Chars
  <2>4. Len(b) = 1 + Len(Boot)
      BY <2>1, <2>3
  <2> QED
      BY <2>2, <2>3, <2>4
<1> HIDE DEF b
<1>2. Mount(<<>>, b, RamRoot) = <<e>>
  <2>1. ~\E i \in DOMAIN <<>> : <<>>[i].path = b
      OBVIOUS
  <2>2. Cardinality({i \in DOMAIN <<>> : Len(<<>>[i].path) >= Len(b)}) = 0
    <3>1. {i \in DOMAIN <<>> : Len(<<>>[i].path) >= Len(b)} = {}
        OBVIOUS
    <3> QED
        BY <3>1, FS_EmptySet
  <2>3. SubSeq(<<>>, 1, 0) \o <<e>> \o SubSeq(<<>>, 0 + 1, Len(<<>>)) = <<e>>
      BY OnePut
  <2> QED
      BY <2>1, <2>2, <2>3, Zenon DEF Mount
<1> DEFINE m == <<e>>
           S == {i \in DOMAIN m : Len(m[i].path) >= Len(<<"/">>)}
<1>3. DOMAIN m = {1} /\ m[1].path = b /\ m \in Seq({e}) /\ Len(m) = 1
    OBVIOUS
<1>4. b # <<"/">>
  <2>1. \A n \in Nat : n >= 2 => n # 1
      OBVIOUS
  <2>2. Len(b) # 1
      BY <1>1, <2>1, Zenon
  <2> QED
      BY <1>1, <2>2, Zenon
<1>5. Cardinality(S) = 1
  <2>1. Len(b) >= 1
      BY <1>1
  <2>2. S = {1}
      BY <1>1, <1>3, <2>1
  <2> HIDE DEF S
  <2> QED
      BY <2>2, FS_Singleton
<1>6. ~\E i \in DOMAIN m : m[i].path = <<"/">>
    BY <1>3, <1>4
<1>7. SubSeq(m, 1, 1) \o <<t>> \o SubSeq(m, 1 + 1, Len(m)) = <<e, t>>
    BY OnePut
<1>8. Mount(m, <<"/">>, root) = <<e, t>>
    BY <1>5, <1>6, <1>7, Zenon DEF Mount
<1> QED
    BY <1>2, <1>8, Zenon DEF b

LEMMA ImageIs == Table(Image) /\ \A n \in DOMAIN Image : IsFiniteSet(DOMAIN Image[n].children)
<1> DEFINE S == {Image[n] : n \in DOMAIN Image}
           Node(i) == /\ i \in [fs : Roots, kind : {"dir", "file"}, data : Seq(Nat),
                                 children : {i.children}, words : Seq(Seq(STRING))]
                      /\ DOMAIN i.children \subseteq Seq(STRING) /\ IsFiniteSet(DOMAIN i.children)
                      /\ i.children \in [DOMAIN i.children -> DOMAIN Image]
                      /\ i.kind = "dir" => i.data = <<>>
<1>1. Image \in Seq(S) /\ Roots \subseteq DOMAIN Image
    BY ImageAssumption, Zenon
<1>2. \A n \in DOMAIN Image : Node(Image[n])
    BY ImageAssumption, Zenon
<1>3. \A n \in DOMAIN Image : \A word \in DOMAIN Image[n].children :
         NameIn(Image, Image[n].children[word]) = Child(NameIn(Image, n), word)
    BY ImageAssumption, Zenon
<1>4. /\ \A r \in Roots : Image[r].kind = "dir" /\ NameIn(Image, r) = <<r, <<>>>>
      /\ \A m, n \in DOMAIN Image : NameIn(Image, m) = NameIn(Image, n) => m = n
      /\ \A n \in DOMAIN Image \ Roots : \E d \in DOMAIN Image :
            Image[d].kind = "dir" /\ \E word \in DOMAIN Image[d].children : Image[d].children[word] = n
    BY ImageAssumption, Zenon
<1> HIDE DEF S
<1>5. Len(Image) \in Nat /\ DOMAIN Image = 1..Len(Image) /\ Len(Image) >= 2
  <2>1. Len(Image) \in Nat /\ DOMAIN Image = 1..Len(Image)
      BY <1>1
  <2>2. 2 \in DOMAIN Image
      BY <1>1, RootsAre, Zenon
  <2> QED
      BY <2>1, <2>2
<1>6. Seq(Seq(STRING)) \subseteq Seq(Seq(Chars))
    BY PathIs
<1>7. ASSUME NEW n \in DOMAIN Image PROVE Image[n] \in Inode
  <2> DEFINE i == Image[n]
  <2>1. Node(i)
      BY <1>2, Zenon
  <2> HIDE DEF i
  <2>2. i.children \in Kids
    <3>1. DOMAIN i.children \subseteq Seq(Chars)
        BY <2>1, PathIs, Zenon
    <3>2. DOMAIN Image \subseteq Nat
        BY <1>5
    <3>3. i.children \in [DOMAIN i.children -> Nat]
        BY <2>1, <3>2
    <3> QED
        BY <3>1, <3>3, Zenon DEF Kids
  <2>3. i \in [fs : Roots, kind : {"dir", "file"}, data : Seq(Nat),
               children : {i.children}, words : Seq(Seq(STRING))]
      BY <2>1, Zenon
  <2>4. i \in Inode
      BY <1>6, <2>2, <2>3 DEF Inode
  <2> QED
      BY <2>4, Zenon DEF i
<1>8. Image \in Seq(Inode)
  <2>1. Image \in [1..Len(Image) -> Inode]
      BY <1>1, <1>5, <1>7
  <2> QED
      BY <1>5, <2>1
<1>9. \A r \in Roots : Image[r].kind = "dir" /\ Image[r].fs = r /\ Image[r].words = <<>>
    BY <1>4 DEF NameIn
<1>10. \A n \in DOMAIN Image : Image[n].kind = "dir" => Image[n].data = <<>>
    BY <1>2, Zenon
<1>11. \A m, n \in DOMAIN Image : Image[m].fs = Image[n].fs /\ Image[m].words = Image[n].words => m = n
    BY <1>4, Zenon DEF NameIn
<1>12. ASSUME NEW n \in DOMAIN Image, NEW word \in DOMAIN Image[n].children
       PROVE  LET c == Image[n].children[word]
              IN  c \in DOMAIN Image /\ Image[c].fs = Image[n].fs /\ Image[c].words = Append(Image[n].words, word)
  <2> DEFINE c == Image[n].children[word]
  <2>1. c \in DOMAIN Image
      BY <1>2, Zenon
  <2>2. NameIn(Image, c) = Child(NameIn(Image, n), word)
      BY <1>3, Zenon
  <2> HIDE DEF c
  <2>3. Image[c].fs = Image[n].fs /\ Image[c].words = Append(Image[n].words, word)
      BY <2>2 DEF NameIn, Child
  <2> QED
      BY <2>1, <2>3, Zenon DEF c
<1>13. Table(Image)
    BY <1>4, <1>5, <1>8, <1>9, <1>10, <1>11, <1>12, Zenon DEF Table
<1> QED
    BY <1>2, <1>13, Zenon

LEMMA InitIs ==
    ASSUME VfsInit
    PROVE  VInv /\ Finite /\ Abs!Init
<1>1. inodes = Image /\ slots = <<>> /\ asked = <<>> /\ nextFd = 3 /\ ret = Done
    BY DEF VfsInit
<1>2. PICK root \in Roots :
         mounts = <<[path |-> <<"/">> \o Boot, root |-> RamRoot], [path |-> <<"/">>, root |-> root]>>
    BY BootMounts, Zenon DEF VfsInit, Roots
<1>3. MountsOK
    BY <1>2, Zenon DEF MountsOK
<1>4. SlotsOK
    BY <1>1 DEF SlotsOK
<1>5. NodesOK /\ Finite /\ DirsOK
    BY <1>1, ImageIs, Zenon DEF NodesOK, Finite, DirsOK
<1>6. VInv
    BY <1>3, <1>4, <1>5, Zenon DEF VInv
<1>7. Top \in {1, 2}
    BY <1>3, TopIs, RootsAre
<1>8. FilesNow = FilesIn(Image)
    BY <1>1, Zenon DEF FilesNow
<1>9. OpenNow = <<>>
    BY <1>1 DEF OpenNow
<1>10. ret = Abs!Done
    BY <1>1 DEF Done, Abs!Done
<1> QED
    BY <1>5, <1>6, <1>7, <1>8, <1>9, <1>10, Zenon DEF Abs!Init, FilesNow, OpenNow

\* Each call is a step of FileSystem.
LEMMA NextIs ==
    ASSUME VInv, Finite, [VfsNext]_vfsVars
    PROVE  VInv' /\ Finite' /\ [Abs!Next]_(Abs!vars)
<1>1. CASE UNCHANGED vfsVars
  <2>1. VInv' /\ OpenNow' = OpenNow /\ FilesNow' = FilesNow /\ Top' = Top /\ ret' = ret
      BY <1>1, NothingSet DEF vfsVars
  <2>2. Finite'
      BY <1>1, Zenon DEF vfsVars, Finite
  <2> QED
      BY <2>1, <2>2 DEF Abs!vars, OpenNow, FilesNow
<1>2. ASSUME NEW p \in Path, NEW create \in BOOLEAN, Open(p, create) PROVE VInv' /\ Abs!Next
    BY <1>2, LeastIs, OpenIs, Zenon DEF Abs!Next, OpenNow
<1>3. ASSUME NEW fd \in DOMAIN slots, NEW len \in 0..MAX_IO, Read(fd, len) PROVE VInv' /\ Abs!Next
    BY <1>3, ReadIs, Zenon DEF Abs!Next
<1>4. ASSUME NEW fd \in DOMAIN slots, NEW len \in 0..MAX_IO, NEW buf \in [1..len -> Byte], Write(fd, buf)
      PROVE  VInv' /\ Abs!Next
    BY <1>4, WriteIs, Zenon DEF Abs!Next
<1>5. ASSUME NEW fd \in DOMAIN slots, NEW off \in SeekArg, NEW whence \in {"set", "cur", "end"},
             Lseek(fd, off, whence)
      PROVE  VInv' /\ Abs!Next
    BY <1>5, LseekIs, Zenon DEF Abs!Next
<1>6. ASSUME NEW fd \in DOMAIN slots, Fstat(fd) PROVE VInv' /\ Abs!Next
    BY <1>6, FstatIs, Zenon DEF Abs!Next
<1>7. ASSUME NEW fd \in DOMAIN slots, Close(fd) PROVE VInv' /\ Abs!Next
    BY <1>7, CloseIs, Zenon DEF Abs!Next
<1>8. ASSUME NEW fd \in Fd \ DOMAIN slots, BadFd(fd) PROVE VInv' /\ Abs!Next
    BY <1>8, BadFdIs, Zenon DEF Abs!Next
<1> QED
    BY <1>1, <1>2, <1>3, <1>4, <1>5, <1>6, <1>7, <1>8, FiniteNext, Zenon DEF VfsNext

\* The file calls implement FileSystem (IsFileSystem): for all paths, however
\* they are written and however many directories they lead through, all trees of
\* directories and files that boot may leave, all descriptors, seeks and sizes of
\* a call, each call of kernel/src/syscall.rs does to the mount table, the inodes
\* and the descriptor table what FileSystem does to files that have a name and
\* hold bytes.
THEOREM ImplementsFileSystem == VfsSpec => IsFileSystem
<1>1. VfsInit => VInv /\ Finite /\ Abs!Init
    BY InitIs
<1>2. VInv /\ Finite /\ [VfsNext]_vfsVars => VInv' /\ Finite' /\ [Abs!Next]_(Abs!vars)
    BY NextIs
<1> QED
    BY <1>1, <1>2, PTL DEF VfsSpec, IsFileSystem, Abs!Spec

=============================================================================
