------------------------- MODULE CommandLineProofs -------------------------
(***************************************************************************)
(* The proofs about CommandLine: whatever the words are and however long   *)
(* the lines, and in every interleaving of main() and the callback, a      *)
(* thread whose position nobody moved and whose text nobody wrote into     *)
(* gets the tokens of its own text, so that a command is what its line     *)
(* says and a connection goes where its address says.                      *)
(*                                                                         *)
(* The first half is about texts alone: what strtok finds in a sequence,   *)
(* and that its tokens are the arguments the usage of the command names.   *)
(* The second half is the inductive invariant: the separators of a text    *)
(* are overwritten one after the other, each behind the token it ends, so  *)
(* that what is left to scan is as it was typed and the tokens are strings.*)
(***************************************************************************)
EXTENDS CommandLine, SequenceTheorems, TLAPS, WellFoundedInduction

-----------------------------------------------------------------------------
(***************************************************************************)
(* Places in a sequence.                                                   *)
(***************************************************************************)

(* The characters of a text.                                               *)
Characters == Words \cup {Blank, End, Colon}

(* The least element of a set of naturals is one of it.                    *)
LEMMA MinFacts ==
  ASSUME NEW S \in SUBSET Nat, S # {}
  PROVE  Min(S) \in S /\ \A n \in S : Min(S) <= n
<1> DEFINE R == {ss \in Nat \X Nat : ss[1] < ss[2]}
<1>0. IsWellFoundedOn(R, Nat)
  BY NatLessThanWellFounded, Zenon DEF OpToRel
<1>1. \E m \in S : \A n \in S : ~ (<<n, m>> \in R)
  <2> HIDE DEF R
  <2> QED BY <1>0, WFMin
<1>2. \A m, n \in Nat : <<m, n>> \in R <=> m < n
  OBVIOUS
<1>3. \E m \in S : \A n \in S : m <= n
  <2>1. PICK m \in S : \A n \in S : ~ (<<n, m>> \in R)
    BY <1>1
  <2>2. ASSUME NEW n \in S PROVE m <= n
    <3>1. m \in Nat /\ n \in Nat
      OBVIOUS
    <3>2. ~ (n < m)
      <4> HIDE DEF R
      <4> QED BY <1>2, <2>1, <3>1
    <3> QED
      BY <3>1, <3>2
  <2> QED
    BY <2>2
<1> QED
  BY <1>3 DEF Min

(* The least of a set of places, or the place after the last one.          *)
LEMMA FirstOf ==
  ASSUME NEW n \in Nat, NEW i \in 1 .. n + 1, NEW S, \A j \in S : j \in i .. n,
         NEW m, m = Min(S \cup {n + 1})
  PROVE  /\ m \in i .. n + 1
         /\ \A j \in i .. m - 1 : j \in i .. n /\ j \notin S
         /\ m <= n => m \in S
<1>1. S \cup {n + 1} \in SUBSET Nat /\ S \cup {n + 1} # {}
  <2>1. \A j \in S \cup {n + 1} : j \in Nat
    OBVIOUS
  <2> QED
    BY <2>1
<1>2. m \in S \cup {n + 1} /\ \A j \in S \cup {n + 1} : m <= j
  BY <1>1, MinFacts
<1>3. (m = n + 1 \/ m \in S) /\ \A j \in S : m <= j
  BY <1>2
<1>4. m \in i .. n + 1
  BY <1>3
<1>5. ASSUME NEW j \in i .. m - 1 PROVE j \in i .. n /\ j \notin S
  <2>1. j \in Int /\ m \in Int /\ j < m /\ j \in i .. n
    BY <1>4
  <2>2. \A k \in S : m <= k
    BY <1>3
  <2>3. j \notin S
    <3>1. ~ (m <= j)
      BY <2>1
    <3> QED
      BY <2>2, <3>1, Zenon
  <2> QED
    BY <2>1, <2>3
<1>6. m <= n => m \in S
  BY <1>3
<1> QED
  BY <1>4, <1>5, <1>6

(* The first place from i on with one of chars, or with none of them.      *)
LEMMA FirstFacts ==
  ASSUME NEW s, Len(s) \in Nat, NEW i \in 1 .. Len(s) + 1, NEW chars
  PROVE  /\ FirstIn(s, i, chars) \in i .. Len(s) + 1
         /\ \A j \in i .. FirstIn(s, i, chars) - 1 : s[j] \notin chars
         /\ FirstIn(s, i, chars) <= Len(s) => s[FirstIn(s, i, chars)] \in chars
         /\ FirstOut(s, i, chars) \in i .. Len(s) + 1
         /\ \A j \in i .. FirstOut(s, i, chars) - 1 : s[j] \in chars
         /\ FirstOut(s, i, chars) <= Len(s) => s[FirstOut(s, i, chars)] \notin chars
<1> DEFINE In  == {j \in i .. Len(s) : s[j] \in chars}
           Out == {j \in i .. Len(s) : s[j] \notin chars}
<1>1. /\ \A j \in In : j \in i .. Len(s) /\ s[j] \in chars
      /\ \A j \in Out : j \in i .. Len(s) /\ s[j] \notin chars
      /\ \A j \in i .. Len(s) : IF s[j] \in chars THEN j \in In ELSE j \in Out
  OBVIOUS
<1>2. /\ FirstIn(s, i, chars) = Min(In \cup {Len(s) + 1})
      /\ FirstOut(s, i, chars) = Min(Out \cup {Len(s) + 1})
  BY DEF FirstIn, FirstOut
<1> HIDE DEF In, Out
<1>3. /\ FirstIn(s, i, chars) \in i .. Len(s) + 1
      /\ \A j \in i .. FirstIn(s, i, chars) - 1 : j \in i .. Len(s) /\ j \notin In
      /\ FirstIn(s, i, chars) <= Len(s) => FirstIn(s, i, chars) \in In
  BY <1>1, <1>2, FirstOf, Zenon
<1>4. /\ FirstOut(s, i, chars) \in i .. Len(s) + 1
      /\ \A j \in i .. FirstOut(s, i, chars) - 1 : j \in i .. Len(s) /\ j \notin Out
      /\ FirstOut(s, i, chars) <= Len(s) => FirstOut(s, i, chars) \in Out
  BY <1>1, <1>2, FirstOf, Zenon
<1> QED
  BY <1>1, <1>3, <1>4, Zenon

(* The first token of a text, and what is left behind its separator.       *)
Token(s, chars) ==
  LET b == FirstOut(s, 1, chars) IN SubSeq(s, b, FirstIn(s, b, chars) - 1)

Rest(s, chars) ==
  LET b == FirstOut(s, 1, chars) IN SubSeq(s, FirstIn(s, b, chars) + 1, Len(s))

(* They are numbers wherever the search begins.                            *)
LEMMA FirstType ==
  ASSUME NEW s, Len(s) \in Nat, NEW i \in Nat, NEW chars
  PROVE  FirstIn(s, i, chars) \in Nat /\ FirstOut(s, i, chars) \in Nat
<1> DEFINE In  == {j \in i .. Len(s) : s[j] \in chars} \cup {Len(s) + 1}
           Out == {j \in i .. Len(s) : s[j] \notin chars} \cup {Len(s) + 1}
<1>1. \A j \in In \cup Out : j \in Nat
  OBVIOUS
<1>2. In \in SUBSET Nat /\ Out \in SUBSET Nat /\ In # {} /\ Out # {}
  BY <1>1
<1>3. FirstIn(s, i, chars) = Min(In) /\ FirstOut(s, i, chars) = Min(Out)
  BY DEF FirstIn, FirstOut
<1> HIDE DEF In, Out
<1>4. Min(In) \in In /\ Min(Out) \in Out
  BY <1>2, MinFacts, Zenon
<1> QED
  BY <1>1, <1>3, <1>4

(* What follows place a of s: the next token begins at b and ends before   *)
(* e, where the separator is.                                              *)
Found(s, a, chars, b, e) ==
  /\ b \in a .. Len(s) + 1 /\ e \in b .. Len(s) + 1
  /\ \A j \in a .. b - 1 : s[j] \in chars
  /\ \A j \in b .. e - 1 : s[j] \notin chars
  /\ b <= Len(s) => b < e
  /\ e <= Len(s) => s[e] \in chars

(* strtok finds the token, and goes on after the separator.                *)
LEMMA TokenFacts ==
  ASSUME NEW S, NEW s \in Seq(S), NEW a \in 1 .. Len(s) + 1, NEW chars
  PROVE  LET w == SubSeq(s, a, Len(s)) IN
         \E b, e \in 1 .. Len(s) + 1 :
           /\ Found(s, a, chars, b, e)
           /\ Token(w, chars) = SubSeq(s, b, e - 1)
           /\ Rest(w, chars) = SubSeq(s, e + 1, Len(s))
<1> DEFINE n == Len(s)
           w == SubSeq(s, a, n)
           b1 == FirstOut(w, 1, chars)
           e1 == FirstIn(w, b1, chars)
<1>1. /\ n \in Nat /\ Len(w) = n + 1 - a /\ Len(w) \in Nat /\ w \in Seq(S)
      /\ \A i \in 1 .. Len(w) : w[i] = s[a + i - 1]
  BY SubSeqProperties
<1>2. 1 \in 1 .. Len(w) + 1
  BY <1>1
<1>3. /\ b1 \in 1 .. Len(w) + 1
      /\ \A j \in 1 .. b1 - 1 : w[j] \in chars
      /\ b1 <= Len(w) => w[b1] \notin chars
  BY <1>1, <1>2, FirstFacts, Zenon
<1>4. /\ e1 \in b1 .. Len(w) + 1
      /\ \A j \in b1 .. e1 - 1 : w[j] \notin chars
      /\ e1 <= Len(w) => w[e1] \in chars
  BY <1>1, <1>3, FirstFacts, Zenon
<1>5. Token(w, chars) = SubSeq(w, b1, e1 - 1) /\ Rest(w, chars) = SubSeq(w, e1 + 1, Len(w))
  BY DEF Token, Rest
<1> DEFINE b == a + b1 - 1
           e == a + e1 - 1
<1> HIDE DEF n, w, b1, e1
<1>6. SubSeq(w, b1, e1 - 1) = SubSeq(s, b, e - 1)
  BY <1>1, <1>3, <1>4 DEF w, n
<1>7. SubSeq(w, e1 + 1, Len(w)) = SubSeq(s, e + 1, n)
  BY <1>1, <1>3, <1>4 DEF w
<1>8. Found(s, a, chars, b, e)
  <2>1. /\ b \in a .. n + 1 /\ e \in b .. n + 1
        /\ b <= n => b < e
    <3>1. b1 <= Len(w) => b1 # e1
      BY <1>3, <1>4
    <3> QED
      BY <3>1, <1>1, <1>3, <1>4
  <2>2. ASSUME NEW j \in a .. b - 1 PROVE s[j] \in chars
    <3>1. j - a + 1 \in 1 .. b1 - 1 /\ j - a + 1 \in 1 .. Len(w) /\ a + (j - a + 1) - 1 = j
      BY <1>1, <1>3
    <3> QED
      BY <3>1, <1>1, <1>3
  <2>3. ASSUME NEW j \in b .. e - 1 PROVE s[j] \notin chars
    <3>1. /\ j - a + 1 \in b1 .. e1 - 1 /\ j - a + 1 \in 1 .. Len(w)
          /\ a + (j - a + 1) - 1 = j
      BY <1>1, <1>3, <1>4
    <3> QED
      BY <3>1, <1>1, <1>4
  <2>4. e <= n => s[e] \in chars
    <3>1. e <= n => e1 \in 1 .. Len(w)
      BY <1>1, <1>3, <1>4
    <3> QED
      BY <3>1, <1>1, <1>4
  <2> QED
    BY <2>1, <2>2, <2>3, <2>4 DEF Found, n
<1>9. b \in 1 .. n + 1 /\ e \in 1 .. n + 1
  BY <1>1, <1>3, <1>4
<1> QED
  BY <1>5, <1>6, <1>7, <1>8, <1>9 DEF n, w

(* The same of a whole text.                                               *)
LEMMA FirstTokenFacts ==
  ASSUME NEW S, NEW s \in Seq(S), NEW chars
  PROVE  \E b, e \in 1 .. Len(s) + 1 :
           /\ Found(s, 1, chars, b, e)
           /\ Token(s, chars) = SubSeq(s, b, e - 1)
           /\ Rest(s, chars) = SubSeq(s, e + 1, Len(s))
<1>1. SubSeq(s, 1, Len(s)) = s /\ Len(s) \in Nat /\ 1 \in 1 .. Len(s) + 1
  <2>1. Len(s) \in Nat /\ 1 \in 1 .. Len(s) + 1
    OBVIOUS
  <2>2. SubSeq(s, 1, Len(s)) = s
    BY SubSeqProperties
  <2> QED
    BY <2>1, <2>2
<1>2. LET w == SubSeq(s, 1, Len(s)) IN
      \E b, e \in 1 .. Len(s) + 1 :
         /\ Found(s, 1, chars, b, e)
         /\ Token(w, chars) = SubSeq(s, b, e - 1)
         /\ Rest(w, chars) = SubSeq(s, e + 1, Len(s))
  <2> HIDE <1>1
  <2> QED
    BY <1>1, TokenFacts, Zenon
<1> QED
  BY <1>1, <1>2, Zenon

(* The tokens and what is left are texts.                                  *)
LEMMA TokenType ==
  ASSUME NEW S, NEW s \in Seq(S), NEW chars
  PROVE  Token(s, chars) \in Seq(S) /\ Rest(s, chars) \in Seq(S)
<1>1. Len(s) \in Nat
  OBVIOUS
<1>2. PICK b, e \in 1 .. Len(s) + 1 :
        /\ Token(s, chars) = SubSeq(s, b, e - 1)
        /\ Rest(s, chars) = SubSeq(s, e + 1, Len(s))
  BY FirstTokenFacts, Zenon
<1>3. SubSeq(s, b, e - 1) \in Seq(S) /\ SubSeq(s, e + 1, Len(s)) \in Seq(S)
  <2>1. /\ e <= Len(s) + 1 /\ e - 1 \in 0 .. Len(s)
        /\ b \in 1 .. Len(s) + 1 /\ e + 1 \in 1 .. Len(s) + 2
    BY <1>1
  <2> QED
    BY <1>1, <2>1
<1> QED
  BY <1>2, <1>3

-----------------------------------------------------------------------------
(***************************************************************************)
(* A line of one of the commands.                                          *)
(***************************************************************************)

IsLine(s) ==
  /\ s \in Seq(Characters) /\ Len(s) \in Nat \ {0}
  /\ \A i \in 1 .. Len(s) : s[i] = End <=> i = Len(s)

(* A sequence of one.                                                      *)
LEMMA SubSeqOne ==
  ASSUME NEW S, NEW s \in Seq(S), NEW i \in 1 .. Len(s)
  PROVE  SubSeq(s, i, i) = <<s[i]>>
<1>1. /\ SubSeq(s, i, i) \in Seq(S) /\ Len(SubSeq(s, i, i)) = 1
      /\ SubSeq(s, i, i)[1] = s[i]
  <2>1. i \in Int /\ \A j \in i .. i : s[j] \in S
    OBVIOUS
  <2>2. /\ SubSeq(s, i, i) \in Seq(S)
        /\ Len(SubSeq(s, i, i)) = IF i <= i THEN i - i + 1 ELSE 0
        /\ \A j \in 1 .. i - i + 1 : SubSeq(s, i, i)[j] = s[i + j - 1]
    BY <2>1, SubSeqProperties
  <2> QED
    BY <2>1, <2>2
<1>2. /\ <<s[i]>> \in Seq(S) /\ Len(SubSeq(s, i, i)) = Len(<<s[i]>>)
      /\ \A j \in 1 .. Len(SubSeq(s, i, i)) : SubSeq(s, i, i)[j] = <<s[i]>>[j]
  BY <1>1
<1> QED
  BY <1>1, <1>2, SeqEqual, Zenon

(* What fgets gives is a line.                                             *)
LEMMA LineFacts == \A s \in Lines : IsLine(s)
<1>1. ASSUME NEW s \in Lines PROVE IsLine(s)
  <2>1. s \in Seq(Characters) /\ s # <<>> /\ \A i \in 1 .. Len(s) : s[i] = End <=> i = Len(s)
    BY CommandAssumption DEF Characters
  <2>2. Len(s) \in Nat \ {0}
    BY <2>1
  <2> QED
    BY <2>1, <2>2 DEF IsLine
<1> QED
  BY <1>1

(* The first token of a line is a word only if the line begins with that   *)
(* word, after blanks; the arguments are what follows the next character.  *)
LEMMA VerbFound ==
  ASSUME NEW s, IsLine(s), NEW word \in Words, Token(s, {Blank, End}) = <<word>>
  PROVE  \E v \in 1 .. Len(s) - 1 :
           /\ VerbAt(s, word, v, v) /\ s[v + 1] \in {Blank, End}
           /\ Rest(s, {Blank, End}) = SubSeq(s, v + 2, Len(s))
<1> DEFINE n == Len(s)
<1>1. s \in Seq(Characters) /\ n \in Nat \ {0}
  BY DEF IsLine
<1>2. PICK b, e \in 1 .. n + 1 :
        /\ Found(s, 1, {Blank, End}, b, e)
        /\ Token(s, {Blank, End}) = SubSeq(s, b, e - 1)
        /\ Rest(s, {Blank, End}) = SubSeq(s, e + 1, n)
  BY <1>1, FirstTokenFacts, Zenon
<1>3. e = b + 1 /\ s[b] = word /\ b <= n
  <2>0. SubSeq(s, b, e - 1) = <<word>>
    BY <1>2, Zenon
  <2>1. Len(SubSeq(s, b, e - 1)) = 1
    <3>1. Len(<<word>>) = 1
      OBVIOUS
    <3> QED
      BY <2>0, <3>1, Zenon
  <2>2. e = b + 1
    BY <1>1, <1>2, <2>1, SubSeqProperties DEF Found
  <2>3. e - 1 = b /\ b \in 1 .. n /\ SubSeq(s, b, b) = <<s[b]>>
    <3>1. e - 1 = b /\ b \in 1 .. n
      BY <1>1, <1>2, <2>2
    <3> QED
      BY <1>1, <3>1, SubSeqOne
  <2> QED
    BY <2>0, <2>2, <2>3
<1>4. e <= n
  <2>1. s[n] = End
    BY <1>1 DEF IsLine
  <2>2. word # End
    BY CommandAssumption
  <2> QED
    BY <1>1, <1>3, <2>1, <2>2
<1>5. \A i \in 1 .. b - 1 : i # b => s[i] = Blank
  <2>1. ASSUME NEW i \in 1 .. b - 1 PROVE s[i] = Blank
    <3>1. s[i] \in {Blank, End} /\ i \in 1 .. n /\ i # n
      BY <1>1, <1>2, <1>3 DEF Found
    <3> QED
      BY <3>1 DEF IsLine
  <2> QED
    BY <2>1
<1>6. s[b + 1] \in {Blank, End} /\ b \in 1 .. n - 1 /\ e + 1 = b + 2
  BY <1>1, <1>2, <1>3, <1>4 DEF Found
<1> QED
  BY <1>2, <1>3, <1>5, <1>6 DEF VerbAt

(* It is that word then.                                                   *)
LEMMA VerbUnique ==
  ASSUME NEW s, IsLine(s), NEW word \in Words, NEW b \in 1 .. Len(s), NEW v \in 1 .. b - 2,
         VerbAt(s, word, v, b)
  PROVE  Token(s, {Blank, End}) = <<word>> /\ Rest(s, {Blank, End}) = SubSeq(s, v + 2, Len(s))
<1> DEFINE n == Len(s)
<1>1. s \in Seq(Characters) /\ n \in Nat \ {0}
  BY DEF IsLine
<1>2. PICK c, e \in 1 .. n + 1 :
        /\ Found(s, 1, {Blank, End}, c, e)
        /\ Token(s, {Blank, End}) = SubSeq(s, c, e - 1)
        /\ Rest(s, {Blank, End}) = SubSeq(s, e + 1, n)
  BY <1>1, FirstTokenFacts, Zenon
<1>3. s[v] = word /\ word \notin {Blank, End} /\ s[v + 1] = Blank
      /\ \A i \in 1 .. v - 1 : s[i] = Blank
  BY CommandAssumption DEF VerbAt
<1>4. c = v
  <2>1. ~ (v < c)
    BY <1>2, <1>3 DEF Found
  <2>2. ~ (c < v)
    <3> SUFFICES ASSUME c < v PROVE FALSE
      OBVIOUS
    <3>1. c \in c .. e - 1 /\ c \in 1 .. v - 1
      BY <1>1, <1>2 DEF Found
    <3> QED
      BY <1>2, <1>3, <3>1 DEF Found
  <2> QED
    BY <2>1, <2>2
<1>5. e = v + 1
  <2>1. v < e
    BY <1>1, <1>2, <1>4 DEF Found
  <2>2. ~ (v + 1 < e)
    <3> SUFFICES ASSUME v + 1 < e PROVE FALSE
      OBVIOUS
    <3>1. v + 1 \in c .. e - 1
      BY <1>2, <1>4
    <3> QED
      BY <1>2, <1>3, <3>1 DEF Found
  <2> QED
    BY <2>1, <2>2
<1>6. SubSeq(s, v, v) = <<word>>
  BY <1>1, <1>3, SubSeqOne
<1>7. e - 1 = v /\ e + 1 = v + 2
  BY <1>4, <1>5
<1> QED
  BY <1>2, <1>4, <1>6, <1>7

(* What strtok finds after place a of a line, up to its end: the rest of   *)
(* the line, unless nothing is left.                                       *)
LEMMA ToTheEnd ==
  ASSUME NEW s, IsLine(s), NEW a \in 1 .. Len(s) + 1
  PROVE  LET w == SubSeq(s, a, Len(s)) IN
         IF a < Len(s) THEN Token(w, {End}) = SubSeq(s, a, Len(s) - 1)
                       ELSE Token(w, {End}) = <<>>
<1> DEFINE w == SubSeq(s, a, Len(s))
<1>1. /\ s \in Seq(Characters) /\ Len(s) \in Nat \ {0}
      /\ \A i \in 1 .. Len(s) : s[i] = End <=> i = Len(s)
  BY DEF IsLine
<1>2. PICK b, e \in 1 .. Len(s) + 1 :
        Found(s, a, {End}, b, e) /\ Token(w, {End}) = SubSeq(s, b, e - 1)
  <2>1. \E b, e \in 1 .. Len(s) + 1 :
           /\ Found(s, a, {End}, b, e)
           /\ Token(w, {End}) = SubSeq(s, b, e - 1)
           /\ Rest(w, {End}) = SubSeq(s, e + 1, Len(s))
    BY <1>1, TokenFacts, Zenon
  <2> QED
    BY <2>1, Zenon
<1>3. CASE a < Len(s)
  <2>1. b = a
    <3>1. ~ (a < b)
      BY <1>1, <1>2, <1>3 DEF Found
    <3> QED
      BY <1>1, <1>2, <3>1 DEF Found
  <2>2. e = Len(s)
    <3>1. b < e
      BY <1>1, <1>2, <1>3, <2>1 DEF Found
    <3>2. ~ (Len(s) < e)
      <4> SUFFICES ASSUME Len(s) < e PROVE FALSE
        OBVIOUS
      <4>1. Len(s) \in b .. e - 1
        BY <1>1, <1>2, <1>3, <2>1
      <4> QED
        BY <1>1, <1>2, <4>1 DEF Found
    <3>3. s[e] \in {End}
      BY <1>1, <1>2, <3>2 DEF Found
    <3> QED
      BY <1>1, <1>2, <3>2, <3>3
  <2> QED
    BY <1>2, <1>3, <2>1, <2>2
<1>4. CASE ~ (a < Len(s))
  <2>1. b = Len(s) + 1
    <3>1. b # Len(s)
      <4> SUFFICES ASSUME b = Len(s) PROVE FALSE
        OBVIOUS
      <4>1. b \in b .. e - 1
        BY <1>1, <1>2 DEF Found
      <4> QED
        BY <1>1, <1>2, <4>1 DEF Found
    <3> QED
      BY <1>1, <1>2, <1>4, <3>1 DEF Found
  <2>2. e = Len(s) + 1
    BY <1>1, <1>2, <2>1 DEF Found
  <2>3. SubSeq(s, Len(s) + 1, Len(s)) = <<>>
    BY <1>1, SubSeqEmpty
  <2> QED
    BY <1>1, <1>2, <1>4, <2>1, <2>2, <2>3
<1> QED
  BY <1>3, <1>4

(* A part of a line is empty only if it ends before it begins.             *)
LEMMA PartEmpty ==
  ASSUME NEW S, NEW s \in Seq(S), NEW b \in 1 .. Len(s) + 1, NEW e \in 0 .. Len(s)
  PROVE  SubSeq(s, b, e) = <<>> <=> e < b
<1>1. b \in Int /\ e \in Int /\ \A i \in b .. e : s[i] \in S
  BY ElementOfSeq
<1>2. e < b => SubSeq(s, b, e) = <<>>
  BY <1>1, SubSeqEmpty
<1>3. Len(SubSeq(s, b, e)) = IF b <= e THEN e - b + 1 ELSE 0
  BY <1>1, SubSeqProperties
<1>4. SubSeq(s, b, e) = <<>> => Len(SubSeq(s, b, e)) = 0
  <2>1. Len(<<>>) = 0
    OBVIOUS
  <2> QED
    BY <2>1, Zenon
<1> QED
  BY <1>1, <1>2, <1>3, <1>4

(* put: the three tokens of a line.                                        *)
Put2(s) == Token(Rest(s, {Blank, End}), {Blank, End})
Put3(s) == Token(Rest(Rest(s, {Blank, End}), {Blank, End}), {End})

(* Where strtok finds the key and the value of put.                        *)
LEMMA PutFound ==
  ASSUME NEW s, IsLine(s), NEW v \in 1 .. Len(s) - 1,
         Rest(s, {Blank, End}) = SubSeq(s, v + 2, Len(s))
  PROVE  \E b, e \in 1 .. Len(s) + 1 :
           /\ Found(s, v + 2, {Blank, End}, b, e) /\ Put2(s) = SubSeq(s, b, e - 1)
           /\ IF e < Len(s) - 1 THEN Put3(s) = SubSeq(s, e + 1, Len(s) - 1) ELSE Put3(s) = <<>>
<1>1. /\ s \in Seq(Characters) /\ Len(s) \in Nat \ {0} /\ v + 2 \in 1 .. Len(s) + 1
  BY DEF IsLine
<1>2. PICK b, e \in 1 .. Len(s) + 1 :
        /\ Found(s, v + 2, {Blank, End}, b, e)
        /\ Token(SubSeq(s, v + 2, Len(s)), {Blank, End}) = SubSeq(s, b, e - 1)
        /\ Rest(SubSeq(s, v + 2, Len(s)), {Blank, End}) = SubSeq(s, e + 1, Len(s))
  BY <1>1, TokenFacts, Zenon
<1>3. Put2(s) = SubSeq(s, b, e - 1) /\ Put3(s) = Token(SubSeq(s, e + 1, Len(s)), {End})
  BY <1>2, Zenon DEF Put2, Put3
<1>4. CASE e <= Len(s)
  <2>1. e + 1 \in 1 .. Len(s) + 1
    BY <1>1, <1>4
  <2>2. LET w == SubSeq(s, e + 1, Len(s)) IN
        IF e + 1 < Len(s) THEN Token(w, {End}) = SubSeq(s, e + 1, Len(s) - 1)
                          ELSE Token(w, {End}) = <<>>
    BY <2>1, ToTheEnd, Zenon
  <2>3. e + 1 < Len(s) <=> e < Len(s) - 1
    BY <1>1, <2>1
  <2> QED
    BY <1>2, <1>3, <2>2, <2>3, Zenon
<1>5. CASE e = Len(s) + 1
  <2>1. SubSeq(s, e + 1, Len(s)) = SubSeq(s, Len(s) + 1, Len(s))
    <3>1. SubSeq(s, Len(s) + 2, Len(s)) = <<>> /\ SubSeq(s, Len(s) + 1, Len(s)) = <<>>
      BY <1>1, SubSeqEmpty
    <3>2. e + 1 = Len(s) + 2
      BY <1>1, <1>5
    <3> QED
      BY <3>1, <3>2
  <2>2. Len(s) + 1 \in 1 .. Len(s) + 1 /\ ~ (Len(s) + 1 < Len(s)) /\ ~ (e < Len(s) - 1)
    BY <1>1, <1>5
  <2>3. Token(SubSeq(s, Len(s) + 1, Len(s)), {End}) = <<>>
    BY <2>2, ToTheEnd, Zenon
  <2> QED
    BY <1>2, <1>3, <2>1, <2>2, <2>3, Zenon
<1>6. e <= Len(s) \/ e = Len(s) + 1
  <2>1. Len(s) \in Nat /\ e \in 1 .. Len(s) + 1
    BY <1>1
  <2> HIDE <1>1
  <2> QED
    BY <2>1
<1> QED
  BY <1>4, <1>5, <1>6, Zenon

(* What the sets of arguments hold.                                        *)
LEMMA PutMembers ==
  ASSUME NEW s, NEW x
  PROVE  x \in PutArguments(s) <=>
           \E b \in 1 .. Len(s), e \in 1 .. Len(s) - 3 :
             KeyOfPut(s, b, e) /\ x = <<SubSeq(s, b, e), SubSeq(s, e + 2, Len(s) - 1)>>
<1> DEFINE Places == {p \in (1 .. Len(s)) \X (1 .. Len(s) - 3) : KeyOfPut(s, p[1], p[2])}
           At(w) == <<SubSeq(s, w[1], w[2]), SubSeq(s, w[2] + 2, Len(s) - 1)>>
<1>1. PutArguments(s) = {At(w) : w \in Places}
  BY DEF PutArguments
<1>2. ASSUME NEW w \in Places
      PROVE  w[1] \in 1 .. Len(s) /\ w[2] \in 1 .. Len(s) - 3 /\ KeyOfPut(s, w[1], w[2])
  OBVIOUS
<1>3. ASSUME NEW b \in 1 .. Len(s), NEW e \in 1 .. Len(s) - 3, KeyOfPut(s, b, e)
      PROVE  /\ <<b, e>> \in Places
             /\ At(<<b, e>>) = <<SubSeq(s, b, e), SubSeq(s, e + 2, Len(s) - 1)>>
  <2>1. <<b, e>>[1] = b /\ <<b, e>>[2] = e
    OBVIOUS
  <2> QED
    BY <1>3, <2>1
<1>4. x \in PutArguments(s) <=> \E w \in Places : x = At(w)
  <2> HIDE DEF Places, At
  <2> QED
    BY <1>1, Zenon
<1>5. ASSUME NEW w \in Places, x = At(w)
      PROVE  \E b \in 1 .. Len(s), e \in 1 .. Len(s) - 3 :
               KeyOfPut(s, b, e) /\ x = <<SubSeq(s, b, e), SubSeq(s, e + 2, Len(s) - 1)>>
  BY <1>2, <1>5, Zenon
<1> HIDE DEF Places, At
<1> QED
  BY <1>3, <1>4, <1>5, Zenon

(* The same of get and of del.                                             *)
LEMMA KeyMembers ==
  ASSUME NEW s, NEW word, NEW x
  PROVE  x \in KeyArguments(s, word) <=>
           \E b \in 1 .. Len(s), e \in 0 .. Len(s) - 1 :
             KeyOf(s, word, b, e) /\ x = <<SubSeq(s, b, e)>>
<1> DEFINE Places == {p \in (1 .. Len(s)) \X (0 .. Len(s) - 1) : KeyOf(s, word, p[1], p[2])}
           At(w) == <<SubSeq(s, w[1], w[2])>>
<1>1. KeyArguments(s, word) = {At(w) : w \in Places}
  BY DEF KeyArguments
<1>2. ASSUME NEW w \in Places
      PROVE  w[1] \in 1 .. Len(s) /\ w[2] \in 0 .. Len(s) - 1 /\ KeyOf(s, word, w[1], w[2])
  OBVIOUS
<1>3. ASSUME NEW b \in 1 .. Len(s), NEW e \in 0 .. Len(s) - 1, KeyOf(s, word, b, e)
      PROVE  <<b, e>> \in Places /\ At(<<b, e>>) = <<SubSeq(s, b, e)>>
  <2>1. <<b, e>>[1] = b /\ <<b, e>>[2] = e
    OBVIOUS
  <2> QED
    BY <1>3, <2>1
<1>4. x \in KeyArguments(s, word) <=> \E w \in Places : x = At(w)
  <2> HIDE DEF Places, At
  <2> QED
    BY <1>1, Zenon
<1>5. ASSUME NEW w \in Places, x = At(w)
      PROVE  \E b \in 1 .. Len(s), e \in 0 .. Len(s) - 1 :
               KeyOf(s, word, b, e) /\ x = <<SubSeq(s, b, e)>>
  BY <1>2, <1>5, Zenon
<1> HIDE DEF Places, At
<1> QED
  BY <1>3, <1>4, <1>5, Zenon

(* The verb of a line has one place.                                       *)
LEMMA VerbPlace ==
  ASSUME NEW s, NEW word \in Words, NEW v \in Nat \ {0}, VerbAt(s, word, v, v),
         NEW c \in Nat, NEW u \in 1 .. c - 2, VerbAt(s, word, u, c)
  PROVE  u = v
<1>1. s[v] # Blank /\ s[u] # Blank
  BY CommandAssumption DEF VerbAt
<1>2. ~ (u < v)
  <2>1. u < v => u \in 1 .. v - 1 /\ u # v
    OBVIOUS
  <2> QED
    BY <1>1, <2>1 DEF VerbAt
<1>3. ~ (v < u)
  <2>1. v < u => v \in 1 .. c - 1 /\ u # v
    OBVIOUS
  <2> QED
    BY <1>1, <2>1 DEF VerbAt
<1> QED
  BY <1>2, <1>3

(* Nothing but blanks stands between the verb and what follows.            *)
LEMMA VerbBefore ==
  ASSUME NEW s, IsLine(s), NEW word, NEW v \in 1 .. Len(s) - 1, NEW b \in v + 2 .. Len(s),
         VerbAt(s, word, v, v), s[v + 1] \in {Blank, End},
         \A j \in v + 2 .. b - 1 : s[j] \in {Blank, End}
  PROVE  VerbAt(s, word, v, b)
<1>1. ASSUME NEW i \in 1 .. b - 1, i # v PROVE s[i] = Blank
  <2>1. i \in 1 .. Len(s) /\ i # Len(s)
    BY DEF IsLine
  <2>2. s[i] # End
    BY <2>1 DEF IsLine
  <2>3. CASE i < v
    BY <2>3 DEF VerbAt
  <2>4. CASE i = v + 1
    BY <2>2, <2>4
  <2>5. CASE i \in v + 2 .. b - 1
    BY <2>2, <2>5
  <2> QED
    BY <1>1, <2>3, <2>4, <2>5
<1> QED
  BY <1>1 DEF VerbAt

(* The arguments of put are the two tokens after the verb, if both exist.  *)
LEMMA PutArgumentsFound ==
  ASSUME NEW s, IsLine(s), Token(s, {Blank, End}) = <<"put">>
  PROVE  PutArguments(s) =
           IF Put2(s) # <<>> /\ Put3(s) # <<>> THEN {<<Put2(s), Put3(s)>>} ELSE {}
<1>0. /\ s \in Seq(Characters) /\ Len(s) \in Nat \ {0} /\ "put" \in Words
      /\ \A i \in 1 .. Len(s) : s[i] = End <=> i = Len(s)
  BY CommandAssumption DEF IsLine
<1>1. PICK v \in 1 .. Len(s) - 1 :
        /\ VerbAt(s, "put", v, v) /\ s[v + 1] \in {Blank, End}
        /\ Rest(s, {Blank, End}) = SubSeq(s, v + 2, Len(s))
  BY <1>0, VerbFound, Zenon
<1>2. PICK b, e \in 1 .. Len(s) + 1 :
        /\ Found(s, v + 2, {Blank, End}, b, e) /\ Put2(s) = SubSeq(s, b, e - 1)
        /\ IF e < Len(s) - 1 THEN Put3(s) = SubSeq(s, e + 1, Len(s) - 1) ELSE Put3(s) = <<>>
  BY <1>1, PutFound, Zenon
<1>3. /\ b \in v + 2 .. Len(s) + 1 /\ e \in b .. Len(s) + 1
      /\ \A j \in v + 2 .. b - 1 : s[j] \in {Blank, End}
      /\ \A j \in b .. e - 1 : s[j] \notin {Blank, End}
      /\ b <= Len(s) => b < e
      /\ e <= Len(s) => s[e] \in {Blank, End}
  BY <1>2, Zenon DEF Found
<1>4. ASSUME NEW c \in 1 .. Len(s), NEW d \in 1 .. Len(s) - 3, KeyOfPut(s, c, d)
      PROVE  c = b /\ d = e - 1 /\ b < e /\ e < Len(s) - 1
  <2>1. PICK u \in 1 .. c - 2 : VerbAt(s, "put", u, c)
    BY <1>4 DEF KeyOfPut
  <2>2. u = v
    <3>1. v \in Nat \ {0} /\ c \in Nat
      BY <1>0
    <3> QED
      BY <1>0, <1>1, <2>1, <3>1, VerbPlace, Zenon
  <2>3. c \in v + 2 .. d /\ (\A i \in c .. d : s[i] # Blank) /\ s[d + 1] = Blank
    BY <1>4, <2>2 DEF KeyOfPut, Clear
  <2>4. \A j \in v + 2 .. c - 1 : s[j] = Blank
    BY <2>1, <2>2 DEF VerbAt
  <2>5. \A i \in c .. d : s[i] \notin {Blank, End}
    BY <1>0, <2>3
  <2>6. ~ (b < c)
    <3>1. b < c => b \in v + 2 .. c - 1 /\ b \in b .. e - 1
      BY <1>0, <1>3
    <3> QED
      BY <1>3, <2>4, <3>1
  <2>7. ~ (c < b)
    <3>1. c < b => c \in v + 2 .. b - 1 /\ c \in c .. d
      BY <1>3, <2>3
    <3> QED
      BY <1>3, <2>5, <3>1
  <2>8. ~ (d + 1 < e)
    <3>1. d + 1 < e => d + 1 \in b .. e - 1
      BY <1>3, <2>3, <2>7
    <3> QED
      BY <1>3, <2>3, <3>1
  <2>9. ~ (e < d + 1)
    <3>1. e < d + 1 => e \in c .. d /\ e <= Len(s)
      BY <1>3, <2>3, <2>6
    <3> QED
      BY <1>3, <2>5, <3>1
  <2> QED
    BY <1>0, <1>3, <2>3, <2>6, <2>7, <2>8, <2>9
<1>5. ASSUME b < e, e < Len(s) - 1
      PROVE  b \in 1 .. Len(s) /\ e - 1 \in 1 .. Len(s) - 3 /\ KeyOfPut(s, b, e - 1)
  <2>1. /\ b \in 1 .. Len(s) /\ e - 1 \in 1 .. Len(s) - 3
        /\ b \in v + 2 .. Len(s) /\ v \in 1 .. b - 2
    BY <1>0, <1>3, <1>5
  <2>2. VerbAt(s, "put", v, b)
    BY <1>1, <1>3, <2>1, VerbBefore, Zenon
  <2>3. Clear(s, b, e - 1)
    BY <1>3 DEF Clear
  <2>4. s[e - 1 + 1] = Blank
    <3>1. e - 1 + 1 = e /\ e \in 1 .. Len(s) /\ e # Len(s)
      BY <1>0, <1>3, <1>5
    <3> QED
      BY <1>0, <1>3, <3>1
  <2>5. b <= e - 1
    BY <1>3, <1>5
  <2> QED
    BY <2>1, <2>2, <2>3, <2>4, <2>5 DEF KeyOfPut
<1>6. Put2(s) # <<>> <=> b < e
  <2>1. b \in 1 .. Len(s) + 1 /\ e - 1 \in 0 .. Len(s) /\ (b < e <=> ~ (e - 1 < b))
    BY <1>0, <1>3
  <2> QED
    BY <1>0, <1>2, <2>1, PartEmpty
<1>7. Put3(s) # <<>> <=> e < Len(s) - 1
  <2>1. CASE e < Len(s) - 1
    <3>1. e + 1 \in 1 .. Len(s) + 1 /\ Len(s) - 1 \in 0 .. Len(s) /\ ~ (Len(s) - 1 < e + 1)
      BY <1>0, <1>3, <2>1
    <3> QED
      BY <1>0, <1>2, <2>1, <3>1, PartEmpty
  <2> QED
    BY <1>2, <2>1
<1>8. ASSUME b < e, e < Len(s) - 1 PROVE PutArguments(s) = {<<Put2(s), Put3(s)>>}
  <2>1. e - 1 + 2 = e + 1
    BY <1>3
  <2>2. ASSUME NEW x PROVE x \in PutArguments(s) <=> x = <<Put2(s), Put3(s)>>
    <3>1. <<Put2(s), Put3(s)>> = <<SubSeq(s, b, e - 1), SubSeq(s, e - 1 + 2, Len(s) - 1)>>
      BY <1>2, <1>8, <2>1
    <3> QED
      BY <1>4, <1>5, <1>8, <3>1, PutMembers, Zenon
  <2> QED
    BY <2>2
<1>9. ASSUME ~ (b < e /\ e < Len(s) - 1) PROVE PutArguments(s) = {}
  <2>1. \A x : x \notin PutArguments(s)
    BY <1>4, <1>9, PutMembers, Zenon
  <2> QED
    BY <2>1
<1> QED
  BY <1>6, <1>7, <1>8, <1>9

(* The greatest element of a set of bounded naturals is one of it.         *)
LEMMA MaxFacts ==
  ASSUME NEW b \in Nat, NEW S \in SUBSET (0 .. b), S # {}
  PROVE  Max(S) \in S /\ \A n \in S : n <= Max(S)
<1> DEFINE T == {b - n : n \in S}
<1>1. T \in SUBSET Nat /\ T # {}
  <2>1. ASSUME NEW n \in S PROVE b - n \in Nat
    OBVIOUS
  <2>2. T \subseteq Nat
    BY <2>1
  <2> QED
    BY <2>2
<1>2. Min(T) \in T /\ \A n \in T : Min(T) <= n
  BY <1>1, MinFacts
<1>3. \E m \in S : \A n \in S : m >= n
  <2>1. PICK m \in S : Min(T) = b - m
    BY <1>2
  <2>2. ASSUME NEW n \in S PROVE m >= n
    <3>1. b - m <= b - n
      BY <1>2, <2>1
    <3> QED
      BY <3>1
  <2> QED
    BY <2>2
<1> QED
  BY <1>3 DEF Max

(* trim cuts the blanks off both ends.                                     *)
LEMMA TrimFacts ==
  ASSUME NEW S, NEW w \in Seq(S)
  PROVE  \/ (\A i \in 1 .. Len(w) : w[i] = Blank) /\ Trim(w) = <<>>
         \/ \E lo, hi \in 1 .. Len(w) :
              /\ lo <= hi /\ w[lo] # Blank /\ w[hi] # Blank
              /\ \A i \in 1 .. Len(w) : i < lo \/ hi < i => w[i] = Blank
              /\ Trim(w) = SubSeq(w, lo, hi)
<1> DEFINE solid == {i \in 1 .. Len(w) : w[i] # Blank}
<1>1. /\ Len(w) \in Nat
      /\ Trim(w) = IF solid = {} THEN <<>> ELSE SubSeq(w, Min(solid), Max(solid))
  BY DEF Trim
<1>2. CASE solid = {}
  BY <1>1, <1>2
<1>3. CASE solid # {}
  <2>1. solid \in SUBSET Nat /\ solid \in SUBSET (0 .. Len(w))
    <3>1. ASSUME NEW i \in solid PROVE i \in Nat /\ i \in 0 .. Len(w)
      BY <1>1
    <3> QED
      BY <3>1
  <2>2. /\ Min(solid) \in solid /\ \A n \in solid : Min(solid) <= n
        /\ Max(solid) \in solid /\ \A n \in solid : n <= Max(solid)
    <3> HIDE DEF solid
    <3> QED
      BY <1>1, <1>3, <2>1, MinFacts, MaxFacts, Zenon
  <2> DEFINE lo == Min(solid)
             hi == Max(solid)
  <2>3. /\ lo \in 1 .. Len(w) /\ hi \in 1 .. Len(w) /\ lo <= hi
        /\ w[lo] # Blank /\ w[hi] # Blank
    <3> HIDE DEF lo, hi
    <3> QED
      BY <2>2 DEF lo, hi
  <2>4. ASSUME NEW i \in 1 .. Len(w), i < lo \/ hi < i PROVE w[i] = Blank
    <3>1. i \in solid => lo <= i /\ i <= hi
      BY <2>2, Zenon
    <3>2. i \notin solid
      <4> HIDE DEF lo, hi, solid
      <4> QED
        BY <1>1, <2>3, <2>4, <3>1
    <3> QED
      BY <3>2
  <2>5. Trim(w) = SubSeq(w, lo, hi)
    BY <1>1, <1>3, Zenon
  <2> HIDE DEF lo, hi, solid
  <2> QED
    BY <2>3, <2>4, <2>5, Zenon
<1> QED
  BY <1>2, <1>3

(* get and del: the second token of a line.                                *)
Key2(s) == Token(Rest(s, {Blank, End}), {End})

(* The argument of get and of del is the second token without the blanks   *)
(* around it, if there is a second token.                                  *)
LEMMA KeyArgumentsFound ==
  ASSUME NEW s, IsLine(s), NEW word \in Words, Token(s, {Blank, End}) = <<word>>
  PROVE  KeyArguments(s, word) = IF Key2(s) # <<>> THEN {<<Trim(Key2(s))>>} ELSE {}
<1>0. /\ s \in Seq(Characters) /\ Len(s) \in Nat \ {0}
      /\ \A i \in 1 .. Len(s) : s[i] = End <=> i = Len(s)
  BY DEF IsLine
<1>1. PICK v \in 1 .. Len(s) - 1 :
        /\ VerbAt(s, word, v, v) /\ s[v + 1] \in {Blank, End}
        /\ Rest(s, {Blank, End}) = SubSeq(s, v + 2, Len(s))
  BY VerbFound, Zenon
<1> DEFINE w == SubSeq(s, v + 2, Len(s) - 1)
<1>2. IF v + 2 < Len(s) THEN Key2(s) = w ELSE Key2(s) = <<>>
  <2>1. v + 2 \in 1 .. Len(s) + 1
    BY <1>0
  <2>2. Key2(s) = Token(SubSeq(s, v + 2, Len(s)), {End})
    BY <1>1, Zenon DEF Key2
  <2> QED
    BY <2>1, <2>2, ToTheEnd, Zenon
<1>3. ASSUME NEW b \in 1 .. Len(s), NEW e \in 0 .. Len(s) - 1, KeyOf(s, word, b, e)
      PROVE  /\ b \in v + 2 .. Len(s) /\ v + 2 < Len(s) /\ b <= e + 1
             /\ \A i \in v + 2 .. b - 1 : s[i] = Blank
             /\ \A i \in e + 1 .. Len(s) - 1 : s[i] = Blank
             /\ b <= e => s[b] # Blank /\ s[e] # Blank
  <2>1. PICK u \in 1 .. b - 2 : VerbAt(s, word, u, b) /\ (b > e => u + 2 < Len(s))
    BY <1>3 DEF KeyOf
  <2>2. u = v
    <3>1. v \in Nat \ {0} /\ b \in Nat
      BY <1>0
    <3> QED
      BY <1>0, <1>1, <2>1, <3>1, VerbPlace, Zenon
  <2>3. b \in v + 2 .. Len(s) /\ v + 2 < Len(s)
    BY <1>0, <2>1, <2>2
  <2>4. \A i \in v + 2 .. b - 1 : s[i] = Blank
    BY <2>1, <2>2 DEF VerbAt
  <2>5. /\ b <= e + 1 /\ \A i \in e + 1 .. Len(s) - 1 : s[i] = Blank
        /\ b <= e => s[b] # Blank /\ s[e] # Blank
    BY <1>3 DEF KeyOf, Clear
  <2> QED
    BY <2>3, <2>4, <2>5
<1>4. CASE ~ (v + 2 < Len(s))
  <2>1. \A x : x \notin KeyArguments(s, word)
    BY <1>3, <1>4, KeyMembers, Zenon
  <2>2. Key2(s) = <<>>
    BY <1>2, <1>4
  <2> QED
    BY <2>1, <2>2
<1>5. CASE v + 2 < Len(s)
  <2>1. /\ w \in Seq(Characters) /\ Len(w) = Len(s) - v - 2 /\ Key2(s) = w /\ w # <<>>
        /\ \A i \in 1 .. Len(w) : w[i] = s[v + 1 + i]
    <3>1. Key2(s) = w
      BY <1>2, <1>5
    <3>2. /\ v + 2 \in Int /\ Len(s) - 1 \in Int
          /\ \A i \in v + 2 .. Len(s) - 1 : s[i] \in Characters
      BY <1>0, ElementOfSeq
    <3>3. /\ w \in Seq(Characters)
          /\ Len(w) = IF v + 2 <= Len(s) - 1 THEN Len(s) - 1 - (v + 2) + 1 ELSE 0
          /\ \A i \in 1 .. Len(s) - 1 - (v + 2) + 1 : w[i] = s[v + 2 + i - 1]
      BY <3>2, SubSeqProperties
    <3>4. Len(w) = Len(s) - v - 2
      BY <1>0, <1>5, <3>3
    <3>5. \A i \in 1 .. Len(w) : w[i] = s[v + 1 + i]
      <4> HIDE DEF w
      <4> QED
        BY <1>0, <3>3, <3>4
    <3>6. v + 2 \in 1 .. Len(s) + 1 /\ Len(s) - 1 \in 0 .. Len(s) /\ ~ (Len(s) - 1 < v + 2)
      BY <1>0, <1>5
    <3>7. w # <<>>
      BY <1>0, <3>6, PartEmpty, Zenon
    <3> QED
      BY <3>1, <3>3, <3>4, <3>5, <3>7, Zenon
  <2> HIDE DEF w
  <2> SUFFICES ASSUME NEW x PROVE x \in KeyArguments(s, word) <=> x = <<Trim(w)>>
    BY <2>1
  <2>2. CASE (\A i \in 1 .. Len(w) : w[i] = Blank) /\ Trim(w) = <<>>
    <3>1. \A j \in v + 2 .. Len(s) - 1 : s[j] = Blank
      <4>1. ASSUME NEW j \in v + 2 .. Len(s) - 1 PROVE s[j] = Blank
        <5>1. j - v - 1 \in 1 .. Len(w) /\ v + 1 + (j - v - 1) = j
          BY <1>0, <2>1
        <5> QED
          BY <2>1, <2>2, <5>1
      <4> QED
        BY <4>1
    <3>2. ASSUME NEW b \in 1 .. Len(s), NEW e \in 0 .. Len(s) - 1, KeyOf(s, word, b, e)
          PROVE  SubSeq(s, b, e) = <<>>
      <4>1. ~ (b <= e)
        <5>1. b <= e => b \in v + 2 .. Len(s) - 1
          BY <1>0, <1>3, <3>2
        <5> QED
          BY <1>3, <3>1, <3>2, <5>1
      <4>2. b \in Int /\ e \in Int /\ e < b
        BY <1>0, <4>1
      <4> QED
        BY <4>2, SubSeqEmpty
    <3>3. KeyOf(s, word, Len(s), Len(s) - 1)
      <4>1. Len(s) \in v + 2 .. Len(s) /\ \A j \in v + 2 .. Len(s) - 1 : s[j] \in {Blank, End}
        BY <1>0, <1>5, <3>1
      <4>2. VerbAt(s, word, v, Len(s))
        BY <1>1, <4>1, VerbBefore, Zenon
      <4>3. v \in 1 .. Len(s) - 2 /\ Len(s) - 1 + 1 = Len(s) /\ ~ (Len(s) <= Len(s) - 1)
        BY <1>0, <1>5
      <4>4. \A i \in Len(s) - 1 + 1 .. Len(s) - 1 : s[i] = Blank
        BY <1>0
      <4>5. Len(s) <= Len(s) - 1 + 1 /\ (Len(s) > Len(s) - 1 => v + 2 < Len(s))
        BY <1>0, <1>5
      <4> QED
        BY <4>2, <4>3, <4>4, <4>5, Zenon DEF KeyOf
    <3>4. /\ Len(s) \in 1 .. Len(s) /\ Len(s) - 1 \in 0 .. Len(s) - 1
          /\ SubSeq(s, Len(s), Len(s) - 1) = <<>>
      BY <1>0, SubSeqEmpty
    <3>5. ASSUME x \in KeyArguments(s, word) PROVE x = <<Trim(w)>>
      <4>1. PICK b \in 1 .. Len(s), e \in 0 .. Len(s) - 1 :
                   KeyOf(s, word, b, e) /\ x = <<SubSeq(s, b, e)>>
        BY <3>5, KeyMembers
      <4>2. SubSeq(s, b, e) = Trim(w)
        BY <2>2, <3>2, <4>1, Zenon
      <4> QED
        BY <4>1, <4>2, Zenon
    <3>6. ASSUME x = <<Trim(w)>> PROVE x \in KeyArguments(s, word)
      <4>1. x = <<SubSeq(s, Len(s), Len(s) - 1)>>
        BY <2>2, <3>4, <3>6, Zenon
      <4> QED
        BY <3>3, <3>4, <4>1, KeyMembers, Zenon
    <3> QED
      BY <3>5, <3>6
  <2>3. CASE \E lo, hi \in 1 .. Len(w) :
               /\ lo <= hi /\ w[lo] # Blank /\ w[hi] # Blank
               /\ \A i \in 1 .. Len(w) : i < lo \/ hi < i => w[i] = Blank
               /\ Trim(w) = SubSeq(w, lo, hi)
    <3>1. PICK lo, hi \in 1 .. Len(w) :
               /\ lo <= hi /\ w[lo] # Blank /\ w[hi] # Blank
               /\ \A i \in 1 .. Len(w) : i < lo \/ hi < i => w[i] = Blank
               /\ Trim(w) = SubSeq(w, lo, hi)
      BY <2>3
    <3> DEFINE b == v + 1 + lo
               e == v + 1 + hi
    <3>2. /\ b \in v + 2 .. Len(s) - 1 /\ e \in v + 2 .. Len(s) - 1 /\ b <= e
          /\ s[b] # Blank /\ s[e] # Blank
      BY <1>0, <2>1, <3>1
    <3>3. ASSUME NEW j \in v + 2 .. Len(s) - 1, j < b \/ e < j PROVE s[j] = Blank
      <4>1. /\ j - v - 1 \in 1 .. Len(w) /\ v + 1 + (j - v - 1) = j
            /\ j - v - 1 < lo \/ hi < j - v - 1
        BY <1>0, <2>1, <3>3
      <4> QED
        BY <2>1, <3>1, <4>1
    <3>4. SubSeq(w, lo, hi) = SubSeq(s, b, e)
      <4>1. \A i \in lo .. hi : w[i] \in Characters
        BY <2>1
      <4> QED
        BY <1>0, <2>1, <3>1, <3>2, SeqEqual, SubSeqProperties
    <3> HIDE DEF b, e
    <3>5. ASSUME NEW c \in 1 .. Len(s), NEW d \in 0 .. Len(s) - 1, KeyOf(s, word, c, d)
          PROVE  c = b /\ d = e
      <4>1. /\ c \in v + 2 .. Len(s) /\ c <= d + 1
            /\ \A i \in v + 2 .. c - 1 : s[i] = Blank
            /\ \A i \in d + 1 .. Len(s) - 1 : s[i] = Blank
            /\ c <= d => s[c] # Blank /\ s[d] # Blank
        BY <1>3, <3>5
      <4>2. ~ (b < c)
        BY <1>0, <3>2, <4>1
      <4>3. ~ (d < e)
        BY <1>0, <3>2, <4>1
      <4>4. c <= d
        BY <1>0, <3>2, <4>1, <4>2, <4>3
      <4>5. ~ (c < b)
        BY <1>0, <3>2, <3>3, <4>1, <4>4
      <4>6. ~ (e < d)
        BY <1>0, <3>2, <3>3, <4>1, <4>4
      <4> QED
        BY <1>0, <3>2, <4>1, <4>2, <4>3, <4>5, <4>6
    <3>6. KeyOf(s, word, b, e)
      <4>1. b \in v + 2 .. Len(s) /\ \A j \in v + 2 .. b - 1 : s[j] \in {Blank, End}
        BY <1>0, <3>2, <3>3
      <4>2. VerbAt(s, word, v, b)
        BY <1>1, <4>1, VerbBefore, Zenon
      <4>3. v \in 1 .. b - 2 /\ b <= e + 1 /\ ~ (b > e)
        BY <1>0, <3>2
      <4>4. \A i \in e + 1 .. Len(s) - 1 : s[i] = Blank
        BY <1>0, <3>2, <3>3
      <4>5. Clear(s, b, b) /\ Clear(s, e, e)
        BY <1>0, <3>2 DEF Clear
      <4> QED
        BY <4>2, <4>3, <4>4, <4>5 DEF KeyOf
    <3>7. b \in 1 .. Len(s) /\ e \in 0 .. Len(s) - 1
      BY <1>0, <3>2
    <3>8. Trim(w) = SubSeq(s, b, e)
      BY <3>1, <3>4, Zenon
    <3>9. ASSUME x \in KeyArguments(s, word) PROVE x = <<Trim(w)>>
      <4>1. PICK c \in 1 .. Len(s), d \in 0 .. Len(s) - 1 :
                   KeyOf(s, word, c, d) /\ x = <<SubSeq(s, c, d)>>
        BY <3>9, KeyMembers
      <4>2. c = b /\ d = e
        BY <3>5, <4>1, Zenon
      <4> QED
        BY <3>8, <4>1, <4>2, Zenon
    <3>10. ASSUME x = <<Trim(w)>> PROVE x \in KeyArguments(s, word)
      <4>1. x = <<SubSeq(s, b, e)>>
        BY <3>8, <3>10, Zenon
      <4> QED
        BY <3>6, <3>7, <4>1, KeyMembers, Zenon
    <3> QED
      BY <3>9, <3>10
  <2>4. QED
    BY <2>1, <2>2, <2>3, TrimFacts, Zenon
<1> QED
  BY <1>4, <1>5

(* A line that begins with another word gives a command no arguments.      *)
LEMMA NoArguments ==
  ASSUME NEW s, IsLine(s), NEW word \in {"put", "get", "del"},
         Token(s, {Blank, End}) # <<word>>
  PROVE  Arguments(s)[word] = {}
<1>1. word \in Words /\ Len(s) \in Nat
  BY CommandAssumption DEF IsLine
<1>2. ASSUME NEW b \in 1 .. Len(s), NEW v \in 1 .. b - 2 PROVE ~ VerbAt(s, word, v, b)
  BY <1>1, VerbUnique, Zenon
<1>3. word = "put" => PutArguments(s) = {}
  <2>1. ASSUME word = "put", NEW x \in PutArguments(s) PROVE FALSE
    <3>1. PICK b \in 1 .. Len(s), e \in 1 .. Len(s) - 3 :
            KeyOfPut(s, b, e) /\ x = <<SubSeq(s, b, e), SubSeq(s, e + 2, Len(s) - 1)>>
      BY <2>1, PutMembers
    <3> QED
      BY <1>2, <2>1, <3>1, Zenon DEF KeyOfPut
  <2> QED
    BY <2>1
<1>4. KeyArguments(s, word) = {}
  <2>1. ASSUME NEW x \in KeyArguments(s, word) PROVE FALSE
    <3>1. PICK b \in 1 .. Len(s), e \in 0 .. Len(s) - 1 :
            KeyOf(s, word, b, e) /\ x = <<SubSeq(s, b, e)>>
      BY <2>1, KeyMembers
    <3> QED
      BY <1>2, <3>1, Zenon DEF KeyOf
  <2> QED
    BY <2>1
<1> QED
  BY <1>3, <1>4 DEF Arguments

(* The tokens of an address are the host and the port.                     *)
LEMMA AddressFound ==
  ASSUME NEW s \in Addresses
  PROVE  /\ Len(s) = 3 /\ s \in Seq(Characters)
         /\ Token(s, {Colon}) = <<s[1]>>
         /\ Token(Rest(s, {Colon}), {Colon}) = <<s[3]>>
<1>1. /\ s \in Seq(Characters) /\ Len(s) = 3 /\ s[2] = Colon
      /\ s[1] # Colon /\ s[3] # Colon
  <2>1. PICK host, port \in Words : s = <<host, Colon, port>>
    BY CommandAssumption
  <2>2. host # Colon /\ port # Colon
    BY CommandAssumption
  <2> QED
    BY <2>1, <2>2 DEF Characters
<1>2. PICK b, e \in 1 .. 4 :
        /\ Found(s, 1, {Colon}, b, e)
        /\ Token(s, {Colon}) = SubSeq(s, b, e - 1)
        /\ Rest(s, {Colon}) = SubSeq(s, e + 1, 3)
  <2>1. \E b, e \in 1 .. Len(s) + 1 :
           /\ Found(s, 1, {Colon}, b, e)
           /\ Token(s, {Colon}) = SubSeq(s, b, e - 1)
           /\ Rest(s, {Colon}) = SubSeq(s, e + 1, Len(s))
    BY <1>1, FirstTokenFacts, Zenon
  <2>2. Len(s) + 1 = 4
    BY <1>1
  <2> QED
    BY <1>1, <2>1, <2>2, Zenon
<1>3. b = 1 /\ e = 2
  <2>1. b = 1
    BY <1>1, <1>2 DEF Found
  <2>2. 1 < e
    BY <1>1, <1>2, <2>1 DEF Found
  <2>3. ~ (2 < e)
    <3>1. 2 < e => 2 \in b .. e - 1
      BY <1>2, <2>1
    <3> QED
      BY <1>1, <1>2, <3>1 DEF Found
  <2> QED
    BY <2>1, <2>2, <2>3
<1>4. PICK c, d \in 1 .. 4 :
        /\ Found(s, 3, {Colon}, c, d)
        /\ Token(SubSeq(s, 3, 3), {Colon}) = SubSeq(s, c, d - 1)
  <2>1. 3 \in 1 .. Len(s) + 1 /\ Len(s) + 1 = 4
    BY <1>1
  <2>2. \E c, d \in 1 .. Len(s) + 1 :
           /\ Found(s, 3, {Colon}, c, d)
           /\ Token(SubSeq(s, 3, Len(s)), {Colon}) = SubSeq(s, c, d - 1)
           /\ Rest(SubSeq(s, 3, Len(s)), {Colon}) = SubSeq(s, d + 1, Len(s))
    BY <1>1, <2>1, TokenFacts, Zenon
  <2> QED
    BY <1>1, <2>1, <2>2, Zenon
<1>5. c = 3 /\ d = 4
  <2>1. c = 3
    BY <1>1, <1>4 DEF Found
  <2> QED
    BY <1>1, <1>4, <2>1 DEF Found
<1>6. /\ Token(s, {Colon}) = SubSeq(s, 1, 1) /\ Rest(s, {Colon}) = SubSeq(s, 3, 3)
      /\ Token(SubSeq(s, 3, 3), {Colon}) = SubSeq(s, 3, 3)
  <2>1. 2 - 1 = 1 /\ 2 + 1 = 3 /\ 4 - 1 = 3
    OBVIOUS
  <2> QED
    BY <1>2, <1>3, <1>4, <1>5, <2>1, Zenon
<1>7. SubSeq(s, 1, 1) = <<s[1]>> /\ SubSeq(s, 3, 3) = <<s[3]>>
  <2>1. 1 \in 1 .. Len(s) /\ 3 \in 1 .. Len(s)
    BY <1>1
  <2> QED
    BY <1>1, <2>1, SubSeqOne, Zenon
<1> QED
  BY <1>1, <1>6, <1>7, Zenon

-----------------------------------------------------------------------------
(***************************************************************************)
(* The places of the tokens of a text.                                     *)
(***************************************************************************)

(* What ends the next token, k of them having been read.                   *)
Chars(s, k) ==
  IF s \in Addresses THEN {Colon}
  ELSE IF k = 0 \/ (k = 1 /\ Token(s, {Blank, End}) = <<"put">>) THEN {Blank, End}
  ELSE {End}

(* Where strtok goes on after the token that follows place a.              *)
Behind(s, a, chars) ==
  LET e == FirstIn(s, FirstOut(s, a, chars), chars) IN IF e <= Len(s) THEN e + 1 ELSE e

From1(s) == Behind(s, 1, Chars(s, 0))
From2(s) == Behind(s, From1(s), Chars(s, 1))
From3(s) == Behind(s, From2(s), Chars(s, 2))

From(s, k) ==
  IF k = 0 THEN 1 ELSE IF k = 1 THEN From1(s) ELSE IF k = 2 THEN From2(s) ELSE From3(s)

(* The token that follows k others, where it begins and where it ends.     *)
Start(s, k) == FirstOut(s, From(s, k), Chars(s, k))
Stop(s, k)  == FirstIn(s, Start(s, k), Chars(s, k))
Tok(s, k)   == SubSeq(s, Start(s, k), Stop(s, k) - 1)

Texts == Lines \cup Addresses \cup {<<>>}

(* Every text is a sequence of words and separators, and only the empty    *)
(* one, which stands for none, is empty; a line is no address.             *)
LEMMA TextFacts ==
  /\ \A s \in Texts : s \in Seq(Characters)
  /\ \A s \in Lines \cup Addresses : s # <<>>
  /\ \A s \in Lines : s \notin Addresses
<1>1. ASSUME NEW s \in Lines PROVE s \in Seq(Characters) /\ s # <<>>
  BY CommandAssumption DEF Characters
<1>2. ASSUME NEW s \in Addresses PROVE s \in Seq(Characters) /\ s # <<>>
  BY AddressFound
<1>3. <<>> \in Seq(Characters)
  OBVIOUS
<1>4. ASSUME NEW s \in Lines PROVE s \notin Addresses
  <2> SUFFICES ASSUME s \in Addresses PROVE FALSE
    OBVIOUS
  <2>1. PICK host, port \in Words : s = <<host, Colon, port>>
    BY CommandAssumption
  <2>2. s[3] = port /\ Len(s) = 3 /\ port # End
    BY <2>1, CommandAssumption
  <2>3. s[3] = End <=> 3 = Len(s)
    BY <1>4, <2>2, CommandAssumption
  <2> QED
    BY <2>2, <2>3
<1> QED
  BY <1>1, <1>2, <1>3, <1>4, Zenon DEF Texts

(* There is one token that follows a place.                                *)
LEMMA FoundUnique ==
  ASSUME NEW s, Len(s) \in Nat, NEW a \in 1 .. Len(s) + 1, NEW chars,
         NEW b, NEW e, NEW c, NEW d, Found(s, a, chars, b, e), Found(s, a, chars, c, d)
  PROVE  b = c /\ e = d
<1>1. b = c
  <2>1. ~ (b < c)
    <3> SUFFICES ASSUME b < c PROVE FALSE
      OBVIOUS
    <3>1. b \in a .. c - 1 /\ b \in b .. e - 1
      BY DEF Found
    <3> QED
      BY <3>1 DEF Found
  <2>2. ~ (c < b)
    <3> SUFFICES ASSUME c < b PROVE FALSE
      OBVIOUS
    <3>1. c \in a .. b - 1 /\ c \in c .. d - 1
      BY DEF Found
    <3> QED
      BY <3>1 DEF Found
  <2> QED
    BY <2>1, <2>2 DEF Found
<1>2. e = d
  <2>1. ~ (e < d)
    <3> SUFFICES ASSUME e < d PROVE FALSE
      OBVIOUS
    <3>1. e \in c .. d - 1 /\ e <= Len(s)
      BY <1>1 DEF Found
    <3> QED
      BY <3>1 DEF Found
  <2>2. ~ (d < e)
    <3> SUFFICES ASSUME d < e PROVE FALSE
      OBVIOUS
    <3>1. d \in b .. e - 1 /\ d <= Len(s)
      BY <1>1 DEF Found
    <3> QED
      BY <3>1 DEF Found
  <2> QED
    BY <2>1, <2>2 DEF Found
<1> QED
  BY <1>1, <1>2

(* FirstOut and FirstIn find it.                                           *)
LEMMA FoundPlaces ==
  ASSUME NEW s, Len(s) \in Nat, NEW a \in 1 .. Len(s) + 1, NEW chars
  PROVE  LET b == FirstOut(s, a, chars) e == FirstIn(s, b, chars) IN
         /\ Found(s, a, chars, b, e) /\ b \in 1 .. Len(s) + 1 /\ e \in 1 .. Len(s) + 1
         /\ Behind(s, a, chars) \in 1 .. Len(s) + 1 /\ e <= Behind(s, a, chars)
<1> DEFINE b == FirstOut(s, a, chars)
           e == FirstIn(s, b, chars)
<1>1. /\ b \in a .. Len(s) + 1 /\ \A j \in a .. b - 1 : s[j] \in chars
      /\ b <= Len(s) => s[b] \notin chars
  BY FirstFacts, Zenon
<1>2. b \in 1 .. Len(s) + 1
  BY <1>1
<1>3. /\ e \in b .. Len(s) + 1 /\ \A j \in b .. e - 1 : s[j] \notin chars
      /\ e <= Len(s) => s[e] \in chars
  BY <1>2, FirstFacts, Zenon
<1> HIDE DEF b, e
<1>4. b <= Len(s) => b < e
  <2>1. b <= Len(s) => b # e
    BY <1>1, <1>3
  <2> QED
    BY <1>2, <1>3, <2>1
<1>5. e \in 1 .. Len(s) + 1
  BY <1>2, <1>3
<1>6. Behind(s, a, chars) = IF e <= Len(s) THEN e + 1 ELSE e
  BY DEF Behind, b, e
<1>7. Behind(s, a, chars) \in 1 .. Len(s) + 1 /\ e <= Behind(s, a, chars)
  BY <1>5, <1>6
<1>8. Found(s, a, chars, b, e)
  BY <1>1, <1>3, <1>4 DEF Found
<1> QED
  BY <1>2, <1>5, <1>7, <1>8 DEF b, e

(* The places of a text follow each other.                                 *)
LEMMA FromFacts ==
  ASSUME NEW s, Len(s) \in Nat, NEW k \in 0 .. 2
  PROVE  /\ From(s, k) \in 1 .. Len(s) + 1 /\ From(s, k + 1) \in 1 .. Len(s) + 1
         /\ Start(s, k) \in 1 .. Len(s) + 1 /\ Stop(s, k) \in 1 .. Len(s) + 1
         /\ Found(s, From(s, k), Chars(s, k), Start(s, k), Stop(s, k))
         /\ From(s, k + 1) = IF Stop(s, k) <= Len(s) THEN Stop(s, k) + 1 ELSE Stop(s, k)
<1>1. From(s, 0) = 1 /\ From(s, 1) = From1(s) /\ From(s, 2) = From2(s) /\ From(s, 3) = From3(s)
  BY DEF From
<1>2. 1 \in 1 .. Len(s) + 1
  OBVIOUS
<1>3. From1(s) \in 1 .. Len(s) + 1
  BY <1>2, FoundPlaces, Zenon DEF From1
<1>4. From2(s) \in 1 .. Len(s) + 1
  BY <1>3, FoundPlaces, Zenon DEF From2
<1>5. From3(s) \in 1 .. Len(s) + 1
  BY <1>4, FoundPlaces, Zenon DEF From3
<1>6. From(s, k) \in 1 .. Len(s) + 1 /\ From(s, k + 1) \in 1 .. Len(s) + 1
  BY <1>1, <1>2, <1>3, <1>4, <1>5
<1>7. From(s, k + 1) = Behind(s, From(s, k), Chars(s, k))
  <2>1. k = 0 \/ k = 1 \/ k = 2
    OBVIOUS
  <2>2. 0 + 1 = 1 /\ 1 + 1 = 2 /\ 2 + 1 = 3
    OBVIOUS
  <2> QED
    BY <1>1, <2>1, <2>2, Zenon DEF From1, From2, From3
<1>8. /\ Found(s, From(s, k), Chars(s, k), Start(s, k), Stop(s, k))
      /\ Start(s, k) \in 1 .. Len(s) + 1 /\ Stop(s, k) \in 1 .. Len(s) + 1
  BY <1>6, FoundPlaces, Zenon DEF Start, Stop
<1>9. From(s, k + 1) = IF Stop(s, k) <= Len(s) THEN Stop(s, k) + 1 ELSE Stop(s, k)
  BY <1>7, Zenon DEF Behind, Start, Stop
<1> QED
  BY <1>6, <1>8, <1>9

(* An earlier token ends before a later one is looked for.                 *)
LEMMA StopOrder ==
  ASSUME NEW s, Len(s) \in Nat, NEW k \in 0 .. 3, NEW j \in 0 .. 2, j < k
  PROVE  Stop(s, j) <= From(s, k)
<1>1. \A i \in 0 .. 2 : /\ From(s, i) \in 1 .. Len(s) + 1 /\ Start(s, i) \in From(s, i) .. Len(s) + 1
                        /\ Stop(s, i) \in Start(s, i) .. Len(s) + 1
                        /\ Stop(s, i) <= From(s, i + 1) /\ From(s, i + 1) \in 1 .. Len(s) + 1
  <2>1. ASSUME NEW i \in 0 .. 2
        PROVE  /\ From(s, i) \in 1 .. Len(s) + 1 /\ Start(s, i) \in From(s, i) .. Len(s) + 1
               /\ Stop(s, i) \in Start(s, i) .. Len(s) + 1
               /\ Stop(s, i) <= From(s, i + 1) /\ From(s, i + 1) \in 1 .. Len(s) + 1
    <3>1. /\ From(s, i) \in 1 .. Len(s) + 1 /\ From(s, i + 1) \in 1 .. Len(s) + 1
          /\ Stop(s, i) \in 1 .. Len(s) + 1
          /\ Found(s, From(s, i), Chars(s, i), Start(s, i), Stop(s, i))
          /\ From(s, i + 1) = IF Stop(s, i) <= Len(s) THEN Stop(s, i) + 1 ELSE Stop(s, i)
      BY FromFacts, Zenon
    <3>2. /\ Start(s, i) \in From(s, i) .. Len(s) + 1
          /\ Stop(s, i) \in Start(s, i) .. Len(s) + 1
      BY <3>1, Zenon DEF Found
    <3>3. Stop(s, i) <= From(s, i + 1)
      BY <3>1
    <3> QED
      BY <3>1, <3>2, <3>3
  <2> QED
    BY <2>1
<1>2. /\ Stop(s, 0) <= From(s, 1) /\ From(s, 1) <= Stop(s, 1)
      /\ Stop(s, 1) <= From(s, 2) /\ From(s, 2) <= Stop(s, 2) /\ Stop(s, 2) <= From(s, 3)
      /\ Stop(s, 0) \in Nat /\ Stop(s, 1) \in Nat /\ Stop(s, 2) \in Nat
      /\ From(s, 1) \in Nat /\ From(s, 2) \in Nat /\ From(s, 3) \in Nat
  <2>1. 0 \in 0 .. 2 /\ 1 \in 0 .. 2 /\ 2 \in 0 .. 2 /\ 0 + 1 = 1 /\ 1 + 1 = 2 /\ 2 + 1 = 3
    OBVIOUS
  <2> QED
    BY <1>1, <2>1
<1>3. /\ j = 0 => k = 1 \/ k = 2 \/ k = 3
      /\ j = 1 => k = 2 \/ k = 3
      /\ j = 2 => k = 3
      /\ j = 0 \/ j = 1 \/ j = 2
  OBVIOUS
<1> QED
  BY <1>2, <1>3

(* The token that follows is the first one of what is left of the text.    *)
LEMMA TokRest ==
  ASSUME NEW s \in Seq(Characters), NEW k \in 0 .. 2
  PROVE  LET w == SubSeq(s, From(s, k), Len(s)) IN
         /\ Token(w, Chars(s, k)) = Tok(s, k)
         /\ Rest(w, Chars(s, k)) = SubSeq(s, From(s, k + 1), Len(s))
<1>1. /\ Len(s) \in Nat /\ From(s, k) \in 1 .. Len(s) + 1
      /\ Found(s, From(s, k), Chars(s, k), Start(s, k), Stop(s, k))
      /\ From(s, k + 1) = IF Stop(s, k) <= Len(s) THEN Stop(s, k) + 1 ELSE Stop(s, k)
      /\ Stop(s, k) \in 1 .. Len(s) + 1
  <2>1. Len(s) \in Nat
    OBVIOUS
  <2> QED
    BY <2>1, FromFacts, Zenon
<1> DEFINE w == SubSeq(s, From(s, k), Len(s))
<1>2. PICK b, e \in 1 .. Len(s) + 1 :
        /\ Found(s, From(s, k), Chars(s, k), b, e)
        /\ Token(w, Chars(s, k)) = SubSeq(s, b, e - 1)
        /\ Rest(w, Chars(s, k)) = SubSeq(s, e + 1, Len(s))
  BY <1>1, TokenFacts, Zenon
<1>3. b = Start(s, k) /\ e = Stop(s, k)
  BY <1>1, <1>2, FoundUnique, Zenon
<1>4. SubSeq(s, Stop(s, k) + 1, Len(s)) = SubSeq(s, From(s, k + 1), Len(s))
  <2>1. CASE Stop(s, k) <= Len(s)
    BY <1>1, <2>1
  <2>2. CASE ~ (Stop(s, k) <= Len(s))
    <3>1. SubSeq(s, Len(s) + 2, Len(s)) = <<>> /\ SubSeq(s, Len(s) + 1, Len(s)) = <<>>
      BY <1>1, SubSeqEmpty
    <3>2. Stop(s, k) + 1 = Len(s) + 2 /\ From(s, k + 1) = Len(s) + 1
      BY <1>1, <2>2
    <3> QED
      BY <3>1, <3>2
  <2> QED
    BY <2>1, <2>2
<1> HIDE DEF w
<1>5. Token(w, Chars(s, k)) = Tok(s, k)
  BY <1>2, <1>3, Zenon DEF Tok
<1>6. Rest(w, Chars(s, k)) = SubSeq(s, From(s, k + 1), Len(s))
  BY <1>2, <1>3, <1>4, Zenon
<1> QED
  BY <1>5, <1>6 DEF w

(* The tokens of a line and of an address.                                 *)
LEMMA TokFacts ==
  ASSUME NEW s \in Lines \cup Addresses
  PROVE  /\ s \in Lines =>
              /\ Tok(s, 0) = Token(s, {Blank, End})
              /\ Tok(s, 0) = <<"put">> => Tok(s, 1) = Put2(s) /\ Tok(s, 2) = Put3(s)
              /\ Tok(s, 0) # <<"put">> => Tok(s, 1) = Key2(s)
         /\ s \in Addresses => Tok(s, 0) = <<s[1]>> /\ Tok(s, 1) = <<s[3]>>
<1>1. s \in Seq(Characters) /\ From(s, 0) = 1 /\ SubSeq(s, 1, Len(s)) = s
  <2>1. s \in Seq(Characters)
    BY TextFacts DEF Texts
  <2>2. SubSeq(s, 1, Len(s)) = s
    BY <2>1, SubSeqProperties
  <2> QED
    BY <2>1, <2>2 DEF From
<1>2. /\ Tok(s, 0) = Token(s, Chars(s, 0))
      /\ Tok(s, 1) = Token(Rest(s, Chars(s, 0)), Chars(s, 1))
      /\ Tok(s, 2) = Token(Rest(Rest(s, Chars(s, 0)), Chars(s, 1)), Chars(s, 2))
  <2>1. /\ 0 \in 0 .. 2 /\ 1 \in 0 .. 2 /\ 2 \in 0 .. 2
        /\ 0 + 1 = 1 /\ 1 + 1 = 2
    OBVIOUS
  <2>2. Token(s, Chars(s, 0)) = Tok(s, 0)
    BY <1>1, <2>1, TokRest, Zenon
  <2>3. Rest(s, Chars(s, 0)) = SubSeq(s, From(s, 1), Len(s))
    BY <1>1, <2>1, TokRest, Zenon
  <2>4. Token(SubSeq(s, From(s, 1), Len(s)), Chars(s, 1)) = Tok(s, 1)
    BY <1>1, <2>1, TokRest, Zenon
  <2>5. Rest(SubSeq(s, From(s, 1), Len(s)), Chars(s, 1)) = SubSeq(s, From(s, 2), Len(s))
    BY <1>1, <2>1, TokRest, Zenon
  <2>6. Token(SubSeq(s, From(s, 2), Len(s)), Chars(s, 2)) = Tok(s, 2)
    BY <1>1, <2>1, TokRest, Zenon
  <2> QED
    BY <2>2, <2>3, <2>4, <2>5, <2>6, Zenon
<1>3. ASSUME s \notin Addresses
      PROVE  /\ Chars(s, 0) = {Blank, End} /\ Chars(s, 2) = {End}
             /\ Chars(s, 1) =
                  IF Token(s, {Blank, End}) = <<"put">> THEN {Blank, End} ELSE {End}
  BY <1>3 DEF Chars
<1>4. ASSUME s \in Addresses PROVE Chars(s, 0) = {Colon} /\ Chars(s, 1) = {Colon}
  BY <1>4 DEF Chars
<1>5. ASSUME s \in Lines
      PROVE  /\ Tok(s, 0) = Token(s, {Blank, End})
             /\ Tok(s, 0) = <<"put">> => Tok(s, 1) = Put2(s) /\ Tok(s, 2) = Put3(s)
             /\ Tok(s, 0) # <<"put">> => Tok(s, 1) = Key2(s)
  <2>0. s \notin Addresses
    BY <1>5, TextFacts, Zenon
  <2>1. Tok(s, 0) = Token(s, {Blank, End})
    BY <1>2, <1>3, <2>0, Zenon
  <2>2. ASSUME Tok(s, 0) = <<"put">> PROVE Tok(s, 1) = Put2(s) /\ Tok(s, 2) = Put3(s)
    BY <1>2, <1>3, <2>0, <2>1, <2>2, Zenon DEF Put2, Put3
  <2>3. ASSUME Tok(s, 0) # <<"put">> PROVE Tok(s, 1) = Key2(s)
    BY <1>2, <1>3, <2>0, <2>1, <2>3, Zenon DEF Key2
  <2> QED
    BY <2>1, <2>2, <2>3
<1>6. ASSUME s \in Addresses PROVE Tok(s, 0) = <<s[1]>> /\ Tok(s, 1) = <<s[3]>>
  BY <1>2, <1>4, <1>6, AddressFound, Zenon
<1> QED
  BY <1>5, <1>6

-----------------------------------------------------------------------------
(***************************************************************************)
(* A text in memory, after some calls of strtok.                           *)
(***************************************************************************)

(* What is left to scan is as it was, and so are the tokens that were      *)
(* found, each of them followed by a NUL unless it is the last of the text.*)
Scanned(m, s, k) ==
  /\ m \in Seq(Characters \cup {Nul}) /\ Len(m) = Len(s)
  /\ \A i \in From(s, k) .. Len(s) : m[i] = s[i]
  /\ \A j \in 0 .. 2 : j < k =>
       /\ \A i \in Start(s, j) .. Stop(s, j) - 1 : m[i] = s[i]
       /\ Stop(s, j) <= Len(s) => m[Stop(s, j)] = Nul

(* At first it is all as it was.                                           *)
LEMMA ScannedFirst ==
  ASSUME NEW s \in Texts
  PROVE  Scanned(s, s, 0)
<1>1. s \in Seq(Characters) /\ Characters \subseteq Characters \cup {Nul}
  BY TextFacts
<1>2. s \in Seq(Characters \cup {Nul})
  BY <1>1, SeqMonotonic, Zenon
<1>3. \A j \in 0 .. 2 : ~ (j < 0)
  OBVIOUS
<1> QED
  BY <1>2, <1>3 DEF Scanned

(* Memory that is overwritten at one place, if that is in it.              *)
Cut(m, i) == [m EXCEPT ![i] = Nul]

(* Nothing else in it is changed.                                          *)
LEMMA Overwritten ==
  ASSUME NEW m \in Seq(Characters \cup {Nul}), NEW i
  PROVE  /\ Cut(m, i) \in Seq(Characters \cup {Nul}) /\ Len(Cut(m, i)) = Len(m)
         /\ \A j \in 1 .. Len(m) : Cut(m, i)[j] = IF j = i THEN Nul ELSE m[j]
<1> DEFINE n == Cut(m, i)
<1>1. CASE i \in 1 .. Len(m)
  BY <1>1, ExceptSeq DEF Cut
<1>2. CASE i \notin 1 .. Len(m)
  <2>1. DOMAIN m = 1 .. Len(m) /\ m = [j \in DOMAIN m |-> m[j]]
    OBVIOUS
  <2>2. n = [j \in DOMAIN m |-> m[j]]
    BY <1>2, <2>1 DEF Cut
  <2>3. n = m
    BY <2>1, <2>2, Zenon
  <2> QED
    BY <1>2, <2>3
<1> QED
  BY <1>1, <1>2

(* The call finds the token, and writes the NUL after it.                  *)
LEMMA ScanFacts ==
  ASSUME NEW s \in Texts, NEW k \in 0 .. 2, NEW m, Scanned(m, s, k)
  PROVE  /\ FirstOut(m, From(s, k), Chars(s, k)) = Start(s, k)
         /\ FirstIn(m, Start(s, k), Chars(s, k) \cup {Nul}) = Stop(s, k)
         /\ Stop(s, k) <= Len(s) => m[Stop(s, k)] # Nul
<1> DEFINE a == From(s, k)
           chars == Chars(s, k)
           b == FirstOut(m, a, chars)
           e == FirstIn(m, b, chars \cup {Nul})
<1>1. /\ s \in Seq(Characters) /\ Len(s) \in Nat /\ Len(m) = Len(s) /\ a \in 1 .. Len(s) + 1
      /\ \A i \in a .. Len(s) : m[i] = s[i]
      /\ Found(s, a, chars, Start(s, k), Stop(s, k))
  <2>1. s \in Seq(Characters)
    BY TextFacts
  <2>2. Len(s) \in Nat
    BY <2>1
  <2> QED
    BY <2>1, <2>2, FromFacts, Zenon DEF Scanned
<1>2. /\ b \in a .. Len(m) + 1 /\ \A j \in a .. b - 1 : m[j] \in chars
      /\ b <= Len(m) => m[b] \notin chars
  <2>1. Len(m) \in Nat /\ a \in 1 .. Len(m) + 1
    BY <1>1, Zenon
  <2> HIDE DEF a, chars
  <2> QED
    BY <2>1, FirstFacts, Zenon
<1>3. b \in 1 .. Len(m) + 1
  <2> HIDE DEF b, a
  <2> QED
    BY <1>1, <1>2
<1>4. /\ e \in b .. Len(m) + 1 /\ \A j \in b .. e - 1 : m[j] \notin chars \cup {Nul}
      /\ e <= Len(m) => m[e] \in chars \cup {Nul}
  <2>1. Len(m) \in Nat /\ b \in 1 .. Len(m) + 1
    BY <1>1, <1>3, Zenon
  <2> HIDE DEF a, b, chars
  <2> QED
    BY <2>1, FirstFacts, Zenon
<1>5. \A i \in a .. Len(s) : m[i] = s[i] /\ s[i] # Nul
  <2>1. ASSUME NEW i \in a .. Len(s) PROVE s[i] # Nul
    <3>1. i \in 1 .. Len(s)
      BY <1>1
    <3>2. s[i] \in Characters
      BY <1>1, <3>1
    <3> QED
      BY <3>2, CommandAssumption DEF Characters
  <2> QED
    BY <1>1, <2>1
<1> HIDE DEF a, chars, b, e
<1>6. Found(s, a, chars, b, e)
  <2>1. b \in a .. Len(s) + 1 /\ e \in b .. Len(s) + 1
    BY <1>1, <1>2, <1>4
  <2>2. ASSUME NEW j \in a .. b - 1 PROVE s[j] \in chars
    BY <1>1, <1>2, <1>5, <2>1
  <2>3. ASSUME NEW j \in b .. e - 1 PROVE s[j] \notin chars
    BY <1>1, <1>4, <1>5, <2>1
  <2>4. e <= Len(s) => s[e] \in chars
    BY <1>1, <1>4, <1>5, <2>1
  <2>5. b <= Len(s) => b < e
    <3>1. b <= Len(s) => s[b] \notin chars
      BY <1>1, <1>2, <1>5, <2>1
    <3>2. b <= Len(s) => b # e
      BY <2>4, <3>1
    <3> QED
      BY <1>1, <2>1, <3>2
  <2> QED
    BY <2>1, <2>2, <2>3, <2>4, <2>5 DEF Found
<1>7. b = Start(s, k) /\ e = Stop(s, k)
  BY <1>1, <1>6, FoundUnique, Zenon
<1>8. e <= Len(s) => m[e] # Nul
  BY <1>1, <1>2, <1>4, <1>5
<1> QED
  BY <1>7, <1>8 DEF a, chars, b, e

(* Then one token more is found.                                           *)
LEMMA ScanStep ==
  ASSUME NEW s \in Texts, NEW k \in 0 .. 2, NEW m, Scanned(m, s, k), NEW n,
         n = IF Stop(s, k) <= Len(s) THEN Cut(m, Stop(s, k)) ELSE m
  PROVE  Scanned(n, s, k + 1)
<1>1. /\ Len(s) \in Nat /\ m \in Seq(Characters \cup {Nul}) /\ Len(m) = Len(s)
      /\ \A i \in From(s, k) .. Len(s) : m[i] = s[i]
      /\ From(s, k) \in 1 .. Len(s) + 1 /\ Start(s, k) \in From(s, k) .. Len(s) + 1
      /\ Stop(s, k) \in Start(s, k) .. Len(s) + 1
      /\ From(s, k + 1) = IF Stop(s, k) <= Len(s) THEN Stop(s, k) + 1 ELSE Stop(s, k)
  <2>1. Len(s) \in Nat
    BY TextFacts
  <2> QED
    BY <2>1, FromFacts, Zenon DEF Scanned, Found
<1>2. /\ n \in Seq(Characters \cup {Nul}) /\ Len(n) = Len(s)
      /\ \A j \in 1 .. Len(s) : n[j] = IF j = Stop(s, k) THEN Nul ELSE m[j]
  <2>1. CASE Stop(s, k) <= Len(s)
    <3>1. n = Cut(m, Stop(s, k))
      BY <2>1
    <3>2. m \in Seq(Characters \cup {Nul})
      BY <1>1
    <3>3. /\ Cut(m, Stop(s, k)) \in Seq(Characters \cup {Nul})
          /\ Len(Cut(m, Stop(s, k))) = Len(m)
          /\ \A j \in 1 .. Len(m) :
               Cut(m, Stop(s, k))[j] = IF j = Stop(s, k) THEN Nul ELSE m[j]
      BY <3>2, Overwritten, Zenon
    <3> QED
      BY <1>1, <3>1, <3>3
  <2>2. CASE ~ (Stop(s, k) <= Len(s))
    <3>1. n = m /\ \A j \in 1 .. Len(s) : j # Stop(s, k)
      BY <1>1, <2>2
    <3> QED
      BY <1>1, <3>1, Zenon
  <2> QED
    BY <2>1, <2>2
<1>3. ASSUME NEW i \in From(s, k + 1) .. Len(s) PROVE n[i] = s[i]
  BY <1>1, <1>2
<1>4. ASSUME NEW j \in 0 .. 2, j < k + 1
      PROVE  /\ \A i \in Start(s, j) .. Stop(s, j) - 1 : n[i] = s[i]
             /\ Stop(s, j) <= Len(s) => n[Stop(s, j)] = Nul
  <2>1. Start(s, j) \in 1 .. Len(s) + 1 /\ Stop(s, j) \in 1 .. Len(s) + 1
    BY <1>1, FromFacts, Zenon
  <2>2. CASE j = k
    BY <1>1, <1>2, <2>1, <2>2
  <2>3. CASE j # k
    <3>1. j < k /\ k \in 0 .. 3
      BY <1>4, <2>3
    <3>2. Stop(s, j) <= From(s, k)
      BY <1>1, <3>1, StopOrder, Zenon
    <3>3. /\ \A i \in Start(s, j) .. Stop(s, j) - 1 : m[i] = s[i]
          /\ Stop(s, j) <= Len(s) => m[Stop(s, j)] = Nul
      BY <3>1 DEF Scanned
    <3> QED
      BY <1>1, <1>2, <2>1, <3>2, <3>3
  <2> QED
    BY <2>2, <2>3
<1> QED
  BY <1>2, <1>3, <1>4 DEF Scanned

(* The place of a token in its buffer, if there is a token.                *)
Part(s, b, j) == IF Start(s, j) = Stop(s, j) THEN NULL ELSE [in |-> b, at |-> Start(s, j)]

(* There is none if it is empty.                                           *)
LEMMA PartNull ==
  ASSUME NEW s \in Texts, NEW b, NEW j \in 0 .. 2
  PROVE  Part(s, b, j) = NULL <=> Tok(s, j) = <<>>
<1>1. /\ s \in Seq(Characters) /\ Len(s) \in Nat /\ Start(s, j) \in 1 .. Len(s) + 1
      /\ Stop(s, j) \in Start(s, j) .. Len(s) + 1
  <2>1. s \in Seq(Characters) /\ Len(s) \in Nat
    BY TextFacts
  <2> QED
    BY <2>1, FromFacts, Zenon DEF Found
<1>2. Tok(s, j) = <<>> <=> Stop(s, j) - 1 < Start(s, j)
  <2>1. Stop(s, j) - 1 \in 0 .. Len(s)
    BY <1>1
  <2> QED
    BY <1>1, <2>1, PartEmpty, Zenon DEF Tok
<1>3. Stop(s, j) - 1 < Start(s, j) <=> Start(s, j) = Stop(s, j)
  BY <1>1
<1>4. [in |-> b, at |-> Start(s, j)] # NULL
  BY <1>1 DEF NULL
<1> QED
  BY <1>2, <1>3, <1>4 DEF Part

(* In memory it is a string.                                               *)
LEMMA PartString ==
  ASSUME NEW s \in Texts, NEW mem, NEW b, NEW k \in 0 .. 3, Scanned(mem[b], s, k),
         NEW j \in 0 .. 2, j < k
  PROVE  String(mem, Part(s, b, j)) = Tok(s, j)
<1> DEFINE m == mem[b]
           lo == Start(s, j)
           hi == Stop(s, j)
<1>1. /\ s \in Seq(Characters) /\ Len(s) \in Nat /\ lo \in 1 .. Len(s) + 1
      /\ hi \in lo .. Len(s) + 1
  <2>1. s \in Seq(Characters) /\ Len(s) \in Nat
    BY TextFacts
  <2> QED
    BY <2>1, FromFacts, Zenon DEF Found
<1>2. /\ m \in Seq(Characters \cup {Nul}) /\ Len(m) = Len(s)
      /\ \A i \in lo .. hi - 1 : m[i] = s[i]
      /\ hi <= Len(s) => m[hi] = Nul
  BY DEF Scanned
<1>3. CASE lo = hi
  <2>1. Part(s, b, j) = NULL
    BY <1>3 DEF Part
  <2> QED
    BY <2>1, PartNull DEF String
<1>4. CASE lo # hi
  <2> DEFINE e == FirstIn(m, lo, {Nul})
  <2>1. Part(s, b, j) = [in |-> b, at |-> lo] /\ lo # 0 /\ Part(s, b, j) # NULL
    BY <1>1, <1>4 DEF Part, NULL
  <2>2. /\ e \in lo .. Len(m) + 1 /\ \A i \in lo .. e - 1 : m[i] \notin {Nul}
        /\ e <= Len(m) => m[e] \in {Nul}
    BY <1>1, <1>2, FirstFacts, Zenon
  <2> HIDE DEF m, e, lo, hi
  <2>3. \A i \in lo .. hi - 1 : m[i] # Nul
    <3>1. ASSUME NEW i \in lo .. hi - 1 PROVE m[i] # Nul
      <4>1. i \in 1 .. Len(s)
        BY <1>1
      <4>2. s[i] \in Characters /\ m[i] = s[i]
        BY <1>1, <1>2, <4>1
      <4> QED
        BY <4>2, CommandAssumption DEF Characters
    <3> QED
      BY <3>1
  <2>4. e = hi
    <3>1. ~ (e < hi)
      <4> SUFFICES ASSUME e < hi PROVE FALSE
        OBVIOUS
      <4>1. e \in lo .. hi - 1 /\ e <= Len(m)
        BY <1>1, <1>2, <2>2
      <4> QED
        BY <2>2, <2>3, <4>1
    <3>2. ~ (hi < e)
      <4> SUFFICES ASSUME hi < e PROVE FALSE
        OBVIOUS
      <4>1. hi \in lo .. e - 1 /\ hi <= Len(s)
        BY <1>1, <1>2, <2>2
      <4> QED
        BY <1>2, <2>2, <4>1
    <3> QED
      BY <1>1, <1>2, <2>2, <3>1, <3>2
  <2>5. SubSeq(m, lo, hi - 1) = SubSeq(s, lo, hi - 1)
    <3>1. /\ lo \in Int /\ hi - 1 \in Int /\ hi - 1 <= Len(s) /\ hi - 1 <= Len(m)
          /\ lo - 1 \in Nat /\ lo <= hi - 1
      BY <1>1, <1>2, <1>4
    <3> QED
      BY <1>1, <1>2, <3>1
  <2>6. String(mem, Part(s, b, j)) = SubSeq(m, lo, e - 1)
    <3>1. Part(s, b, j).in = b /\ Part(s, b, j).at = lo
      BY <2>1
    <3>2. \A p : p # NULL /\ p.at # 0 =>
            String(mem, p) = SubSeq(mem[p.in], p.at, FirstIn(mem[p.in], p.at, {Nul}) - 1)
      BY Zenon DEF String
    <3>3. String(mem, Part(s, b, j)) = SubSeq(mem[b], lo, FirstIn(mem[b], lo, {Nul}) - 1)
      BY <2>1, <3>1, <3>2, Zenon
    <3> QED
      BY <3>3 DEF m, e
  <2> QED
    BY <2>4, <2>5, <2>6 DEF Tok, lo, hi
<1> QED
  BY <1>3, <1>4

(* How many calls there are for a text.                                    *)
CallsOf(s) ==
  IF s \in Addresses THEN 2
  ELSE IF Tok(s, 0) = <<"put">> THEN 3
  ELSE IF Tok(s, 0) \in {<<"get">>, <<"del">>} THEN 2
  ELSE 1

-----------------------------------------------------------------------------
(***************************************************************************)
(* The inductive invariant.                                                *)
(***************************************************************************)
Places == [in : Buffers, at : Nat] \cup {NULL}

(* What is put into a buffer.                                              *)
TextsFor(b) == IF b = "line" THEN Lines ELSE Addresses

TypeOK ==
  /\ memory \in [Buffers -> Seq(Characters \cup {Nul})]
  /\ position \in Places
  /\ buffer \in [Threads -> Buffers]
  /\ buffer[Watcher] = "new" /\ buffer[Main] # "new"
  /\ text \in [Threads -> Texts]
  /\ \A t \in Threads : text[t] \in TextsFor(buffer[t]) \cup {<<>>}
  /\ parts \in [Threads -> Seq(Places)]
  /\ inside \in [Threads -> [token : Places, end : Places, cut : BOOLEAN]]
  /\ outcome = [t \in Threads |-> outcome[t]]
  /\ disturbed \in [Threads -> BOOLEAN]

(* Nothing is left of a text that was dealt with, and no call is made for  *)
(* one whose tokens are all there, as they are when something came of it.  *)
StageOf(t) ==
  /\ Idle(t) => /\ parts[t] = <<>> /\ inside[t] = NoCall
                /\ outcome[t] = Nothing /\ ~disturbed[t]
  /\ inside[t] # NoCall => ~Finished(t)
  /\ outcome[t] # Nothing => Finished(t)

(* The call that follows k others for a text.                              *)
CallAt(s, b, k) ==
  [token |-> Part(s, b, k), end |-> [in |-> b, at |-> Stop(s, k)], cut |-> Stop(s, k) <= Len(s)]

(* The tokens are those of the text as long as nobody moves the position   *)
(* or writes into the text.                                                *)
InOrder(t) ==
  ~Idle(t) /\ ~disturbed[t] =>
    LET s == text[t] b == buffer[t] k == Len(parts[t]) IN
    /\ k <= CallsOf(s)
    /\ Scanned(memory[b], s, k)
    /\ \A j \in 1 .. k : parts[t][j] = Part(s, b, j - 1)
    /\ k > 0 /\ b = "line" => verb = Tok(s, 0)
    /\ k > 0 /\ k < CallsOf(s) => position = [in |-> b, at |-> From(s, k)]
    /\ inside[t] # NoCall => k < CallsOf(s) /\ inside[t] = CallAt(s, b, k)

(* What the invariant of the run says of a thread.                         *)
RequestOf(t) ==
  ~disturbed[t] /\ outcome[t] # Nothing =>
    LET kind == outcome[t].kind args == outcome[t].args IN
    /\ kind \in {"put", "get", "del"} => Arguments(text[t])[kind] = {args}
    /\ kind \in {"refuse", "crash"} =>
         \A word \in {"put", "get", "del"} : Arguments(text[t])[word] = {}
    /\ kind = "crash" => \E v \in 1 .. Len(text[t]) - 1 :
         VerbAt(text[t], "del", v, v) /\ text[t][v + 1] \in {Blank, End}
    /\ IsConnect(t) => kind = "connect" /\ args = <<<<text[t][1]>>, <<text[t][3]>>>>

ThreadOf(t) == StageOf(t) /\ InOrder(t) /\ RequestOf(t)

Inv == TypeOK /\ \A t \in Threads : ThreadOf(t)

(* It says what the run checks.                                            *)
LEMMA InvRequest == Inv => RequestAsTyped
BY Zenon DEF Inv, ThreadOf, RequestAsTyped, RequestOf

(* The initial state.                                                      *)
LEMMA InitInv == Init => Inv
<1> SUFFICES ASSUME Init PROVE Inv
  OBVIOUS
<1>1. NULL \in Places /\ NoCall \in [token : Places, end : Places, cut : BOOLEAN]
  BY DEF NULL, NoCall, Places
<1>2. Main # Watcher /\ Main \in Threads /\ Watcher \in Threads
  BY CommandAssumption DEF Threads
<1>3. \A t \in Threads : /\ text[t] = <<>> /\ parts[t] = <<>> /\ inside[t] = NoCall
                        /\ outcome[t] = Nothing /\ disturbed[t] = FALSE
  BY DEF Init
<1>4. TypeOK
  <2>1. memory \in [Buffers -> Seq(Characters \cup {Nul})]
    BY DEF Init
  <2>2. buffer \in [Threads -> Buffers] /\ buffer[Watcher] = "new" /\ buffer[Main] # "new"
    BY <1>2 DEF Init, Buffers, Heap
  <2>3. text \in [Threads -> Texts] /\ parts \in [Threads -> Seq(Places)]
    BY DEF Init, Texts
  <2>4. inside \in [Threads -> [token : Places, end : Places, cut : BOOLEAN]]
    BY <1>1 DEF Init
  <2>5. outcome = [t \in Threads |-> outcome[t]] /\ disturbed \in [Threads -> BOOLEAN]
    BY DEF Init
  <2> QED
    BY <1>1, <1>3, <2>1, <2>2, <2>3, <2>4, <2>5 DEF TypeOK, Init
<1>5. ASSUME NEW t \in Threads PROVE ThreadOf(t)
  BY <1>3 DEF ThreadOf, StageOf, InOrder, RequestOf, Idle
<1> QED
  BY <1>4, <1>5 DEF Inv

-----------------------------------------------------------------------------
(***************************************************************************)
(* The types.                                                              *)
(***************************************************************************)

(* Places that become stale are places.                                    *)
LEMMA StaleType ==
  ASSUME NEW F
  PROVE  /\ \A p \in Places : Stale(p, F) \in Places
         /\ \A ps \in Seq(Places) : /\ [i \in DOMAIN ps |-> Stale(ps[i], F)] \in Seq(Places)
                                    /\ Len([i \in DOMAIN ps |-> Stale(ps[i], F)]) = Len(ps)
<1>1. ASSUME NEW p \in Places PROVE Stale(p, F) \in Places
  <2>1. CASE p \in [in : Buffers, at : Nat]
    <3>1. [p EXCEPT !.at = 0] \in [in : Buffers, at : Nat]
      BY <2>1
    <3> QED
      BY <3>1, Zenon DEF Stale, Places
  <2>2. CASE p = NULL
    <3>1. [p EXCEPT !.at = 0] = NULL
      BY <2>2 DEF NULL
    <3> QED
      BY <3>1, Zenon DEF Stale, Places
  <2> QED
    BY <2>1, <2>2 DEF Places
<1>2. ASSUME NEW ps \in Seq(Places)
      PROVE  /\ [i \in DOMAIN ps |-> Stale(ps[i], F)] \in Seq(Places)
             /\ Len([i \in DOMAIN ps |-> Stale(ps[i], F)]) = Len(ps)
  <2> DEFINE qs == [i \in 1 .. Len(ps) |-> Stale(ps[i], F)]
  <2>1. DOMAIN ps = 1 .. Len(ps) /\ Len(ps) \in Nat /\ \A i \in 1 .. Len(ps) : ps[i] \in Places
    OBVIOUS
  <2>2. qs \in [1 .. Len(ps) -> Places]
    BY <1>1, <2>1
  <2>3. qs \in Seq(Places) /\ Len(qs) = Len(ps)
    BY <2>1, <2>2
  <2> QED
    BY <2>1, <2>3
<1> QED
  BY <1>1, <1>2

(* The same of what AllStale does.                                         *)
LEMMA AllStaleType ==
  ASSUME TypeOK, NEW F, AllStale(F)
  PROVE  /\ position' \in Places
         /\ inside' \in [Threads -> [token : Places, end : Places, cut : BOOLEAN]]
<1>1. position' \in Places
  BY StaleType DEF TypeOK, AllStale
<1>2. ASSUME NEW c \in [token : Places, end : Places, cut : BOOLEAN]
      PROVE  [c EXCEPT !.token = Stale(@, F), !.end = Stale(@, F)]
                \in [token : Places, end : Places, cut : BOOLEAN]
  <2>1. Stale(c.token, F) \in Places /\ Stale(c.end, F) \in Places
    BY StaleType
  <2> QED
    BY <2>1
<1> QED
  BY <1>1, <1>2 DEF TypeOK, AllStale

(* Where a place may be is a place.                                        *)
LEMMA NowType ==
  ASSUME TypeOK, NEW p \in Places
  PROVE  \A q \in Now(p) : q \in Places /\ (p.at > 0 => q = p)
<1>1. CASE p.at > 0
  BY <1>1 DEF Now
<1>2. CASE ~ (p.at > 0)
  <2> DEFINE B == IF p.in = "line" THEN {"line"} ELSE Heap
  <2>1. \A b \in B : b \in Buffers /\ 1 .. Len(memory[b]) \subseteq Nat
    BY DEF Buffers, Heap
  <2>2. Now(p) = {p} \cup UNION {[in : {b}, at : 1 .. Len(memory[b])] : b \in B}
    BY <1>2 DEF Now
  <2>3. ASSUME NEW b \in B PROVE \A q \in [in : {b}, at : 1 .. Len(memory[b])] : q \in Places
    BY <2>1 DEF Places
  <2> HIDE DEF B
  <2> QED
    BY <1>2, <2>2, <2>3, Zenon
<1> QED
  BY <1>1, <1>2

(* A call of strtok begins and ends at places.                             *)
LEMMA EnterType ==
  ASSUME TypeOK, NEW t \in Threads, EnterStrtok(t)
  PROVE  TypeOK'
<1> DEFINE from == IF parts[t] = <<>> THEN {[in |-> buffer[t], at |-> 1]} ELSE Now(position)
           Call == [token : Places, end : Places, cut : BOOLEAN]
<1>1. \A p \in from : p \in Places
  <2>1. [in |-> buffer[t], at |-> 1] \in Places
    BY DEF TypeOK, Places
  <2>2. \A p \in Now(position) : p \in Places
    BY NowType DEF TypeOK
  <2> QED
    BY <2>1, <2>2
<1>2. NULL \in Places
  BY DEF NULL, Places
<1>3. PICK p \in from :
        \/ /\ p.at = 0
           /\ \E token \in {NULL, p} :
                inside' = [inside EXCEPT ![t] = [token |-> token, end |-> p, cut |-> FALSE]]
        \/ /\ p.at > 0
           /\ LET s == memory[p.in]
                  b == FirstOut(s, p.at, Delimiters(t))
                  e == FirstIn(s, b, Delimiters(t) \cup {Nul})
              IN inside' = [inside EXCEPT ![t] =
                   [token |-> IF b = e THEN NULL ELSE [p EXCEPT !.at = b],
                    end   |-> [p EXCEPT !.at = e],
                    cut   |-> e <= Len(s) /\ s[e] # Nul]]
  BY Zenon DEF EnterStrtok
<1>4. p \in Places
  BY <1>1, <1>3
<1> HIDE DEF from
<1>5. \E c \in Call : inside' = [inside EXCEPT ![t] = c]
  <2>1. CASE p.at = 0
    <3>1. PICK token \in {NULL, p} :
             inside' = [inside EXCEPT ![t] = [token |-> token, end |-> p, cut |-> FALSE]]
      BY <1>3, <2>1
    <3>2. [token |-> token, end |-> p, cut |-> FALSE] \in Call
      BY <1>2, <1>4
    <3> QED
      BY <3>1, <3>2
  <2>2. CASE p.at > 0
    <3> DEFINE s == memory[p.in]
               b == FirstOut(s, p.at, Delimiters(t))
               e == FirstIn(s, b, Delimiters(t) \cup {Nul})
               c == [token |-> IF b = e THEN NULL ELSE [p EXCEPT !.at = b],
                     end   |-> [p EXCEPT !.at = e],
                     cut   |-> e <= Len(s) /\ s[e] # Nul]
    <3>1. inside' = [inside EXCEPT ![t] = c]
      BY <1>3, <1>4, <2>2 DEF Places
    <3>2. p.in \in Buffers /\ p.at \in Nat
      BY <1>4, <2>2 DEF Places, NULL
    <3>3. Len(s) \in Nat
      BY <3>2 DEF TypeOK
    <3>4. b \in Nat
      BY <3>2, <3>3, FirstType, Zenon
    <3>5. e \in Nat
      BY <3>3, <3>4, FirstType, Zenon
    <3> HIDE DEF s, b, e
    <3>6. [p EXCEPT !.at = b] \in Places /\ [p EXCEPT !.at = e] \in Places
      BY <1>4, <2>2, <3>4, <3>5 DEF Places, NULL
    <3>7. c \in Call
      BY <1>2, <3>6
    <3> QED
      BY <3>1, <3>7 DEF s, b, e
  <2>3. p.at = 0 \/ p.at > 0
    <3>1. p.at \in Nat
      BY <1>4 DEF Places, NULL
    <3> QED
      BY <3>1
  <2> QED
    BY <2>1, <2>2, <2>3
<1> QED
  BY <1>5 DEF TypeOK, EnterStrtok

(* A NUL that is written leaves memory what it is.                         *)
LEMMA LeaveType ==
  ASSUME TypeOK, NEW t \in Threads, LeaveStrtok(t)
  PROVE  TypeOK'
<1>1. /\ inside[t].token \in Places /\ inside[t].end \in Places /\ parts[t] \in Seq(Places)
  BY DEF TypeOK
<1>2. PICK e \in Now(inside[t].end) :
        LET written == inside[t].cut /\ e.at > 0 IN
        /\ memory'   = IF written THEN [memory EXCEPT ![e.in][e.at] = Nul] ELSE memory
        /\ position' = IF written THEN [e EXCEPT !.at = @ + 1] ELSE inside[t].end
        /\ disturbed' = [u \in Threads |-> disturbed[u] \/
             (u # t /\ (\/ Begun(u) /\ ~Finished(u)
                        \/ written /\ ~Idle(u) /\ buffer[u] = e.in))]
  BY Zenon DEF LeaveStrtok
<1>3. e \in Places
  BY <1>1, NowType
<1>4. e.at > 0 => e \in [in : Buffers, at : Nat]
  BY <1>3 DEF Places, NULL
<1>5. memory' \in [Buffers -> Seq(Characters \cup {Nul})]
  <2>1. CASE inside[t].cut /\ e.at > 0
    <3>1. memory' = [memory EXCEPT ![e.in] = Cut(memory[e.in], e.at)] /\ e.in \in Buffers
      BY <1>2, <1>4, <2>1 DEF Cut
    <3>2. memory[e.in] \in Seq(Characters \cup {Nul})
      BY <3>1 DEF TypeOK
    <3>3. Cut(memory[e.in], e.at) \in Seq(Characters \cup {Nul})
      BY <3>2, Overwritten
    <3> QED
      BY <3>1, <3>3 DEF TypeOK
  <2>2. CASE ~ (inside[t].cut /\ e.at > 0)
    BY <1>2, <2>2 DEF TypeOK
  <2> QED
    BY <2>1, <2>2
<1>6. position' \in Places
  <2>1. CASE inside[t].cut /\ e.at > 0
    BY <1>2, <1>4, <2>1 DEF Places
  <2>2. CASE ~ (inside[t].cut /\ e.at > 0)
    BY <1>1, <1>2, <2>2
  <2> QED
    BY <2>1, <2>2
<1>7. disturbed' \in [Threads -> BOOLEAN]
  BY <1>2 DEF TypeOK
<1>8. parts' \in [Threads -> Seq(Places)]
  BY <1>1 DEF LeaveStrtok, TypeOK
<1>9. inside' \in [Threads -> [token : Places, end : Places, cut : BOOLEAN]]
  <2>1. NoCall \in [token : Places, end : Places, cut : BOOLEAN]
    BY DEF NoCall, Places
  <2> HIDE DEF NoCall
  <2> QED
    BY <2>1 DEF LeaveStrtok, TypeOK
<1>10. UNCHANGED <<buffer, text, outcome>>
  BY DEF LeaveStrtok
<1> QED
  BY <1>5, <1>6, <1>7, <1>8, <1>9, <1>10 DEF TypeOK

(* The text is in the buffer then.                                         *)
LEMMA FillFacts ==
  ASSUME TypeOK, NEW t \in Threads, Fill(t, TextsFor(buffer[t]))
  PROVE  /\ memory' \in [Buffers -> Seq(Characters \cup {Nul})]
         /\ text' \in [Threads -> Texts]
         /\ \A u \in Threads : text'[u] \in TextsFor(buffer[u]) \cup {<<>>}
         /\ text'[t] # <<>> /\ memory'[buffer[t]] = text'[t]
         /\ \A u \in Threads \ {t} : /\ text'[u] = text[u]
                                     /\ memory'[buffer[u]] = memory[buffer[u]]
<1>1. PICK s \in TextsFor(buffer[t]) : /\ text'   = [text EXCEPT ![t] = s]
                                       /\ memory' = [memory EXCEPT ![buffer[t]] = s]
  BY Zenon DEF Fill
<1>2. s \in Texts /\ s # <<>> /\ s \in Seq(Characters)
  BY TextFacts DEF TextsFor, Texts
<1>3. s \in Seq(Characters \cup {Nul})
  <2>1. Characters \subseteq Characters \cup {Nul}
    OBVIOUS
  <2> QED
    BY <1>2, <2>1, SeqMonotonic, Zenon
<1>4. \A u \in Threads \ {t} : buffer[u] # buffer[t]
  BY DEF TypeOK, Threads
<1>5. buffer[t] \in Buffers
  BY DEF TypeOK
<1> QED
  BY <1>1, <1>2, <1>3, <1>4, <1>5 DEF TypeOK

(* The next address or the next line is taken, and memory is freed.        *)
LEMMA ResumeType ==
  ASSUME TypeOK, NEW t \in Threads, Resume(t)
  PROVE  TypeOK'
<1>1. /\ text' = [text EXCEPT ![t] = <<>>] /\ outcome' = [outcome EXCEPT ![t] = Nothing]
      /\ buffer'  = [buffer EXCEPT ![Main] =
                      IF t = Watcher THEN @ ELSE IF @ = "head" THEN "tail" ELSE "line"]
      /\ memory' = [b \in Buffers |-> IF b \in Freed(t) THEN <<>> ELSE memory[b]]
      /\ parts'  = [u \in Threads |-> IF u = t THEN <<>>
                      ELSE [i \in DOMAIN parts[u] |-> Stale(parts[u][i], Freed(t))]]
      /\ AllStale(Freed(t)) /\ disturbed' = [disturbed EXCEPT ![t] = FALSE]
  BY DEF Resume
<1>2. /\ memory' \in [Buffers -> Seq(Characters \cup {Nul})]
      /\ text' \in [Threads -> Texts] /\ disturbed' \in [Threads -> BOOLEAN]
      /\ outcome' = [u \in Threads |-> outcome'[u]]
  <2>1. <<>> \in Seq(Characters \cup {Nul}) /\ <<>> \in Texts
    BY DEF Texts
  <2>2. memory' \in [Buffers -> Seq(Characters \cup {Nul})]
    BY <1>1, <2>1 DEF TypeOK
  <2>3. text' \in [Threads -> Texts] /\ disturbed' \in [Threads -> BOOLEAN]
    BY <1>1, <2>1 DEF TypeOK
  <2>4. outcome' = [u \in Threads |-> outcome'[u]]
    BY <1>1 DEF TypeOK
  <2> QED
    BY <2>2, <2>3, <2>4
<1>3. parts' \in [Threads -> Seq(Places)]
  <2>1. ASSUME NEW u \in Threads PROVE parts'[u] \in Seq(Places)
    <3>1. [i \in DOMAIN parts[u] |-> Stale(parts[u][i], Freed(t))] \in Seq(Places)
      BY StaleType DEF TypeOK
    <3>2. <<>> \in Seq(Places)
      OBVIOUS
    <3> QED
      BY <1>1, <3>1, <3>2
  <2>2. parts' = [u \in Threads |-> parts'[u]]
    BY <1>1
  <2> QED
    BY <2>1, <2>2
<1>4. /\ position' \in Places
      /\ inside' \in [Threads -> [token : Places, end : Places, cut : BOOLEAN]]
  BY <1>1, AllStaleType, Zenon
<1>5. /\ buffer' \in [Threads -> Buffers] /\ buffer'[Watcher] = "new" /\ buffer'[Main] # "new"
      /\ \A u \in Threads \ {t} : buffer'[u] = buffer[u]
  BY <1>1, CommandAssumption DEF TypeOK, Threads, Buffers, Heap
<1>6. \A u \in Threads : text'[u] \in TextsFor(buffer'[u]) \cup {<<>>}
  BY <1>1, <1>5 DEF TypeOK
<1> QED
  BY <1>2, <1>3, <1>4, <1>5, <1>6 DEF TypeOK

(* Every action keeps the types.                                           *)
LEMMA TypeStep ==
  ASSUME TypeOK, [Next]_vars
  PROVE  TypeOK'
<1>0. Main \in Threads /\ Watcher \in Threads
  BY DEF Threads
<1>1. CASE ReadLine
  <2>1. Fill(Main, TextsFor(buffer[Main])) /\ UNCHANGED <<buffer, outcome, disturbed>>
    BY <1>1 DEF ReadLine, IsConnect, TextsFor, Fill
  <2>2. /\ position' \in Places
        /\ inside' \in [Threads -> [token : Places, end : Places, cut : BOOLEAN]]
    BY <1>1, AllStaleType, Zenon DEF ReadLine
  <2>3. parts' \in [Threads -> Seq(Places)]
    <3>1. [i \in DOMAIN parts[Watcher] |-> Stale(parts[Watcher][i], {"line"})] \in Seq(Places)
      BY <1>0, StaleType DEF TypeOK
    <3> QED
      BY <1>1, <3>1 DEF ReadLine, TypeOK
  <2> QED
    BY <1>0, <2>1, <2>2, <2>3, FillFacts DEF TypeOK
<1>2. ASSUME NEW t \in Threads, Connect(t) PROVE TypeOK'
  <2>1. Fill(t, TextsFor(buffer[t])) /\ UNCHANGED <<position, buffer, parts, inside, outcome, disturbed>>
    BY <1>2 DEF Connect, IsConnect, TextsFor, Fill
  <2> QED
    BY <2>1, FillFacts DEF TypeOK
<1>3. ASSUME NEW t \in Threads, NEW kind, NEW args, Result(t, kind, args) PROVE TypeOK'
  BY <1>3 DEF Result, TypeOK
<1>4. CASE EndCommand
  <2>1. \E kind, args : Result(Main, kind, args)
    BY <1>4, Zenon DEF EndCommand
  <2> QED
    BY <1>0, <1>3, <2>1, Zenon
<1>5. ASSUME NEW t \in Threads, EndConnect(t) PROVE TypeOK'
  <2>1. \E kind, args : Result(t, kind, args)
    BY <1>5, Zenon DEF EndConnect
  <2> QED
    BY <1>3, <2>1, Zenon
<1>6. ASSUME NEW t \in Threads, EnterStrtok(t) PROVE TypeOK'
  BY <1>6, EnterType
<1>7. ASSUME NEW t \in Threads, LeaveStrtok(t) PROVE TypeOK'
  BY <1>7, LeaveType
<1>8. ASSUME NEW t \in Threads, Resume(t) PROVE TypeOK'
  BY <1>8, ResumeType
<1>9. CASE UNCHANGED vars
  BY <1>9 DEF vars, TypeOK
<1> QED
  BY <1>1, <1>2, <1>4, <1>5, <1>6, <1>7, <1>8, <1>9, Zenon DEF Next

-----------------------------------------------------------------------------
(***************************************************************************)
(* The steps of a thread.                                                  *)
(***************************************************************************)

(* Addresses are connected to, lines are commands.                         *)
LEMMA KindOfText ==
  ASSUME TypeOK, NEW t \in Threads, ~Idle(t)
  PROVE  /\ text[t] \in Lines \cup Addresses /\ text[t] \in Texts
         /\ IsConnect(t) <=> text[t] \in Addresses
         /\ ~IsConnect(t) <=> text[t] \in Lines
         /\ buffer[t] = "line" <=> ~IsConnect(t)
         /\ ~IsConnect(t) => t = Main
BY TextFacts DEF TypeOK, Idle, TextsFor, IsConnect, Threads, Texts

(* Once the first token is known, it is known how many there are.          *)
LEMMA CallsFacts ==
  ASSUME TypeOK, NEW t \in Threads, ~Idle(t), ~disturbed[t], InOrder(t)
  PROVE  /\ CallsOf(text[t]) \in 1 .. 3 /\ Len(parts[t]) \in 0 .. CallsOf(text[t])
         /\ parts[t] = <<>> <=> Len(parts[t]) = 0
         /\ parts[t] # <<>> => Calls(t) = CallsOf(text[t])
         /\ parts[t] = <<>> => Calls(t) # 0
         /\ Finished(t) <=> parts[t] # <<>> /\ Len(parts[t]) = CallsOf(text[t])
<1>1. /\ parts[t] \in Seq(Places) /\ Len(parts[t]) \in Nat
      /\ parts[t] = <<>> <=> Len(parts[t]) = 0
  BY DEF TypeOK
<1>2. Len(parts[t]) <= CallsOf(text[t]) /\ CallsOf(text[t]) \in 1 .. 3
  BY DEF InOrder, CallsOf
<1>3. parts[t] # <<>> => Calls(t) = CallsOf(text[t])
  <2> SUFFICES ASSUME parts[t] # <<>> PROVE Calls(t) = CallsOf(text[t])
    OBVIOUS
  <2>1. CASE IsConnect(t)
    BY <2>1, KindOfText DEF Calls, CallsOf
  <2>2. CASE ~IsConnect(t)
    <3>1. buffer[t] = "line" /\ text[t] \notin Addresses
      BY <2>2, KindOfText
    <3>2. verb = Tok(text[t], 0)
      BY <1>1, <3>1 DEF InOrder
    <3> QED
      BY <2>2, <3>1, <3>2 DEF Calls, CallsOf
  <2> QED
    BY <2>1, <2>2
<1>4. parts[t] = <<>> => Calls(t) # 0
  BY DEF Calls
<1> QED
  BY <1>1, <1>2, <1>3, <1>4 DEF Finished

(* What the steps of the other thread may do.                              *)
LEMMA Unmoved ==
  ASSUME TypeOK, NEW t \in Threads, ThreadOf(t),
         text'[t] = text[t], buffer'[t] = buffer[t], outcome'[t] = outcome[t],
         verb' = verb \/ IsConnect(t),
         Len(parts'[t]) = Len(parts[t]), parts[t] = <<>> <=> parts'[t] = <<>>,
         inside[t] = NoCall => inside'[t] = NoCall,
         disturbed[t] => disturbed'[t], Idle(t) => ~disturbed'[t],
         ~Idle(t) /\ ~disturbed'[t] =>
           /\ memory'[buffer[t]] = memory[buffer[t]]
           /\ parts'[t] = parts[t] /\ inside'[t] = inside[t]
           /\ parts[t] # <<>> /\ ~Finished(t) => position' = position
  PROVE  ThreadOf(t)'
<1>1. /\ Idle(t)' <=> Idle(t)
      /\ IsConnect(t)' <=> IsConnect(t)
      /\ Finished(t)' <=> Finished(t)
  BY DEF Idle, IsConnect, Finished, Calls
<1>2. StageOf(t)'
  BY <1>1 DEF ThreadOf, StageOf
<1>3. InOrder(t)'
  <2> SUFFICES ASSUME ~Idle(t), ~disturbed'[t] PROVE InOrder(t)'
    BY <1>1 DEF InOrder
  <2>1. ~disturbed[t] /\ InOrder(t)
    BY DEF ThreadOf
  <2>2. /\ Len(parts[t]) > 0 /\ buffer[t] = "line" => verb' = verb
        /\ Len(parts[t]) > 0 /\ Len(parts[t]) < CallsOf(text[t]) => position' = position
    BY <2>1, CallsFacts DEF IsConnect
  <2>3. /\ memory'[buffer'[t]] = memory[buffer[t]]
        /\ parts'[t] = parts[t] /\ inside'[t] = inside[t]
    OBVIOUS
  <2> QED
    BY <2>1, <2>2, <2>3 DEF InOrder
<1>4. RequestOf(t)'
  BY <1>1 DEF ThreadOf, RequestOf
<1> QED
  BY <1>2, <1>3, <1>4 DEF ThreadOf

(* Nothing that is in other buffers becomes stale.                         *)
LEMMA StaleKept ==
  ASSUME TypeOK, NEW t \in Threads, InOrder(t), NEW F, buffer[t] \notin F, "nowhere" \notin F,
         AllStale(F), parts'[t] = [i \in DOMAIN parts[t] |-> Stale(parts[t][i], F)]
  PROVE  /\ Len(parts'[t]) = Len(parts[t]) /\ (parts[t] = <<>> <=> parts'[t] = <<>>)
         /\ inside[t] = NoCall => inside'[t] = NoCall
         /\ ~Idle(t) /\ ~disturbed[t] =>
              /\ parts'[t] = parts[t] /\ inside'[t] = inside[t]
              /\ parts[t] # <<>> /\ ~Finished(t) => position' = position
<1>0. /\ parts[t] \in Seq(Places) /\ parts'[t] \in Seq(Places)
      /\ Len(parts'[t]) = Len(parts[t])
      /\ inside'[t] = [inside[t] EXCEPT !.token = Stale(@, F), !.end = Stale(@, F)]
      /\ position' = Stale(position, F)
  <2>1. parts[t] \in Seq(Places)
    BY DEF TypeOK
  <2>2. /\ [i \in DOMAIN parts[t] |-> Stale(parts[t][i], F)] \in Seq(Places)
        /\ Len([i \in DOMAIN parts[t] |-> Stale(parts[t][i], F)]) = Len(parts[t])
    BY <2>1, StaleType, Zenon
  <2>3. parts'[t] \in Seq(Places) /\ Len(parts'[t]) = Len(parts[t])
    BY <2>2, Zenon
  <2>4. /\ inside'[t] = [inside[t] EXCEPT !.token = Stale(@, F), !.end = Stale(@, F)]
        /\ position' = Stale(position, F)
    BY DEF AllStale
  <2> QED
    BY <2>1, <2>3, <2>4
<1>1. parts[t] = <<>> <=> parts'[t] = <<>>
  BY <1>0
<1>2. Stale(NULL, F) = NULL /\ \A i : Stale([in |-> buffer[t], at |-> i], F) = [in |-> buffer[t], at |-> i]
  BY DEF Stale, NULL
<1>3. inside[t] = NoCall => inside'[t] = NoCall
  <2> SUFFICES ASSUME inside[t] = NoCall PROVE inside'[t] = NoCall
    OBVIOUS
  <2>1. NoCall.token = NULL /\ NoCall.end = NULL
    BY DEF NoCall
  <2>2. Stale(inside[t].token, F) = inside[t].token /\ Stale(inside[t].end, F) = inside[t].end
    BY <1>2, <2>1
  <2>3. inside'[t] = inside[t]
    BY <1>0, <2>2 DEF TypeOK
  <2> QED
    BY <2>3
<1>4. ASSUME ~Idle(t), ~disturbed[t] PROVE parts'[t] = parts[t] /\ inside'[t] = inside[t]
  <2>1. \A j : Stale(Part(text[t], buffer[t], j), F) = Part(text[t], buffer[t], j)
    BY <1>2 DEF Part
  <2>2. \A i \in 1 .. Len(parts[t]) : Stale(parts[t][i], F) = parts[t][i]
    BY <1>4, <2>1 DEF InOrder
  <2>3. \A i \in 1 .. Len(parts[t]) : parts'[t][i] = parts[t][i]
    BY <1>0, <2>2
  <2>4. parts'[t] = parts[t]
    BY <1>0, <2>3, SeqEqual, Zenon
  <2>5. inside'[t] = inside[t]
    <3>1. CASE inside[t] = NoCall
      BY <1>3, <3>1
    <3>2. CASE inside[t] # NoCall
      <4>1. inside[t] = CallAt(text[t], buffer[t], Len(parts[t]))
        BY <1>4, <3>2 DEF InOrder
      <4>2. Stale(inside[t].token, F) = inside[t].token /\ Stale(inside[t].end, F) = inside[t].end
        BY <1>2, <2>1, <4>1 DEF CallAt
      <4> QED
        BY <1>0, <4>2 DEF TypeOK
    <3> QED
      BY <3>1, <3>2
  <2> QED
    BY <2>4, <2>5
<1>5. ASSUME ~Idle(t), ~disturbed[t], parts[t] # <<>>, ~Finished(t) PROVE position' = position
  <2>1. Len(parts[t]) > 0 /\ Len(parts[t]) < CallsOf(text[t])
    BY <1>5, CallsFacts
  <2>2. position = [in |-> buffer[t], at |-> From(text[t], Len(parts[t]))]
    BY <1>5, <2>1 DEF InOrder
  <2> QED
    BY <1>0, <1>2, <2>2
<1> QED
  BY <1>0, <1>1, <1>3, <1>4, <1>5

(* A text that was filled in is there from its first place on.             *)
LEMMA FillStep ==
  ASSUME TypeOK, NEW t \in Threads, ThreadOf(t), Fill(t, TextsFor(buffer[t])),
         parts'[t] = <<>>, inside'[t] = NoCall
  PROVE  ThreadOf(t)'
<1>1. /\ Idle(t) /\ outcome'[t] = Nothing /\ disturbed'[t] = FALSE /\ buffer'[t] = buffer[t]
  BY DEF Fill, ThreadOf, StageOf, TypeOK
<1>2. text'[t] # <<>> /\ memory'[buffer'[t]] = text'[t] /\ text'[t] \in Texts
  BY <1>1, FillFacts
<1>3. Scanned(memory'[buffer'[t]], text'[t], 0)
  BY <1>2, ScannedFirst, Zenon
<1>4. Len(parts'[t]) = 0 /\ CallsOf(text'[t]) \in 1 .. 3
  BY DEF CallsOf
<1>5. StageOf(t)' /\ RequestOf(t)'
  BY <1>1, <1>2 DEF StageOf, RequestOf, Idle
<1>6. InOrder(t)'
  BY <1>3, <1>4 DEF InOrder
<1> QED
  BY <1>5, <1>6 DEF ThreadOf

(* What strtok looks for.                                                  *)
LEMMA DelimitersOfText ==
  ASSUME TypeOK, NEW t \in Threads, ~Idle(t), ~disturbed[t], InOrder(t), ~Finished(t)
  PROVE  /\ Len(parts[t]) \in 0 .. 2 /\ Len(parts[t]) < CallsOf(text[t])
         /\ Delimiters(t) = Chars(text[t], Len(parts[t]))
<1> DEFINE s == text[t]
           k == Len(parts[t])
<1>1. CallsOf(s) \in 1 .. 3 /\ k \in 0 .. CallsOf(s) /\ (parts[t] = <<>> <=> k = 0) /\ k # CallsOf(s)
  BY CallsFacts
<1>2. k \in 0 .. 2 /\ k < CallsOf(s)
  <2> HIDE DEF k
  <2> QED
    BY <1>1
<1>3. Delimiters(t) = Chars(s, k)
  <2>1. CASE IsConnect(t)
    BY <2>1, KindOfText DEF Delimiters, Chars
  <2>2. CASE ~IsConnect(t)
    <3>1. s \in Lines /\ s \notin Addresses /\ buffer[t] = "line"
      BY <2>2, KindOfText
    <3>2. Tok(s, 0) = Token(s, {Blank, End})
      BY <3>1, TokFacts
    <3>3. k > 0 => verb = Token(s, {Blank, End})
      BY <3>1, <3>2 DEF InOrder
    <3>4. k = 0 \/ k > 0
      BY <1>2
    <3> HIDE DEF s, k
    <3> QED
      BY <1>1, <2>2, <3>1, <3>3, <3>4, Zenon DEF Delimiters, Chars, k
  <2> QED
    BY <2>1, <2>2
<1> QED
  BY <1>2, <1>3

(* A thread whose position nobody moved finds the next token of its text.  *)
LEMMA EnterStep ==
  ASSUME TypeOK, NEW t \in Threads, ThreadOf(t), EnterStrtok(t)
  PROVE  ThreadOf(t)'
<1> DEFINE s == text[t]
           b == buffer[t]
           k == Len(parts[t])
<1>1. /\ UNCHANGED <<memory, position, buffer, text, parts, verb, outcome, disturbed>>
      /\ ~Idle(t) /\ ~Finished(t) /\ inside[t] = NoCall
      /\ \A u \in Threads \ {t} : inside'[u] = inside[u]
  BY DEF EnterStrtok, TypeOK
<1>2. StageOf(t)' /\ RequestOf(t)'
  BY <1>1 DEF ThreadOf, StageOf, RequestOf, Idle, Finished, Calls, IsConnect
<1>3. ASSUME ~disturbed[t] PROVE inside'[t] = CallAt(s, b, k) /\ k < CallsOf(s) /\ InOrder(t)
  <2>1. InOrder(t)
    BY <1>3 DEF ThreadOf
  <2>2. /\ k \in 0 .. 2 /\ k < CallsOf(s) /\ Delimiters(t) = Chars(s, k)
        /\ s \in Texts /\ (parts[t] = <<>> <=> k = 0)
    BY <1>1, <1>3, <2>1, DelimitersOfText, KindOfText, CallsFacts
  <2>3. Scanned(memory[b], s, k)
    BY <1>1, <1>3, <2>1 DEF InOrder
  <2>4. Len(s) \in Nat /\ From(s, k) \in 1 .. Len(s) + 1 /\ Len(memory[b]) = Len(s)
    <3>1. Len(s) \in Nat
      BY <2>2, TextFacts
    <3> QED
      BY <2>2, <2>3, <3>1, FromFacts, Zenon DEF Scanned
  <2>5. (IF parts[t] = <<>> THEN {[in |-> b, at |-> 1]} ELSE Now(position))
          = {[in |-> b, at |-> From(s, k)]}
    <3>1. CASE k = 0
      BY <2>2, <3>1 DEF From
    <3>2. CASE k # 0
      <4>1. position = [in |-> b, at |-> From(s, k)]
        BY <1>1, <1>3, <2>1, <2>2, <3>2 DEF InOrder
      <4>2. position.at > 0
        BY <2>4, <4>1
      <4> QED
        BY <2>2, <3>2, <4>1, <4>2 DEF Now
    <3> QED
      BY <3>1, <3>2
  <2> DEFINE p == [in |-> b, at |-> From(s, k)]
             m == memory[b]
             lo == FirstOut(m, From(s, k), Chars(s, k))
             hi == FirstIn(m, lo, Chars(s, k) \cup {Nul})
  <2>6. /\ p.in = b /\ p.at = From(s, k) /\ p.at # 0
        /\ \A i : [p EXCEPT !.at = i] = [in |-> b, at |-> i]
    BY <2>4
  <2>7. inside'[t] = [token |-> IF lo = hi THEN NULL ELSE [in |-> b, at |-> lo],
                      end   |-> [in |-> b, at |-> hi],
                      cut   |-> hi <= Len(m) /\ m[hi] # Nul]
    <3>1. \E q \in {p} :
       \/ q.at = 0
       \/ LET x == memory[q.in]
              i == FirstOut(x, q.at, Delimiters(t))
              e == FirstIn(x, i, Delimiters(t) \cup {Nul})
          IN inside' = [inside EXCEPT ![t] =
                  [token |-> IF i = e THEN NULL ELSE [q EXCEPT !.at = i],
                   end   |-> [q EXCEPT !.at = e],
                   cut   |-> e <= Len(x) /\ x[e] # Nul]]
      BY <2>5, ZenonT(60) DEF EnterStrtok
    <3>2. inside' = [inside EXCEPT ![t] =
                  [token |-> IF lo = hi THEN NULL ELSE [p EXCEPT !.at = lo],
                   end   |-> [p EXCEPT !.at = hi],
                   cut   |-> hi <= Len(m) /\ m[hi] # Nul]]
      <4> HIDE DEF p
      <4> QED
        BY <2>2, <2>6, <3>1
    <3> HIDE DEF p, lo, hi, m
    <3>3. [token |-> IF lo = hi THEN NULL ELSE [p EXCEPT !.at = lo],
           end   |-> [p EXCEPT !.at = hi],
           cut   |-> hi <= Len(m) /\ m[hi] # Nul]
          = [token |-> IF lo = hi THEN NULL ELSE [in |-> b, at |-> lo],
             end   |-> [in |-> b, at |-> hi],
             cut   |-> hi <= Len(m) /\ m[hi] # Nul]
      BY <2>6, Zenon
    <3> QED
      BY <3>2, <3>3 DEF TypeOK
  <2>8. lo = Start(s, k) /\ hi = Stop(s, k) /\ (Stop(s, k) <= Len(s) => m[Stop(s, k)] # Nul)
    BY <2>2, <2>3, ScanFacts, Zenon
  <2>9. inside'[t] = CallAt(s, b, k)
    <3> HIDE DEF lo, hi, m
    <3>1. (hi <= Len(m) /\ m[hi] # Nul) = (Stop(s, k) <= Len(s))
      BY <2>4, <2>8 DEF m
    <3> QED
      BY <2>7, <2>8, <3>1 DEF CallAt, Part
  <2> QED
    BY <2>1, <2>2, <2>9
<1>4. InOrder(t)'
  <2> HIDE DEF s, b, k
  <2>1. Idle(t)' <=> Idle(t)
    BY <1>1 DEF Idle
  <2> SUFFICES ASSUME ~disturbed[t] PROVE InOrder(t)'
    BY <1>1 DEF InOrder
  <2> QED
    BY <1>1, <1>3 DEF InOrder, s, b, k
<1> QED
  BY <1>2, <1>4 DEF ThreadOf

(* Then it has got the token, which the NUL behind it ends.                *)
LEMMA LeaveStep ==
  ASSUME TypeOK, NEW t \in Threads, ThreadOf(t), LeaveStrtok(t)
  PROVE  ThreadOf(t)'
<1> DEFINE s == text[t]
           b == buffer[t]
           k == Len(parts[t])
           call == inside[t]
<1>1. /\ call # NoCall /\ ~Idle(t) /\ outcome[t] = Nothing /\ inside'[t] = NoCall
      /\ UNCHANGED <<buffer, text, outcome>> /\ parts'[t] = Append(parts[t], call.token)
      /\ verb' = IF parts[t] = <<>> /\ ~IsConnect(t) THEN String(memory', call.token) ELSE verb
  BY DEF LeaveStrtok, ThreadOf, StageOf, TypeOK
<1>2. PICK e \in Now(call.end) :
        LET written == call.cut /\ e.at > 0 IN
        /\ memory'   = IF written THEN [memory EXCEPT ![e.in][e.at] = Nul] ELSE memory
        /\ position' = IF written THEN [e EXCEPT !.at = @ + 1] ELSE call.end
        /\ disturbed' = [u \in Threads |-> disturbed[u] \/
             (u # t /\ (\/ Begun(u) /\ ~Finished(u)
                        \/ written /\ ~Idle(u) /\ buffer[u] = e.in))]
  BY Zenon DEF LeaveStrtok
<1>3. StageOf(t)' /\ RequestOf(t)'
  BY <1>1 DEF StageOf, RequestOf, Idle
<1>4. disturbed'[t] = disturbed[t]
  BY <1>2 DEF TypeOK
<1>5. ASSUME ~disturbed[t]
      PROVE  /\ k \in 0 .. 2 /\ k + 1 <= CallsOf(s) /\ Len(parts'[t]) = k + 1
             /\ Scanned(memory'[b], s, k + 1)
             /\ \A j \in 1 .. k + 1 : parts'[t][j] = Part(s, b, j - 1)
             /\ b = "line" => verb' = Tok(s, 0)
             /\ position' = [in |-> b, at |-> From(s, k + 1)]
  <2>1. InOrder(t)
    BY <1>5 DEF ThreadOf
  <2>2. /\ CallsOf(s) \in 1 .. 3 /\ k \in 0 .. CallsOf(s) /\ (parts[t] = <<>> <=> k = 0)
        /\ k < CallsOf(s) /\ call = CallAt(s, b, k) /\ Scanned(memory[b], s, k)
        /\ \A j \in 1 .. k : parts[t][j] = Part(s, b, j - 1)
        /\ k > 0 /\ b = "line" => verb = Tok(s, 0)
    BY <1>1, <1>5, <2>1, CallsFacts DEF InOrder
  <2>3. k \in 0 .. 2 /\ k + 1 <= CallsOf(s) /\ k + 1 \in 0 .. 3
    <3> HIDE DEF k
    <3> QED
      BY <2>2
  <2>4. /\ s \in Texts /\ Len(s) \in Nat /\ Stop(s, k) \in 1 .. Len(s) + 1
        /\ From(s, k + 1) = IF Stop(s, k) <= Len(s) THEN Stop(s, k) + 1 ELSE Stop(s, k)
    <3>1. s \in Texts /\ Len(s) \in Nat
      BY <1>1, KindOfText, TextFacts
    <3> QED
      BY <2>3, <3>1, FromFacts, Zenon
  <2>5. /\ call.token = Part(s, b, k) /\ call.end = [in |-> b, at |-> Stop(s, k)]
        /\ call.cut = (Stop(s, k) <= Len(s)) /\ b \in Buffers
    BY <2>2 DEF CallAt, TypeOK
  <2>6. e = [in |-> b, at |-> Stop(s, k)] /\ e.in = b /\ e.at = Stop(s, k) /\ e.at > 0
    BY <1>2, <2>4, <2>5 DEF Now
  <2> HIDE DEF s, b, k, call
  <2>7. memory'[b] = IF Stop(s, k) <= Len(s) THEN Cut(memory[b], Stop(s, k)) ELSE memory[b]
    BY <1>2, <2>5, <2>6 DEF TypeOK, Cut
  <2>8. Scanned(memory'[b], s, k + 1)
    BY <2>2, <2>3, <2>4, <2>7, ScanStep, Zenon
  <2>9. position' = [in |-> b, at |-> From(s, k + 1)]
    BY <1>2, <2>4, <2>5, <2>6
  <2>10. /\ Len(parts'[t]) = k + 1
         /\ \A j \in 1 .. k + 1 : parts'[t][j] = Part(s, b, j - 1)
    <3>1. parts[t] \in Seq(Places)
      BY DEF TypeOK
    <3>2. /\ Len(parts'[t]) = k + 1 /\ parts'[t][k + 1] = Part(s, b, k)
          /\ \A j \in 1 .. k : parts'[t][j] = parts[t][j]
      BY <1>1, <2>5, <3>1 DEF k
    <3>3. \A j \in 1 .. k + 1 : j \in 1 .. k \/ (j = k + 1 /\ j - 1 = k)
      BY <2>3
    <3> QED
      BY <2>2, <3>2, <3>3, Zenon
  <2>11. ASSUME b = "line" PROVE verb' = Tok(s, 0)
    <3>1. CASE k = 0
      <4>1. parts[t] = <<>> /\ ~IsConnect(t)
        BY <2>2, <2>11, <3>1 DEF IsConnect, b
      <4>2. String(memory', Part(s, b, 0)) = Tok(s, 0)
        <5>1. Scanned(memory'[b], s, 1) /\ 1 \in 0 .. 3 /\ 0 \in 0 .. 2 /\ 0 < 1
          BY <2>8, <3>1
        <5> QED
          BY <2>4, <5>1, PartString, Zenon
      <4> QED
        BY <1>1, <2>5, <3>1, <4>1, <4>2
    <3>2. CASE k # 0
      BY <1>1, <2>2, <2>3, <2>11, <3>2
    <3> QED
      BY <3>1, <3>2
  <2> QED
    BY <2>3, <2>8, <2>9, <2>10, <2>11
<1>6. InOrder(t)'
  <2> SUFFICES ASSUME ~disturbed[t] PROVE InOrder(t)'
    BY <1>4 DEF InOrder
  <2> QED
    BY <1>1, <1>5 DEF InOrder
<1> QED
  BY <1>3, <1>6 DEF ThreadOf

(* The position of the other thread is moved, or its text written to, only *)
(* where that is recorded.                                                 *)
LEMMA LeaveOther ==
  ASSUME TypeOK, NEW t \in Threads, LeaveStrtok(t), NEW u \in Threads \ {t}, ThreadOf(u)
  PROVE  ThreadOf(u)'
<1>1. /\ UNCHANGED <<buffer, text, outcome>> /\ parts'[u] = parts[u] /\ inside'[u] = inside[u]
      /\ verb' = verb \/ ~IsConnect(t)
  BY DEF LeaveStrtok, TypeOK
<1>2. PICK e \in Now(inside[t].end) :
        LET written == inside[t].cut /\ e.at > 0 IN
        /\ memory'   = IF written THEN [memory EXCEPT ![e.in][e.at] = Nul] ELSE memory
        /\ position' = IF written THEN [e EXCEPT !.at = @ + 1] ELSE inside[t].end
        /\ disturbed' = [v \in Threads |-> disturbed[v] \/
             (v # t /\ (\/ Begun(v) /\ ~Finished(v)
                        \/ written /\ ~Idle(v) /\ buffer[v] = e.in))]
  BY Zenon DEF LeaveStrtok
<1>3. disturbed'[u] <=> \/ disturbed[u]
                        \/ Begun(u) /\ ~Finished(u)
                        \/ inside[t].cut /\ e.at > 0 /\ ~Idle(u) /\ buffer[u] = e.in
  BY <1>2 DEF TypeOK
<1>4. Idle(u) => ~disturbed'[u]
  BY <1>3 DEF ThreadOf, StageOf, Begun
<1>5. ~Idle(u) /\ ~disturbed'[u] =>
        /\ memory'[buffer[u]] = memory[buffer[u]]
        /\ parts[u] # <<>> => Finished(u)
  <2> SUFFICES ASSUME ~Idle(u), ~disturbed'[u]
               PROVE  /\ memory'[buffer[u]] = memory[buffer[u]]
                      /\ parts[u] # <<>> => Finished(u)
    OBVIOUS
  <2>1. memory'[buffer[u]] = memory[buffer[u]]
    BY <1>2, <1>3 DEF TypeOK
  <2>2. parts[u] # <<>> => Finished(u)
    BY <1>3 DEF Begun
  <2> QED
    BY <2>1, <2>2
<1>6. verb' = verb \/ IsConnect(u)
  <2>1. ~IsConnect(t) => IsConnect(u)
    BY DEF TypeOK, Threads, IsConnect
  <2> QED
    BY <1>1, <2>1
<1>7. disturbed[u] => disturbed'[u]
  BY <1>3
<1>8. /\ text'[u] = text[u] /\ buffer'[u] = buffer[u] /\ outcome'[u] = outcome[u]
      /\ Len(parts'[u]) = Len(parts[u]) /\ (parts[u] = <<>> <=> parts'[u] = <<>>)
      /\ inside[u] = NoCall => inside'[u] = NoCall
      /\ u \in Threads
  BY <1>1
<1>9. ~Idle(u) /\ ~disturbed'[u] =>
        /\ memory'[buffer[u]] = memory[buffer[u]]
        /\ parts'[u] = parts[u] /\ inside'[u] = inside[u]
        /\ parts[u] # <<>> /\ ~Finished(u) => position' = position
  BY <1>1, <1>5, Zenon
<1> QED
  BY <1>4, <1>6, <1>7, <1>8, <1>9, Unmoved, Zenon

(* What comes of a text changes nothing else.                              *)
LEMMA ResultStep ==
  ASSUME TypeOK, NEW t \in Threads, ThreadOf(t), Ready(t),
         NEW kind, NEW args, Result(t, kind, args)
  PROVE  /\ outcome'[t] = [kind |-> kind, args |-> args]
         /\ text' = text /\ buffer' = buffer /\ disturbed' = disturbed
         /\ StageOf(t)' /\ InOrder(t)'
<1>1. /\ outcome'[t] = [kind |-> kind, args |-> args]
      /\ UNCHANGED <<memory, position, buffer, text, parts, verb, inside, disturbed>>
  BY DEF Result, TypeOK
<1>2. StageOf(t)'
  BY <1>1 DEF ThreadOf, StageOf, Ready, Idle, Finished, Calls, IsConnect
<1>3. InOrder(t)'
  BY <1>1 DEF ThreadOf, InOrder, Idle
<1> QED
  BY <1>1, <1>2, <1>3

(* The tokens of a text whose calls nobody disturbed.                      *)
LEMMA TokensRead ==
  ASSUME TypeOK, NEW t \in Threads, InOrder(t), ~disturbed[t], Ready(t)
  PROVE  /\ text[t] \in Texts /\ Len(parts[t]) = CallsOf(text[t]) /\ CallsOf(text[t]) \in 1 .. 3
         /\ ~IsConnect(t) => verb = Tok(text[t], 0)
         /\ \A j \in 1 .. CallsOf(text[t]) :
              /\ parts[t][j] = NULL <=> Tok(text[t], j - 1) = <<>>
              /\ String(memory, parts[t][j]) = Tok(text[t], j - 1)
<1> DEFINE s == text[t]
           b == buffer[t]
           k == Len(parts[t])
<1>1. ~Idle(t) /\ Finished(t)
  BY DEF Ready
<1>2. /\ k = CallsOf(s) /\ k \in 1 .. 3 /\ s \in Texts /\ Scanned(memory[b], s, k)
      /\ \A j \in 1 .. k : parts[t][j] = Part(s, b, j - 1)
      /\ b = "line" => verb = Tok(s, 0)
  <2>1. k = CallsOf(s) /\ CallsOf(s) \in 1 .. 3 /\ s \in Texts
    BY <1>1, CallsFacts, KindOfText
  <2> QED
    BY <1>1, <2>1 DEF InOrder
<1>3. ~IsConnect(t) => verb = Tok(s, 0)
  BY <1>2 DEF IsConnect
<1> HIDE DEF s, b, k
<1>4. ASSUME NEW j \in 1 .. k
      PROVE  /\ parts[t][j] = NULL <=> Tok(s, j - 1) = <<>>
             /\ String(memory, parts[t][j]) = Tok(s, j - 1)
  <2>1. k \in 0 .. 3 /\ j - 1 \in 0 .. 2 /\ j - 1 < k
    BY <1>2
  <2>2. Part(s, b, j - 1) = NULL <=> Tok(s, j - 1) = <<>>
    BY <1>2, <2>1, PartNull, Zenon
  <2>3. String(memory, Part(s, b, j - 1)) = Tok(s, j - 1)
    BY <1>2, <2>1, PartString, Zenon
  <2> QED
    BY <1>2, <2>2, <2>3, Zenon
<1> QED
  BY <1>2, <1>3, <1>4 DEF s, b, k

(* A connection goes where its address says.                               *)
LEMMA ConnectOutcome ==
  ASSUME TypeOK, NEW t \in Threads, ThreadOf(t), EndConnect(t)
  PROVE  ThreadOf(t)'
<1> DEFINE s == text[t]
           p == parts[t]
<1>1. Ready(t) /\ IsConnect(t) /\ ~Idle(t)
  BY DEF EndConnect, Ready
<1>2. \E kind, args : Result(t, kind, args)
  BY Zenon DEF EndConnect
<1>3. StageOf(t)' /\ InOrder(t)' /\ text' = text /\ buffer' = buffer /\ disturbed' = disturbed
  BY <1>1, <1>2, ResultStep, Zenon
<1>4. ASSUME ~disturbed[t]
      PROVE  outcome'[t] = [kind |-> "connect", args |-> <<<<s[1]>>, <<s[3]>>>>]
  <2>1. s \in Addresses /\ s \in Lines \cup Addresses /\ CallsOf(s) = 2
    BY <1>1, KindOfText DEF CallsOf
  <2>2. Tok(s, 0) = <<s[1]>> /\ Tok(s, 1) = <<s[3]>>
    BY <2>1, TokFacts, Zenon
  <2>3. \A j \in 1 .. 2 : /\ p[j] = NULL <=> Tok(s, j - 1) = <<>>
                          /\ String(memory, p[j]) = Tok(s, j - 1)
    <3>1. InOrder(t)
      BY DEF ThreadOf
    <3>2. \A j \in 1 .. CallsOf(s) : /\ p[j] = NULL <=> Tok(s, j - 1) = <<>>
                                    /\ String(memory, p[j]) = Tok(s, j - 1)
      BY <1>1, <1>4, <3>1, TokensRead, Zenon
    <3> QED
      BY <2>1, <3>2, Zenon
  <2>4. /\ p[1] # NULL /\ p[2] # NULL
        /\ String(memory, p[1]) = <<s[1]>> /\ String(memory, p[2]) = <<s[3]>>
    <3>1. 1 \in 1 .. 2 /\ 2 \in 1 .. 2 /\ 1 - 1 = 0 /\ 2 - 1 = 1
      OBVIOUS
    <3>2. <<s[1]>> # <<>> /\ <<s[3]>> # <<>>
      OBVIOUS
    <3> QED
      BY <2>2, <2>3, <3>1, <3>2, Zenon
  <2>5. Result(t, "connect", <<String(memory, p[1]), String(memory, p[2])>>)
    BY <2>4, Zenon DEF EndConnect
  <2>6. outcome'[t] = [kind |-> "connect",
                       args |-> <<String(memory, p[1]), String(memory, p[2])>>]
    BY <2>5 DEF Result, TypeOK
  <2> QED
    BY <2>4, <2>6, Zenon
<1>5. RequestOf(t)'
  <2> SUFFICES ASSUME ~disturbed[t] PROVE RequestOf(t)'
    BY <1>3 DEF RequestOf
  <2> QED
    BY <1>3, <1>4 DEF RequestOf
<1> QED
  BY <1>3, <1>5 DEF ThreadOf

(* A command is what its line says.                                        *)
LEMMA CommandOutcome ==
  ASSUME TypeOK, ThreadOf(Main), EndCommand
  PROVE  ThreadOf(Main)'
<1> DEFINE s == text[Main]
           p == parts[Main]
           o == outcome'[Main]
<1>0. Main \in Threads
  BY DEF Threads
<1>1. Ready(Main) /\ ~IsConnect(Main) /\ ~Idle(Main)
  BY DEF EndCommand, Ready
<1>2. \E kind, args : Result(Main, kind, args)
  BY Zenon DEF EndCommand
<1>3. /\ StageOf(Main)' /\ InOrder(Main)'
      /\ text' = text /\ buffer' = buffer /\ disturbed' = disturbed
  BY <1>0, <1>1, <1>2, ResultStep, Zenon
<1>4. /\ s \in Lines /\ s \in Texts /\ s \notin Addresses /\ IsLine(s)
      /\ "put" \in Words /\ "get" \in Words /\ "del" \in Words
  BY <1>0, <1>1, KindOfText, LineFacts, TextFacts, CommandAssumption
<1>5. ASSUME ~disturbed[Main] PROVE RequestOf(Main)'
  <2> DEFINE first == Token(s, {Blank, End})
  <2>1. /\ verb = first /\ Tok(s, 0) = first
        /\ Len(p) = CallsOf(s) /\ CallsOf(s) \in 1 .. 3
        /\ \A j \in 1 .. CallsOf(s) : /\ p[j] = NULL <=> Tok(s, j - 1) = <<>>
                                     /\ String(memory, p[j]) = Tok(s, j - 1)
    <3>1. InOrder(Main)
      BY DEF ThreadOf
    <3>2. Tok(s, 0) = first
      BY <1>4, TokFacts
    <3> QED
      BY <1>0, <1>1, <1>5, <3>1, <3>2, TokensRead, Zenon
  <2> HIDE DEF first
  <2>2. ASSUME first = <<"put">>
        PROVE  /\ (\E i \in 2 .. Len(p) : p[i] = NULL) <=> (Put2(s) = <<>> \/ Put3(s) = <<>>)
               /\ String(memory, p[2]) = Put2(s) /\ String(memory, p[3]) = Put3(s)
    <3>1. CallsOf(s) = 3 /\ Tok(s, 1) = Put2(s) /\ Tok(s, 2) = Put3(s)
      BY <1>4, <2>1, <2>2, TokFacts DEF CallsOf
    <3>2. /\ p[2] = NULL <=> Put2(s) = <<>>
          /\ p[3] = NULL <=> Put3(s) = <<>>
          /\ String(memory, p[2]) = Put2(s) /\ String(memory, p[3]) = Put3(s)
      <4>1. 2 \in 1 .. 3 /\ 3 \in 1 .. 3 /\ 2 - 1 = 1 /\ 3 - 1 = 2
        OBVIOUS
      <4> QED
        BY <2>1, <3>1, <4>1, Zenon
    <3>3. \A i : i \in 2 .. 3 <=> i = 2 \/ i = 3
      OBVIOUS
    <3>4. Len(p) = 3
      BY <2>1, <3>1
    <3> QED
      BY <3>2, <3>3, <3>4, Zenon
  <2>3. ASSUME first \in {<<"get">>, <<"del">>}
        PROVE  /\ (\E i \in 2 .. Len(p) : p[i] = NULL) <=> Key2(s) = <<>>
               /\ String(memory, p[2]) = Key2(s)
    <3>0. first # <<"put">>
      BY <2>3
    <3>1. CallsOf(s) = 2 /\ Tok(s, 1) = Key2(s)
      BY <1>4, <2>1, <2>3, <3>0, TokFacts DEF CallsOf
    <3>2. /\ p[2] = NULL <=> Key2(s) = <<>>
          /\ String(memory, p[2]) = Key2(s)
      <4>1. 2 \in 1 .. 2 /\ 2 - 1 = 1
        OBVIOUS
      <4> QED
        BY <2>1, <3>1, <4>1, Zenon
    <3>3. \A i : i \in 2 .. 2 <=> i = 2
      OBVIOUS
    <3>4. Len(p) = 2
      BY <2>1, <3>1
    <3> QED
      BY <3>2, <3>3, <3>4, Zenon
  <2>4. /\ \A word \in {"put", "get", "del"} : first # <<word>> => Arguments(s)[word] = {}
        /\ first = <<"put">> => Arguments(s)["put"] =
             IF Put2(s) # <<>> /\ Put3(s) # <<>> THEN {<<Put2(s), Put3(s)>>} ELSE {}
        /\ \A word \in {"get", "del"} : first = <<word>> => Arguments(s)[word] =
             IF Key2(s) # <<>> THEN {<<Trim(Key2(s))>>} ELSE {}
    <3>1. \A word \in {"get", "del"} : Arguments(s)[word] = KeyArguments(s, word)
      BY DEF Arguments
    <3>2. Arguments(s)["put"] = PutArguments(s)
      BY DEF Arguments
    <3>3. \A word \in {"put", "get", "del"} : first # <<word>> => Arguments(s)[word] = {}
      BY <1>4, NoArguments, Zenon DEF first
    <3>4. first = <<"put">> => Arguments(s)["put"] =
             IF Put2(s) # <<>> /\ Put3(s) # <<>> THEN {<<Put2(s), Put3(s)>>} ELSE {}
      BY <1>4, <3>2, PutArgumentsFound DEF first
    <3>5. ASSUME NEW word \in {"get", "del"}, first = <<word>>
          PROVE  Arguments(s)[word] = IF Key2(s) # <<>> THEN {<<Trim(Key2(s))>>} ELSE {}
      <4>1. word \in Words
        BY <1>4
      <4> QED
        BY <1>4, <3>1, <3>5, <4>1, KeyArgumentsFound DEF first
    <3> QED
      BY <3>3, <3>4, <3>5
  <2>5. ASSUME NEW kind, NEW args, Result(Main, kind, args),
               kind \in {"put", "get", "del"} => Arguments(s)[kind] = {args},
               kind \in {"refuse", "crash"} =>
                 \A word \in {"put", "get", "del"} : Arguments(s)[word] = {},
               kind = "crash" => \E v \in 1 .. Len(s) - 1 :
                 VerbAt(s, "del", v, v) /\ s[v + 1] \in {Blank, End}
        PROVE  RequestOf(Main)'
    <3>1. outcome'[Main] = [kind |-> kind, args |-> args]
      BY <1>0, <2>5 DEF Result, TypeOK
    <3>2. text'[Main] = s /\ ~IsConnect(Main)'
      BY <1>1, <1>3 DEF IsConnect
    <3>3. outcome'[Main].kind = kind /\ outcome'[Main].args = args
      BY <3>1
    <3> HIDE DEF s
    <3> QED
      BY <2>5, <3>2, <3>3, Zenon DEF RequestOf
  <2> DEFINE missing == \E i \in 2 .. Len(p) : p[i] = NULL
  <2>6. /\ <<"put">> # <<"get">> /\ <<"put">> # <<"del">> /\ <<"get">> # <<"del">>
        /\ \A word \in {"get", "del"} : <<word>>[1] = word
        /\ \A x \in {<<"get">>, <<"del">>} : \E word \in {"get", "del"} : x = <<word>>
    OBVIOUS
  <2>7. CASE first \notin {<<"put">>, <<"get">>, <<"del">>} /\ Result(Main, "refuse", <<>>)
    <3>1. \A word \in {"put", "get", "del"} : Arguments(s)[word] = {}
      BY <2>4, <2>7
    <3> QED
      BY <2>5, <2>7, <3>1
  <2>8. CASE first \in {<<"put">>, <<"get">>} /\ missing /\ Result(Main, "refuse", <<>>)
    <3>1. \A word \in {"put", "get", "del"} : Arguments(s)[word] = {}
      BY <2>2, <2>3, <2>4, <2>6, <2>8
    <3> QED
      BY <2>5, <2>8, <3>1
  <2>9. CASE first = <<"del">> /\ missing /\ Result(Main, "crash", <<>>)
    <3>1. \A word \in {"put", "get", "del"} : Arguments(s)[word] = {}
      BY <2>3, <2>4, <2>6, <2>9
    <3>2. \E v \in 1 .. Len(s) - 1 : VerbAt(s, "del", v, v) /\ s[v + 1] \in {Blank, End}
      BY <1>4, <2>9, VerbFound, Zenon DEF first
    <3> QED
      BY <2>5, <2>9, <3>1, <3>2
  <2>10. CASE /\ first = <<"put">> /\ ~missing
              /\ Result(Main, "put", <<String(memory, p[2]), String(memory, p[3])>>)
    <3>1. Arguments(s)["put"] = {<<String(memory, p[2]), String(memory, p[3])>>}
      BY <2>2, <2>4, <2>10
    <3> QED
      BY <2>5, <2>10, <3>1
  <2>11. CASE /\ first \in {<<"get">>, <<"del">>} /\ ~missing
              /\ Result(Main, first[1], <<Trim(String(memory, p[2]))>>)
    <3>1. PICK word \in {"get", "del"} : first = <<word>> /\ first[1] = word
      BY <2>6, <2>11, Zenon
    <3>2. Arguments(s)[word] = {<<Trim(String(memory, p[2]))>>}
      BY <2>3, <2>4, <2>11, <3>1
    <3>3. Result(Main, word, <<Trim(String(memory, p[2]))>>)
      BY <2>11, <3>1, Zenon
    <3> QED
      BY <2>5, <3>2, <3>3
  <2> QED
    BY <2>1, <2>7, <2>8, <2>9, <2>10, <2>11, Zenon DEF EndCommand
<1>6. RequestOf(Main)'
  <2> SUFFICES ASSUME ~disturbed[Main] PROVE RequestOf(Main)'
    BY <1>3 DEF RequestOf
  <2> QED
    BY <1>5
<1> QED
  BY <1>3, <1>6 DEF ThreadOf

(* The next text: nothing is left of the last one.                         *)
LEMMA ResumeStep ==
  ASSUME TypeOK, NEW t \in Threads, ThreadOf(t), Resume(t)
  PROVE  ThreadOf(t)'
<1>1. /\ text'[t] = <<>> /\ parts'[t] = <<>> /\ outcome'[t] = Nothing /\ disturbed'[t] = FALSE
      /\ AllStale(Freed(t)) /\ inside[t] = NoCall
  BY DEF Resume, TypeOK, ThreadOf, StageOf
<1>2. inside'[t] = NoCall
  <2>1. NoCall.token = NULL /\ NoCall.end = NULL
    BY DEF NoCall
  <2>2. Stale(NULL, Freed(t)) = NULL
    BY DEF Stale, NULL
  <2>3. inside'[t] = [inside[t] EXCEPT !.token = Stale(@, Freed(t)), !.end = Stale(@, Freed(t))]
    BY <1>1 DEF AllStale
  <2>4. /\ Stale(inside[t].token, Freed(t)) = inside[t].token
        /\ Stale(inside[t].end, Freed(t)) = inside[t].end
    BY <1>1, <2>1, <2>2
  <2>5. inside'[t] = inside[t]
    BY <2>3, <2>4 DEF TypeOK
  <2> QED
    BY <1>1, <2>5
<1> QED
  BY <1>1, <1>2 DEF ThreadOf, StageOf, InOrder, RequestOf, Idle

(* The other thread, whose text is in another buffer, keeps all it has.    *)
LEMMA StaleOther ==
  ASSUME TypeOK, NEW t \in Threads, NEW u \in Threads \ {t}, ThreadOf(u),
         NEW F, buffer[u] \notin F, "nowhere" \notin F, AllStale(F),
         parts'[u] = [i \in DOMAIN parts[u] |-> Stale(parts[u][i], F)],
         text'[u] = text[u], buffer'[u] = buffer[u], outcome'[u] = outcome[u],
         disturbed'[u] = disturbed[u], memory'[buffer[u]] = memory[buffer[u]],
         verb' = verb \/ IsConnect(u)
  PROVE  ThreadOf(u)'
<1>1. InOrder(u) /\ StageOf(u) /\ u \in Threads
  BY DEF ThreadOf
<1>2. /\ Len(parts'[u]) = Len(parts[u]) /\ (parts[u] = <<>> <=> parts'[u] = <<>>)
      /\ inside[u] = NoCall => inside'[u] = NoCall
      /\ ~Idle(u) /\ ~disturbed[u] =>
           /\ parts'[u] = parts[u] /\ inside'[u] = inside[u]
           /\ parts[u] # <<>> /\ ~Finished(u) => position' = position
  BY <1>1, StaleKept, Zenon
<1>3. Idle(u) => ~disturbed[u]
  BY <1>1 DEF StageOf
<1> QED
  BY <1>1, <1>2, <1>3, Unmoved, Zenon

(* Every action keeps what is said of each thread.                         *)
LEMMA ThreadStep ==
  ASSUME TypeOK, \A t \in Threads : ThreadOf(t), [Next]_vars, NEW u \in Threads
  PROVE  ThreadOf(u)'
<1>0. /\ Main \in Threads /\ Watcher \in Threads /\ Main # Watcher /\ ThreadOf(u)
      /\ \A t \in Threads : t = Main \/ t = Watcher
  BY CommandAssumption DEF Threads
<1>1. CASE ReadLine
  <2>1. /\ Fill(Main, TextsFor(buffer[Main])) /\ ~IsConnect(Main) /\ AllStale({"line"})
        /\ UNCHANGED <<buffer, verb, outcome, disturbed>>
        /\ parts' = [parts EXCEPT ![Watcher] = [i \in DOMAIN @ |-> Stale(@[i], {"line"})]]
    BY <1>1 DEF ReadLine, IsConnect, TextsFor, Fill
  <2>2. CASE u = Main
    <3>1. Idle(Main) /\ parts'[Main] = <<>> /\ inside[Main] = NoCall
      BY <1>0, <2>1, <2>2 DEF Fill, ThreadOf, StageOf, TypeOK
    <3>2. inside'[Main] = NoCall
      <4>1. NoCall.token = NULL /\ NoCall.end = NULL
        BY DEF NoCall
      <4>2. Stale(NULL, {"line"}) = NULL
        BY DEF Stale, NULL
      <4>3. inside'[Main] = [inside[Main] EXCEPT !.token = Stale(@, {"line"}), !.end = Stale(@, {"line"})]
        BY <1>0, <2>1 DEF AllStale
      <4>4. /\ Stale(inside[Main].token, {"line"}) = inside[Main].token
            /\ Stale(inside[Main].end, {"line"}) = inside[Main].end
        BY <3>1, <4>1, <4>2
      <4>5. inside'[Main] = inside[Main]
        BY <1>0, <4>3, <4>4 DEF TypeOK
      <4> QED
        BY <3>1, <4>5
    <3> QED
      BY <1>0, <2>1, <2>2, <3>1, <3>2, FillStep, Zenon
  <2>3. CASE u = Watcher
    <3>1. u \in Threads \ {Main} /\ buffer[u] \notin {"line"} /\ "nowhere" \notin {"line"}
      BY <1>0, <2>3 DEF TypeOK
    <3>2. parts'[u] = [i \in DOMAIN parts[u] |-> Stale(parts[u][i], {"line"})]
      BY <1>0, <2>1, <2>3 DEF TypeOK
    <3>3. text'[u] = text[u] /\ memory'[buffer[u]] = memory[buffer[u]]
      BY <1>0, <2>1, <3>1, FillFacts
    <3>4. /\ buffer'[u] = buffer[u] /\ outcome'[u] = outcome[u]
          /\ disturbed'[u] = disturbed[u] /\ verb' = verb
      BY <2>1
    <3> QED
      BY <1>0, <2>1, <3>1, <3>2, <3>3, <3>4, StaleOther, Zenon
  <2> QED
    BY <1>0, <2>2, <2>3
<1>2. ASSUME NEW t \in Threads, Connect(t) PROVE ThreadOf(u)'
  <2>1. /\ Fill(t, TextsFor(buffer[t]))
        /\ UNCHANGED <<position, buffer, parts, verb, inside, outcome, disturbed>>
    BY <1>2 DEF Connect, IsConnect, TextsFor, Fill
  <2>2. CASE u = t
    <3>1. parts'[t] = <<>> /\ inside'[t] = NoCall
      BY <1>0, <2>1, <2>2 DEF Fill, ThreadOf, StageOf
    <3> QED
      BY <1>0, <2>1, <2>2, <3>1, FillStep, Zenon
  <2>3. CASE u # t
    <3>1. text'[u] = text[u] /\ memory'[buffer[u]] = memory[buffer[u]]
      BY <2>1, <2>3, FillFacts
    <3>2. Idle(u) => ~disturbed[u]
      BY <1>0 DEF ThreadOf, StageOf
    <3> QED
      BY <1>0, <2>1, <3>1, <3>2, Unmoved
  <2> QED
    BY <2>2, <2>3
<1>3. ASSUME NEW t \in Threads \ {u}, NEW kind, NEW args, Result(t, kind, args)
      PROVE  ThreadOf(u)'
  <2>1. /\ UNCHANGED <<memory, position, buffer, text, parts, verb, inside, disturbed>>
        /\ outcome'[u] = outcome[u]
    BY <1>3 DEF Result, TypeOK
  <2>2. Idle(u) => ~disturbed[u]
    BY <1>0 DEF ThreadOf, StageOf
  <2> QED
    BY <1>0, <2>1, <2>2, Unmoved
<1>4. CASE EndCommand
  <2>1. CASE u = Main
    BY <1>0, <1>4, <2>1, CommandOutcome, Zenon
  <2>2. CASE u # Main
    <3>1. \E kind, args : Result(Main, kind, args)
      BY <1>4, Zenon DEF EndCommand
    <3>2. Main \in Threads \ {u}
      BY <1>0, <2>2
    <3> QED
      BY <1>3, <3>1, <3>2, Zenon
  <2> QED
    BY <2>1, <2>2
<1>5. ASSUME NEW t \in Threads, EndConnect(t) PROVE ThreadOf(u)'
  <2>1. CASE u = t
    BY <1>0, <1>5, <2>1, ConnectOutcome, Zenon
  <2>2. CASE u # t
    <3>1. \E kind, args : Result(t, kind, args)
      BY <1>5, Zenon DEF EndConnect
    <3>2. t \in Threads \ {u}
      BY <2>2
    <3> QED
      BY <1>3, <3>1, <3>2, Zenon
  <2> QED
    BY <2>1, <2>2
<1>6. ASSUME NEW t \in Threads, EnterStrtok(t) PROVE ThreadOf(u)'
  <2>1. CASE u = t
    BY <1>0, <1>6, <2>1, EnterStep, Zenon
  <2>2. CASE u # t
    <3>1. /\ UNCHANGED <<memory, position, buffer, text, parts, verb, outcome, disturbed>>
          /\ inside'[u] = inside[u]
      BY <1>6, <2>2 DEF EnterStrtok, TypeOK
    <3>2. Idle(u) => ~disturbed[u]
      BY <1>0 DEF ThreadOf, StageOf
    <3> QED
      BY <1>0, <3>1, <3>2, Unmoved
  <2> QED
    BY <2>1, <2>2
<1>7. ASSUME NEW t \in Threads, LeaveStrtok(t) PROVE ThreadOf(u)'
  <2>1. CASE u = t
    BY <1>0, <1>7, <2>1, LeaveStep, Zenon
  <2>2. CASE u # t
    <3>1. u \in Threads \ {t}
      BY <2>2
    <3> QED
      BY <1>0, <1>7, <3>1, LeaveOther, Zenon
  <2> QED
    BY <2>1, <2>2
<1>8. ASSUME NEW t \in Threads, Resume(t) PROVE ThreadOf(u)'
  <2>1. CASE u = t
    BY <1>0, <1>8, <2>1, ResumeStep, Zenon
  <2>2. CASE u # t
    <3>1. u \in Threads \ {t}
      BY <2>2
    <3>2. buffer[u] \notin Freed(t) /\ "nowhere" \notin Freed(t) /\ buffer[u] \in Buffers
      BY <1>0, <2>2 DEF TypeOK, Freed, Buffers, Heap
    <3>3. /\ AllStale(Freed(t)) /\ text'[u] = text[u] /\ outcome'[u] = outcome[u]
          /\ disturbed'[u] = disturbed[u]
          /\ parts'[u] = [i \in DOMAIN parts[u] |-> Stale(parts[u][i], Freed(t))]
      BY <1>8, <2>2 DEF Resume, TypeOK
    <3>4. memory'[buffer[u]] = memory[buffer[u]]
      BY <1>8, <3>2 DEF Resume
    <3>5. buffer'[u] = buffer[u] /\ (verb' = verb \/ IsConnect(u))
      BY <1>0, <1>8, <2>2 DEF Resume, TypeOK, IsConnect
    <3> QED
      BY <1>0, <3>1, <3>2, <3>3, <3>4, <3>5, StaleOther, Zenon
  <2> QED
    BY <2>1, <2>2
<1>9. CASE UNCHANGED vars
  <2>1. Idle(u) => ~disturbed[u]
    BY <1>0 DEF ThreadOf, StageOf
  <2>2. UNCHANGED <<memory, position, buffer, text, parts, verb, inside, outcome, disturbed>>
    BY <1>9 DEF vars
  <2> QED
    BY <1>0, <2>1, <2>2, Unmoved
<1> QED
  BY <1>1, <1>2, <1>4, <1>5, <1>6, <1>7, <1>8, <1>9, Zenon DEF Next

-----------------------------------------------------------------------------
(***************************************************************************)
(* The theorems.                                                           *)
(***************************************************************************)

(* The invariant is inductive: of a text whose calls of strtok nobody      *)
(* disturbed, the separators before the position are overwritten and the   *)
(* tokens between them are what the same calls find in the text alone.     *)
THEOREM InvariantHolds == Spec => []Inv
<1>1. Init => Inv
  BY InitInv
<1>2. Inv /\ [Next]_vars => Inv'
  <2> SUFFICES ASSUME Inv, [Next]_vars PROVE Inv'
    OBVIOUS
  <2>1. TypeOK /\ \A t \in Threads : ThreadOf(t)
    BY DEF Inv
  <2>2. TypeOK'
    BY <2>1, TypeStep
  <2>3. \A t \in Threads : ThreadOf(t)'
    BY <2>1, ThreadStep, Zenon
  <2>4. (\A t \in Threads : ThreadOf(t))'
    BY <2>3
  <2> QED
    BY <2>2, <2>4 DEF Inv
<1> QED
  BY <1>1, <1>2, PTL DEF Spec

(* Unless the other thread moved the position under it or wrote into its   *)
(* text: the command that command_cicle sends is what its line says, a     *)
(* line is refused only if it says nothing, it ends the client only if it  *)
(* is a del without a key, and rtable_connect fills in the host and the    *)
(* port of its address.                                                    *)
THEOREM RequestAsTypedCorrect == Spec => []RequestAsTyped
<1>1. Inv => RequestAsTyped
  BY InvRequest
<1> QED
  BY <1>1, InvariantHolds, PTL

=============================================================================
