---------------------------- MODULE ReadFileProofs ----------------------------
(***************************************************************************)
(* Proofs about module ReadFile, for any cap, any contents of files and    *)
(* any number of changes and failures.                                     *)
(*                                                                         *)
(* The arithmetic is that of cutting a text: IsText says where a character *)
(* may end, and a prefix of a text that ends there is the longest one that *)
(* fits.  The rest follows the call: until somebody writes over it, what   *)
(* was looked at and what was read are both prefixes of the file.          *)
(***************************************************************************)
EXTENDS ReadFile, SequenceTheorems, WellFoundedInduction, TLAPS

(***************************************************************************)
(* Numbers.                                                                *)
(***************************************************************************)

\* What Max names is there.
LEMMA MaxIsGreatest ==
  ASSUME NEW n \in Nat, NEW S \in SUBSET (0..n), S # {}
  PROVE  /\ Max(S) \in S /\ Max(S) \in 0..n
         /\ \A x \in S : x <= Max(S)
  <1> DEFINE T == {n - x : x \in S}
  <1>1. T \subseteq Nat /\ T # {}
    <2>1. \A x \in S : n - x \in Nat
      OBVIOUS
    <2> QED
      BY <2>1
  <1>2. PICK least \in T : \A t \in T : least <= t
    <2> HIDE DEF T
    <2> DEFINE less == OpToRel(<, Nat)
    <2>1. IsWellFoundedOn(less, Nat)
      BY NatLessThanWellFounded
    <2>2. less = {ss \in Nat \X Nat : ss[1] < ss[2]}
      BY DEF OpToRel
    <2> HIDE DEF less
    <2>3. PICK least \in T : \A t \in T : ~(<<t, least>> \in less)
      BY <1>1, <2>1, WFMin
    <2>4. ASSUME NEW t \in T
          PROVE  least <= t
      <3>1. least \in Nat /\ t \in Nat /\ <<t, least>> \in Nat \X Nat
        BY <1>1, <2>4
      <3>2. ~(t < least)
        BY <2>2, <2>3, <3>1
      <3> QED
        BY <3>1, <3>2
    <2> QED
      BY <2>4
  <1>3. PICK x \in S : least = n - x
    BY <1>2
  <1>4. \A y \in S : x >= y
    <2> TAKE y \in S
    <2>1. n - y \in T
      OBVIOUS
    <2>2. n - x <= n - y
      BY <1>2, <1>3, <2>1
    <2> QED
      BY <2>2
  <1>5. Max(S) \in S /\ \A y \in S : Max(S) >= y
    BY <1>4 DEF Max
  <1> QED
    BY <1>5

LEMMA MinOfTwo ==
  ASSUME NEW a \in Nat, NEW b \in Nat
  PROVE  Min({a, b}) = IF a <= b THEN a ELSE b
  BY DEF Min

(***************************************************************************)
(* Prefixes of sequences of bytes.                                         *)
(***************************************************************************)

\* b is how c begins.
Begins(b, c) == Len(b) <= Len(c) /\ \A n \in 1..Len(b) : b[n] = c[n]

LEMMA Prefix ==
  ASSUME NEW b \in Seq(Bytes), NEW n \in 0..Len(b)
  PROVE  /\ SubSeq(b, 1, n) \in Seq(Bytes)
         /\ Len(SubSeq(b, 1, n)) = n
         /\ Begins(SubSeq(b, 1, n), b)
         /\ \A m \in 1..n : SubSeq(b, 1, n)[m] = b[m]
  <1>1. /\ Len(b) \in Nat /\ \A i \in 1..n : b[i] \in Bytes
    OBVIOUS
  <1>2. /\ SubSeq(b, 1, n) \in Seq(Bytes)
        /\ Len(SubSeq(b, 1, n)) = IF 1 <= n THEN n - 1 + 1 ELSE 0
        /\ \A i \in 1..(n - 1 + 1) : SubSeq(b, 1, n)[i] = b[1 + i - 1]
    BY <1>1, SubSeqProperties
  <1> QED
    BY <1>1, <1>2 DEF Begins

\* Two beginnings of a file of the same length are the same.
LEMMA SameBeginning ==
  ASSUME NEW b \in Seq(Bytes), NEW d \in Seq(Bytes), NEW c \in Seq(Bytes),
         Begins(b, c), Begins(d, c), Len(b) = Len(d)
  PROVE  b = d
  BY SeqEqual DEF Begins


LEMMA BeginsTransitive ==
  ASSUME NEW b \in Seq(Bytes), NEW c \in Seq(Bytes), NEW d \in Seq(Bytes),
         Begins(b, c), Begins(c, d)
  PROVE  Begins(b, d)
  <1>1. Len(b) \in Nat /\ Len(c) \in Nat /\ Len(d) \in Nat
    OBVIOUS
  <1> QED
    BY <1>1 DEF Begins

\* A beginning of a file is the part of it with that length.
LEMMA BeginningIsPart ==
  ASSUME NEW b \in Seq(Bytes), NEW c \in Seq(Bytes), Begins(b, c)
  PROVE  b = SubSeq(c, 1, Len(b))
  <1>1. Len(b) \in 0..Len(c)
    BY DEF Begins
  <1> QED
    BY <1>1, Prefix, SameBeginning

\* The same part of a beginning and of the whole.
LEMMA PartOfBeginning ==
  ASSUME NEW b \in Seq(Bytes), NEW c \in Seq(Bytes), Begins(b, c),
         NEW n \in 0..Len(b)
  PROVE  SubSeq(b, 1, n) = SubSeq(c, 1, n) /\ n \in 0..Len(c)
  <1>1. n \in 0..Len(c)
    BY DEF Begins
  <1>2. /\ SubSeq(b, 1, n) \in Seq(Bytes) /\ Len(SubSeq(b, 1, n)) = n
        /\ Begins(SubSeq(b, 1, n), c)
    BY Prefix, BeginsTransitive
  <1>3. /\ SubSeq(c, 1, n) \in Seq(Bytes) /\ Len(SubSeq(c, 1, n)) = n
        /\ Begins(SubSeq(c, 1, n), c)
    BY <1>1, Prefix
  <1> QED
    BY <1>1, <1>2, <1>3, SameBeginning

(***************************************************************************)
(* Text.                                                                   *)
(***************************************************************************)

\* A text may be cut, and may only be cut, where no character goes on.
Boundary(text, n) == n = Len(text) \/ text[n + 1] # "cont"

LEMMA CutText ==
  ASSUME NEW text \in Seq(Bytes), IsText(text), NEW n \in 0..Len(text)
  PROVE  IsText(SubSeq(text, 1, n)) <=> Boundary(text, n)
  <1> DEFINE b == SubSeq(text, 1, n)
  <1>1. /\ Len(b) = n /\ DOMAIN b = 1..n /\ \A m \in 1..n : b[m] = text[m]
        /\ Len(text) \in Nat /\ DOMAIN text = 1..Len(text)
    BY Prefix
  <1> HIDE DEF b
  <1>2. ASSUME IsText(b), n # Len(text), text[n + 1] = "cont"
        PROVE  FALSE
    <2>1. n \in Nat /\ n < Len(text)
      <3>1. n # Len(text)
        BY <1>2
      <3> QED
        BY <3>1
    <2>2. n + 1 > 1 /\ text[n] = "lead"
      <3>1. \A m \in DOMAIN text :
              text[m] = "cont" => m > 1 /\ text[m - 1] = "lead"
        BY DEF IsText
      <3> DEFINE next == n + 1
      <3>2. /\ next \in DOMAIN text /\ next - 1 = n
            /\ next > 1 => n + 1 > 1
        BY <1>1, <2>1
      <3>3. text[next] = "cont"
        BY <1>2
      <3> HIDE DEF next
      <3>4. next > 1 /\ text[next - 1] = "lead"
        BY <3>1, <3>2, <3>3
      <3> QED
        BY <3>2, <3>4
    <2>3. n \in DOMAIN b /\ text[n] = "lead"
      BY <1>1, <2>2
    <2>4. b[n] = "lead"
      BY <1>1, <2>3
    <2>5. n < Len(b)
      BY <1>2, <2>3, <2>4 DEF IsText
    <2> QED
      BY <1>1, <2>5
  <1>3. ASSUME Boundary(text, n), NEW m \in DOMAIN b
        PROVE  /\ b[m] = "lead" => m < Len(b) /\ b[m + 1] = "cont"
               /\ b[m] = "cont" => m > 1 /\ b[m - 1] = "lead"
    <2>1. /\ m \in 1..n /\ m \in DOMAIN text /\ b[m] = text[m]
          /\ text[m] = "lead" => m < Len(text) /\ text[m + 1] = "cont"
          /\ text[m] = "cont" => m > 1 /\ text[m - 1] = "lead"
      BY <1>1, <1>3 DEF IsText
    <2>2. ASSUME b[m] = "lead"
          PROVE  m < Len(b) /\ b[m + 1] = "cont"
      <3>1. m # n
        BY <1>3, <2>1, <2>2 DEF Boundary
      <3>2. m + 1 \in 1..n
        BY <1>1, <2>1, <3>1
      <3> QED
        BY <1>1, <2>1, <2>2, <3>1, <3>2
    <2>3. ASSUME b[m] = "cont"
          PROVE  m > 1 /\ b[m - 1] = "lead"
      <3>1. m > 1 /\ m - 1 \in 1..n
        BY <1>1, <2>1, <2>3
      <3> QED
        BY <1>1, <2>1, <2>3, <3>1
    <2> QED
      BY <2>2, <2>3
  <1> QED
    BY <1>2, <1>3 DEF IsText, Boundary, b

\* Nothing is text.
LEMMA EmptyText ==
  ASSUME NEW b \in Seq(Bytes)
  PROVE  IsText(SubSeq(b, 1, 0))
  <1>1. Len(SubSeq(b, 1, 0)) = 0 /\ SubSeq(b, 1, 0) \in Seq(Bytes)
    BY Prefix
  <1> QED
    BY <1>1 DEF IsText

\* truncate_utf8 (src/text.rs:2): the longest text within max.
LEMMA TruncatedText ==
  ASSUME NEW text \in Seq(Bytes), IsText(text), NEW max \in Nat
  PROVE  LET fits == {n \in 0..Len(text) :
                        n <= max /\ IsText(SubSeq(text, 1, n))}
         IN  /\ TruncateUtf8(text, max) = SubSeq(text, 1, Max(fits))
             /\ fits # {} /\ Max(fits) \in fits
             /\ \A n \in fits : n <= Max(fits)
  <1> DEFINE fits == {n \in 0..Len(text) :
                        n <= max /\ IsText(SubSeq(text, 1, n))}
             boundaries == {n \in 0..Len(text) :
                              n = Len(text) \/ text[n + 1] # "cont"}
  <1>1. {n \in boundaries : n <= max} = fits
    BY CutText DEF Boundary
  <1>2. 0 \in fits
    <2>1. Len(text) \in Nat
      OBVIOUS
    <2> QED
      BY <2>1, EmptyText
  <1>3. Max(fits) \in fits /\ \A n \in fits : n <= Max(fits)
    <2>1. fits \in SUBSET (0..Len(text)) /\ Len(text) \in Nat
      OBVIOUS
    <2> HIDE DEF fits
    <2> QED
      BY <1>2, <2>1, MaxIsGreatest
  <1>4. TruncateUtf8(text, max) = SubSeq(text, 1, Max(fits))
    BY <1>1 DEF TruncateUtf8
  <1> QED
    BY <1>2, <1>3, <1>4

LEMMA TruncatedFits ==
  ASSUME NEW text \in Seq(Bytes), IsText(text), NEW max \in Nat
  PROVE  LET kept == TruncateUtf8(text, max)
         IN  /\ kept \in Seq(Bytes) /\ Len(kept) <= max
             /\ IsText(kept) /\ Begins(kept, text)
  <1> DEFINE fits == {n \in 0..Len(text) :
                        n <= max /\ IsText(SubSeq(text, 1, n))}
  <1>1. PICK n \in 0..Len(text) :
          /\ n <= max /\ IsText(SubSeq(text, 1, n))
          /\ TruncateUtf8(text, max) = SubSeq(text, 1, n)
    <2>1. /\ TruncateUtf8(text, max) = SubSeq(text, 1, Max(fits))
          /\ Max(fits) \in fits
      BY TruncatedText
    <2> QED
      BY <2>1
  <1> QED
    BY <1>1, Prefix

\* Utf8Error::valid_up_to
LEMMA ValidPart ==
  ASSUME NEW b \in Seq(Bytes)
  PROVE  /\ ValidUpTo(b) \in 0..Len(b) /\ IsText(SubSeq(b, 1, ValidUpTo(b)))
         /\ \A n \in 0..Len(b) : IsText(SubSeq(b, 1, n)) => n <= ValidUpTo(b)
  <1> DEFINE valid == {n \in 0..Len(b) : IsText(SubSeq(b, 1, n))}
  <1>1. valid \in SUBSET (0..Len(b)) /\ 0 \in valid /\ Len(b) \in Nat
    <2>1. Len(b) \in Nat
      OBVIOUS
    <2> QED
      BY <2>1, EmptyText
  <1>2. Max(valid) \in valid /\ \A n \in valid : n <= Max(valid)
    <2> HIDE DEF valid
    <2> QED
      BY <1>1, MaxIsGreatest
  <1> QED
    BY <1>2 DEF ValidUpTo

\* What is decoded is what was read, or begins it (src/investigation/read_file.rs:121).
LEMMA Decoded ==
  ASSUME NEW b \in Seq(Bytes), NEW total
  PROVE  Decode(b, total) \in Seq(Bytes) /\ Begins(Decode(b, total), b)
  <1>1. Begins(b, b)
    BY DEF Begins
  <1>2. /\ SubSeq(b, 1, ValidUpTo(b)) \in Seq(Bytes)
        /\ Begins(SubSeq(b, 1, ValidUpTo(b)), b)
    BY ValidPart, Prefix
  <1> QED
    BY <1>1, <1>2 DEF Decode


\* What is read ends inside a character exactly if one byte would complete it.
LEMMA Completed ==
  ASSUME NEW b \in Seq(Bytes), ~IsText(b)
  PROVE  EndsInsideChar(b) <=> IsText(Append(b, "cont"))
  <1> DEFINE a == Append(b, "cont")
             last == Len(b)
  <1>1. /\ a \in Seq(Bytes) /\ Len(a) = last + 1 /\ last \in Nat
        /\ DOMAIN a = 1..(last + 1) /\ DOMAIN b = 1..last
        /\ \A n \in 1..last : a[n] = b[n]
        /\ a[last + 1] = "cont" /\ Begins(b, a)
    <2>1. "cont" \in Bytes
      BY DEF Bytes
    <2>2. /\ a \in Seq(Bytes) /\ Len(a) = last + 1 /\ last \in Nat
          /\ DOMAIN a = 1..(last + 1) /\ DOMAIN b = 1..last
          /\ \A n \in 1..last : a[n] = b[n]
          /\ a[last + 1] = "cont"
      BY <2>1
    <2> HIDE DEF a
    <2> QED
      BY <2>2 DEF Begins
  <1> HIDE DEF a
  <1>2. ASSUME EndsInsideChar(b)
        PROVE  IsText(a)
    <2> DEFINE cut == last - 1
               valid == SubSeq(b, 1, cut)
    <2>1. /\ cut \in 0..last /\ b[last] = "lead" /\ IsText(valid)
          /\ ValidUpTo(b) = cut
      BY <1>1, <1>2, ValidPart DEF EndsInsideChar, Last
    <2>2. /\ last \in 1..last /\ cut \in Nat /\ cut + 1 = last
          /\ Len(valid) = cut /\ DOMAIN valid = 1..cut
          /\ \A n \in 1..cut : valid[n] = b[n]
      BY <1>1, <2>1, Prefix
    <2> HIDE DEF valid, cut
    <2>3. a[last] = "lead"
      BY <1>1, <2>1, <2>2
    <2>4. ASSUME NEW n \in DOMAIN a
          PROVE  /\ a[n] = "lead" => n < Len(a) /\ a[n + 1] = "cont"
                 /\ a[n] = "cont" => n > 1 /\ a[n - 1] = "lead"
      <3>1. CASE n \in 1..cut
        <4>1. /\ n \in 1..last /\ a[n] = valid[n]
              /\ valid[n] = "lead" => n < cut /\ valid[n + 1] = "cont"
              /\ valid[n] = "cont" => n > 1 /\ valid[n - 1] = "lead"
          BY <1>1, <2>1, <2>2, <3>1 DEF IsText
        <4>2. \A m \in 1..cut : a[m] = valid[m]
          BY <1>1, <2>2
        <4>3. n < cut => n + 1 \in 1..cut
          BY <2>2, <3>1
        <4>4. n > 1 => n - 1 \in 1..cut
          BY <2>2, <3>1
        <4>5. n < Len(a)
          BY <1>1, <4>1
        <4> QED
          BY <4>1, <4>2, <4>3, <4>4, <4>5
      <3>2. CASE n = last
        BY <1>1, <2>2, <2>3, <3>2
      <3>3. CASE n = last + 1
        <4>1. n > 1 /\ n - 1 = last
          BY <1>1, <2>2, <3>3
        <4> QED
          BY <1>1, <2>3, <3>3, <4>1
      <3> QED
        BY <1>1, <2>2, <3>1, <3>2, <3>3
    <2> QED
      BY <2>4 DEF IsText
  <1>3. ASSUME IsText(a)
        PROVE  EndsInsideChar(b)
    <2> DEFINE next == last + 1
               cut == last - 1
    <2>1. next \in DOMAIN a /\ next - 1 = last /\ a[next] = "cont"
      BY <1>1
    <2> HIDE DEF next
    <2>2. next > 1 /\ a[last] = "lead"
      BY <1>3, <2>1 DEF IsText
    <2>3. last \in 1..last /\ b[last] = "lead" /\ cut \in 0..last
      BY <1>1, <2>2 DEF next
    <2>4. cut \in 0..Len(a) /\ Boundary(a, cut)
      <3>1. cut + 1 = last
        BY <1>1
      <3> QED
        BY <1>1, <2>2, <2>3, <3>1 DEF Boundary
    <2>5. IsText(SubSeq(a, 1, cut))
      BY <1>1, <1>3, <2>4, CutText
    <2>6. SubSeq(b, 1, cut) = SubSeq(a, 1, cut)
      BY <1>1, <2>3, PartOfBeginning
    <2>7. SubSeq(b, 1, last) = b
      BY SubSeqFull
    <2>8. ValidUpTo(b) \in 0..last /\ cut <= ValidUpTo(b)
      BY <2>3, <2>5, <2>6, ValidPart
    <2>9. ValidUpTo(b) # last
      BY <2>7, ValidPart
    <2>10. ValidUpTo(b) = last - 1
      BY <1>1, <2>8, <2>9
    <2> QED
      BY <2>3, <2>10 DEF EndsInsideChar, Last
  <1> QED
    BY <1>2, <1>3 DEF a

\* The part of a file that is read, and whether its text can be given.
Seen(c) == SubSeq(c, 1, Min({Cap + 1, Len(c)}))

Readable(c) ==
  \/ IsText(Seen(c))
  \/ Len(c) > Len(Seen(c)) /\ IsText(Append(Seen(c), "cont"))

LEMMA SeenPart ==
  ASSUME NEW c \in Seq(Bytes)
  PROVE  /\ Seen(c) \in Seq(Bytes) /\ Begins(Seen(c), c)
         /\ Len(Seen(c)) = IF Cap + 1 <= Len(c) THEN Cap + 1 ELSE Len(c)
  <1>1. Cap + 1 \in Nat /\ Len(c) \in Nat
    BY CapAssumption
  <1>2. Min({Cap + 1, Len(c)}) = IF Cap + 1 <= Len(c) THEN Cap + 1 ELSE Len(c)
    BY <1>1, MinOfTwo
  <1>3. Min({Cap + 1, Len(c)}) \in 0..Len(c)
    BY <1>1, <1>2
  <1> QED
    BY <1>2, <1>3, Prefix DEF Seen

\* The text is decoded whenever there is one, and nothing that would be kept
\* is cut off (read_capped, src/investigation/read_file.rs:107).
LEMMA DecodedReadable ==
  ASSUME NEW c \in Seq(Bytes)
  PROVE  LET text == Decode(Seen(c), Len(c))
         IN  /\ IsText(text) <=> Readable(c)
             /\ IsText(text) => Len(text) >= Cap \/ text = c
  <1> DEFINE b == Seen(c)
             text == Decode(b, Len(c))
  <1>1. /\ b \in Seq(Bytes) /\ Begins(b, c) /\ Len(b) \in Nat /\ Len(c) \in Nat
        /\ Len(b) = IF Cap + 1 <= Len(c) THEN Cap + 1 ELSE Len(c)
        /\ Cap \in Nat
    BY SeenPart, CapAssumption
  <1>2. CASE IsText(b)
    <2>1. SubSeq(b, 1, Len(b)) = b
      BY <1>1, SubSeqFull
    <2>2. ValidUpTo(b) = Len(b)
      <3> HIDE DEF b
      <3>1. Len(b) \in 0..Len(b) /\ IsText(SubSeq(b, 1, Len(b)))
        <4>1. Len(b) \in 0..Len(b)
          BY <1>1
        <4> QED
          BY <1>2, <2>1, <4>1
      <3>2. ValidUpTo(b) \in 0..Len(b) /\ Len(b) <= ValidUpTo(b)
        BY <1>1, <3>1, ValidPart
      <3> QED
        BY <1>1, <3>2
    <2>3. text = b
      BY <1>1, <2>2 DEF Decode, EndsInsideChar
    <2>4. Len(b) # Cap + 1 => b = c
      <3>1. Begins(c, c)
        BY DEF Begins
      <3> QED
        BY <1>1, <3>1, SameBeginning
    <2>5. Len(b) >= Cap \/ b = c
      BY <1>1, <2>4
    <2> QED
      BY <1>2, <2>3, <2>5 DEF Readable
  <1>3. CASE ~IsText(b) /\ EndsInsideChar(b) /\ Len(c) > Len(b)
    <2>1. text = SubSeq(b, 1, ValidUpTo(b))
      BY <1>3 DEF Decode
    <2>2. ValidUpTo(b) = Len(b) - 1 /\ Len(b) = Cap + 1
      BY <1>1, <1>3 DEF EndsInsideChar
    <2>3. IsText(text) /\ Len(text) = Cap
      BY <1>1, <2>1, <2>2, ValidPart, Prefix
    <2>4. IsText(Append(b, "cont"))
      BY <1>1, <1>3, Completed
    <2> QED
      BY <1>1, <1>3, <2>3, <2>4 DEF Readable
  <1>4. CASE ~IsText(b) /\ ~(EndsInsideChar(b) /\ Len(c) > Len(b))
    <2>1. text = b
      BY <1>4 DEF Decode
    <2>2. ~Readable(c)
      BY <1>1, <1>4, Completed DEF Readable
    <2> QED
      BY <1>4, <2>1, <2>2
  <1> QED
    BY <1>2, <1>3, <1>4

\* What is kept of such a text is the longest text of the file within the cap.
LEMMA LongestKept ==
  ASSUME NEW c \in Seq(Bytes), NEW text \in Seq(Bytes), Begins(text, c),
         IsText(text), Len(text) >= Cap \/ text = c
  PROVE  TruncateUtf8(text, Cap) =
           SubSeq(c, 1, Max({n \in 0..Min({Cap, Len(c)}) :
                               IsText(SubSeq(c, 1, n))}))
  <1> DEFINE fits == {n \in 0..Len(text) :
                        n <= Cap /\ IsText(SubSeq(text, 1, n))}
             wanted == {n \in 0..Min({Cap, Len(c)}) : IsText(SubSeq(c, 1, n))}
  <1>1. /\ Cap \in Nat /\ Len(c) \in Nat /\ Len(text) \in Nat
        /\ Len(text) <= Len(c)
    BY CapAssumption DEF Begins
  <1>2. Min({Cap, Len(c)}) = IF Cap <= Len(c) THEN Cap ELSE Len(c)
    BY <1>1, MinOfTwo
  <1>3. \A n : n \in 0..Min({Cap, Len(c)}) <=> n \in 0..Len(text) /\ n <= Cap
    BY <1>1, <1>2
  <1>4. \A n \in 0..Len(text) : SubSeq(text, 1, n) = SubSeq(c, 1, n)
    BY PartOfBeginning
  <1>5. fits = wanted
    <2>1. ASSUME NEW n
          PROVE  n \in fits <=> n \in wanted
      <3>1. n \in fits <=> /\ n \in 0..Len(text) /\ n <= Cap
                           /\ IsText(SubSeq(text, 1, n))
        OBVIOUS
      <3>2. n \in wanted <=> /\ n \in 0..Min({Cap, Len(c)})
                             /\ IsText(SubSeq(c, 1, n))
        OBVIOUS
      <3> QED
        BY <1>3, <1>4, <3>1, <3>2, Zenon
    <2> HIDE DEF fits, wanted
    <2> QED
      BY <2>1
  <1>6. TruncateUtf8(text, Cap) = SubSeq(text, 1, Max(fits))
        /\ Max(fits) \in 0..Len(text)
    <2>1. /\ TruncateUtf8(text, Cap) = SubSeq(text, 1, Max(fits))
          /\ Max(fits) \in fits
      BY <1>1, TruncatedText
    <2> QED
      BY <2>1
  <1> QED
    BY <1>4, <1>5, <1>6


(***************************************************************************)
(* The call.                                                               *)
(***************************************************************************)

Answers == [failure : Failures \cup {NoFailure}, kept : Seq(Bytes),
            total : Nat, truncated : BOOLEAN]

\* Where the call is tells what has been ruled out.
Where ==
  /\ at \in {"open", "look", "read"} => path = "relative"
  /\ at = "open" => entry \in {"missing", "directory", "unreadable", "file"}
  /\ at = "open" /\ entry = "missing" => events # 0
  /\ at = "look" => entry \in {"directory", "file"}
  /\ at = "read" => entry = "file"

\* Nothing is read before the look; and until somebody writes over it, what
\* was looked at and what was read begin the file.
Reading ==
  /\ at \in {"resolve", "open", "look"} => bytes = <<>> /\ ~rewritten
  /\ at # "answered" => answer = Unanswered
  /\ at = "read" /\ ~rewritten =>
       Begins(looked, content) /\ Begins(bytes, content)
  /\ at = "read" /\ events = 0 => looked = content /\ ~rewritten

IInv ==
  /\ TypeOK /\ answer \in Answers
  /\ Where /\ Reading
  /\ AnswerFits /\ NoNoticeMeansWhole /\ StillFileReadRight

LEMMA NothingIsRead == <<>> \in Seq(Bytes) /\ Len(<<>>) = 0
  OBVIOUS

LEMMA FilesAreBytes ==
  ASSUME TypeOK
  PROVE  /\ content \in Seq(Bytes) /\ looked \in Seq(Bytes)
         /\ bytes \in Seq(Bytes) /\ events \in Nat
         /\ Len(content) \in Nat /\ Len(looked) \in Nat
         /\ Len(bytes) \in Nat /\ Cap \in Nat /\ Limit \in Nat
         /\ Limit = Cap + 1
  <1>1. content \in Seq(Bytes) /\ looked \in Seq(Bytes) /\ bytes \in Seq(Bytes)
    BY ContentsAssumption, NothingIsRead DEF TypeOK
  <1>2. events \in Nat
    BY EventsAssumption DEF TypeOK
  <1>3. Cap \in Nat /\ Limit \in Nat /\ Limit = Cap + 1
    BY CapAssumption DEF Limit
  <1> QED
    BY <1>1, <1>2, <1>3

\* What is promised of a file, in the words of the lemmas above.
LEMMA PromisedOfFile ==
  ASSUME path = "relative", entry = "file"
  PROVE  Promised =
           IF ~Readable(content)
           THEN [Unanswered EXCEPT !.failure = "InvalidArgs"]
           ELSE LET kept == SubSeq(content, 1,
                              Max({n \in 0..Min({Cap, Len(content)}) :
                                     IsText(SubSeq(content, 1, n))}))
                IN  [failure |-> NoFailure, kept |-> kept,
                     total |-> Len(content), truncated |-> kept # content]
  BY DEF Promised, Readable, Seen

\* The answer of a call that fails.
LEMMA FailAnswer ==
  ASSUME NEW error \in DOMAIN MapError, Fail(error)
  PROVE  /\ at' = "answered" /\ answer' \in Answers
         /\ answer'.failure = MapError[error]
         /\ answer'.failure \in Failures
         /\ answer'.kept \in Seq(Bytes) /\ answer'.total \in Nat
         /\ answer'.truncated \in BOOLEAN
         /\ ~GotText'
  <1>1. MapError[error] \in Failures /\ MapError[error] # NoFailure
    BY DEF MapError, Failures, NoFailure
  <1>2. Unanswered \in Answers
    BY NothingIsRead DEF Unanswered, Answers
  <1>3. /\ answer' = [Unanswered EXCEPT !.failure = MapError[error]]
        /\ at' = "answered"
    BY DEF Fail
  <1>4. /\ answer' \in Answers /\ answer'.failure = MapError[error]
    BY <1>1, <1>2, <1>3 DEF Answers
  <1> QED
    BY <1>1, <1>3, <1>4 DEF GotText, Answers

\* The call goes to its end without a text: all that is left to say is that
\* this is what was promised.
LEMMA FailIInv ==
  ASSUME IInv, NEW error \in DOMAIN MapError, Fail(error),
         UNCHANGED <<path, entry, content, looked, bytes, rewritten>>,
         events' \in 0..MaxEvents,
         events' = 0 => answer' = Promised'
  PROVE  IInv'
  <1>1. TypeOK' /\ answer' \in Answers
    BY FailAnswer DEF IInv, TypeOK
  <1>2. Where' /\ Reading'
    BY FailAnswer DEF Where, Reading
  <1>3. AnswerFits' /\ NoNoticeMeansWhole' /\ StillFileReadRight'
    BY FailAnswer DEF AnswerFits, NoNoticeMeansWhole, StillFileReadRight
  <1> QED
    BY <1>1, <1>2, <1>3 DEF IInv

LEMMA PromisedStays ==
  ASSUME UNCHANGED <<path, entry, content>>
  PROVE  Promised' = Promised
  BY DEF Promised

LEMMA ResolveIInv ==
  ASSUME IInv, Resolve
  PROVE  IInv'
  <1>1. /\ UNCHANGED <<path, entry, content, looked, bytes, rewritten, events>>
        /\ at = "resolve"
    BY DEF Resolve, world
  <1>2. events' \in 0..MaxEvents /\ Promised' = Promised
    BY <1>1, PromisedStays DEF IInv, TypeOK
  <1>3. ASSUME NEW error \in DOMAIN MapError, Fail(error),
               Promised = [Unanswered EXCEPT !.failure = MapError[error]]
        PROVE  IInv'
    BY <1>1, <1>2, <1>3, FailIInv DEF Fail
  <1>4. CASE path = "absolute" /\ Fail("Absolute")
    BY <1>3, <1>4 DEF MapError, Promised
  <1>5. CASE path = "parent" /\ Fail("Escapes")
    BY <1>3, <1>5 DEF MapError, Promised
  <1>6. CASE path = "relative" /\ entry = "missing" /\ Fail("NotFound")
    BY <1>3, <1>6 DEF MapError, Promised
  <1>7. CASE path = "relative" /\ entry = "unresolvable" /\ Fail("Unreadable")
    BY <1>3, <1>7 DEF MapError, Promised
  <1>8. CASE path = "relative" /\ entry = "outside" /\ Fail("Escapes")
    BY <1>3, <1>8 DEF MapError, Promised
  <1>9. CASE /\ path = "relative" /\ Goto("open")
             /\ entry \in {"directory", "unreadable", "file"}
    <2>1. at' = "open" /\ answer' = answer
      BY <1>9 DEF Goto
    <2>2. TypeOK' /\ answer' \in Answers /\ Where' /\ Reading'
      BY <1>1, <1>9, <2>1 DEF IInv, TypeOK, Where, Reading
    <2>3. AnswerFits' /\ NoNoticeMeansWhole' /\ StillFileReadRight'
      BY <2>1 DEF AnswerFits, NoNoticeMeansWhole, StillFileReadRight, GotText
    <2> QED
      BY <2>2, <2>3 DEF IInv
  <1> QED
    BY <1>4, <1>5, <1>6, <1>7, <1>8, <1>9 DEF Resolve

LEMMA OpenIInv ==
  ASSUME IInv, Open
  PROVE  IInv'
  <1>1. /\ UNCHANGED <<path, entry, content, looked, bytes, rewritten, events>>
        /\ at = "open" /\ path = "relative"
        /\ entry \in {"missing", "directory", "unreadable", "file"}
    BY DEF Open, world, IInv, Where
  <1>2. events' \in 0..MaxEvents /\ Promised' = Promised
    BY <1>1, PromisedStays DEF IInv, TypeOK
  <1>3. CASE entry \in {"missing", "unreadable"} /\ Fail("Unreadable")
    <2>1. events' = 0 => Promised = [Unanswered EXCEPT !.failure = "Other"]
      BY <1>1, <1>3 DEF Promised, IInv, Where
    <2>2. /\ "Unreadable" \in DOMAIN MapError
          /\ MapError["Unreadable"] = "Other"
      BY DEF MapError
    <2>3. answer' = [Unanswered EXCEPT !.failure = "Other"]
      BY <1>3, <2>2 DEF Fail
    <2> QED
      BY <1>1, <1>2, <1>3, <2>1, <2>2, <2>3, FailIInv
  <1>4. CASE entry \notin {"missing", "unreadable"} /\ Goto("look")
    <2>1. at' = "look" /\ answer' = answer
      BY <1>4 DEF Goto
    <2>2. TypeOK' /\ answer' \in Answers /\ Where' /\ Reading'
      BY <1>1, <1>4, <2>1 DEF IInv, TypeOK, Where, Reading
    <2>3. AnswerFits' /\ NoNoticeMeansWhole' /\ StillFileReadRight'
      BY <2>1 DEF AnswerFits, NoNoticeMeansWhole, StillFileReadRight, GotText
    <2> QED
      BY <2>2, <2>3 DEF IInv
  <1> QED
    BY <1>3, <1>4 DEF Open

LEMMA LookIInv ==
  ASSUME IInv, Look
  PROVE  IInv'
  <1>1. /\ UNCHANGED <<path, entry, content, bytes, rewritten, events>>
        /\ at = "look" /\ path = "relative" /\ entry \in {"directory", "file"}
        /\ looked' = content /\ bytes = <<>> /\ ~rewritten
        /\ TypeOK /\ answer \in Answers
    BY DEF Look, world, IInv, Where, Reading
  <1>2. CASE entry = "directory" /\ Fail("IsADirectory")
    <2>1. Promised' = [Unanswered EXCEPT !.failure = "InvalidArgs"]
      <3>1. Promised = [Unanswered EXCEPT !.failure = "InvalidArgs"]
        BY <1>1, <1>2 DEF Promised
      <3> QED
        BY <1>1, <3>1, PromisedStays
    <2>2. /\ "IsADirectory" \in DOMAIN MapError
          /\ MapError["IsADirectory"] = "InvalidArgs"
      BY DEF MapError
    <2>3. answer' = Promised'
      BY <1>2, <2>1, <2>2 DEF Fail
    <2>4. /\ at' = "answered" /\ answer' \in Answers
          /\ answer'.failure \in Failures
          /\ answer'.kept \in Seq(Bytes) /\ answer'.total \in Nat
          /\ answer'.truncated \in BOOLEAN
          /\ ~GotText'
      BY <1>2, <2>2, FailAnswer
    <2>5. TypeOK' /\ Where' /\ Reading'
      BY <1>1, <2>4 DEF TypeOK, Where, Reading
    <2>6. AnswerFits' /\ NoNoticeMeansWhole' /\ StillFileReadRight'
      BY <2>3, <2>4 DEF AnswerFits, NoNoticeMeansWhole, StillFileReadRight
    <2> QED
      BY <2>4, <2>5, <2>6 DEF IInv
  <1>3. CASE entry # "directory" /\ Goto("read")
    <2>1. at' = "read" /\ answer' = answer
      BY <1>3 DEF Goto
    <2>2. Begins(content, content) /\ Begins(<<>>, content)
      BY <1>1, FilesAreBytes, NothingIsRead DEF Begins
    <2>3. TypeOK' /\ answer' \in Answers /\ Where'
      BY <1>1, <1>3, <2>1 DEF TypeOK, Where
    <2>4. Reading'
      BY <1>1, <2>1, <2>2 DEF IInv, Reading
    <2>5. AnswerFits' /\ NoNoticeMeansWhole' /\ StillFileReadRight'
      BY <2>1 DEF AnswerFits, NoNoticeMeansWhole, StillFileReadRight, GotText
    <2> QED
      BY <2>3, <2>4, <2>5 DEF IInv
  <1> QED
    BY <1>2, <1>3 DEF Look

LEMMA ReadSomeIInv ==
  ASSUME IInv, ReadSome
  PROVE  IInv'
  <1>1. /\ UNCHANGED <<path, entry, content, looked, at, answer, rewritten,
                       events>>
        /\ at = "read" /\ TypeOK /\ answer \in Answers
    BY DEF ReadSome, world, IInv
  <1>2. /\ content \in Seq(Bytes) /\ bytes \in Seq(Bytes)
        /\ Len(content) \in Nat /\ Len(bytes) \in Nat /\ Limit \in Nat
    BY <1>1, FilesAreBytes
  <1>3. PICK n \in Len(bytes) + 1 .. Min({Limit, Len(content)}) :
          bytes' = bytes \o SubSeq(content, Len(bytes) + 1, n)
    BY DEF ReadSome
  <1>4. /\ n \in Nat /\ Len(bytes) + 1 <= n
        /\ n <= Limit /\ n <= Len(content)
    BY <1>2, MinOfTwo
  <1> DEFINE chunk == SubSeq(content, Len(bytes) + 1, n)
             k == Len(bytes)
  <1>5. /\ chunk \in Seq(Bytes) /\ Len(chunk) = n - k
        /\ \A i \in 1..(n - k) : chunk[i] = content[k + i]
    <2>1. \A i \in k + 1 .. n : content[i] \in Bytes
      BY <1>2, <1>4
    <2>2. /\ chunk \in Seq(Bytes)
          /\ Len(chunk) = IF k + 1 <= n THEN n - (k + 1) + 1 ELSE 0
          /\ \A i \in 1 .. n - (k + 1) + 1 : chunk[i] = content[k + 1 + i - 1]
      BY <1>2, <1>4, <2>1, SubSeqProperties
    <2> HIDE DEF chunk
    <2>3. n - (k + 1) + 1 = n - k /\ \A i \in Nat : k + 1 + i - 1 = k + i
      BY <1>2, <1>4
    <2> QED
      BY <1>2, <1>4, <2>2, <2>3
  <1> HIDE DEF chunk
  <1>6. /\ bytes' \in Seq(Bytes) /\ Len(bytes') = n
        /\ \A i \in 1..k : bytes'[i] = bytes[i]
        /\ \A i \in 1..(n - k) : bytes'[k + i] = chunk[i]
    <2>1. bytes' = bytes \o chunk
      BY <1>3 DEF chunk
    <2> QED
      BY <1>2, <1>4, <1>5, <2>1
  <1>7. ASSUME Begins(bytes, content)
        PROVE  Begins(bytes', content)
    <2>1. ASSUME NEW i \in 1..n
          PROVE  bytes'[i] = content[i]
      <3>1. CASE i \in 1..k
        BY <1>6, <1>7, <3>1 DEF Begins
      <3>2. CASE i \notin 1..k
        <4>1. i - k \in 1..(n - k) /\ k + (i - k) = i
          BY <1>2, <1>4, <2>1, <3>2
        <4>2. bytes'[k + (i - k)] = content[k + (i - k)]
          BY <1>5, <1>6, <4>1
        <4> QED
          BY <4>1, <4>2
      <3> QED
        BY <3>1, <3>2
    <2> QED
      BY <1>4, <1>6, <2>1 DEF Begins
  <1>8. TypeOK' /\ answer' \in Answers /\ Where'
    BY <1>1, <1>4, <1>6 DEF IInv, TypeOK, Where
  <1>9. Reading'
    BY <1>1, <1>7 DEF IInv, Reading
  <1>10. AnswerFits' /\ NoNoticeMeansWhole' /\ StillFileReadRight'
    BY <1>1 DEF AnswerFits, NoNoticeMeansWhole, StillFileReadRight, GotText
  <1> QED
    BY <1>8, <1>9, <1>10 DEF IInv


\* In a repository that stood still, all was read that would be.
LEMMA ReadToItsEnd ==
  ASSUME IInv, Answer, events = 0
  PROVE  looked = content /\ bytes = Seen(content)
  <1>1. /\ looked = content /\ Begins(bytes, content)
        /\ TypeOK /\ Len(bytes) <= Limit
        /\ Len(bytes) >= Min({Limit, Len(content)})
    BY DEF Answer, IInv, Reading, TypeOK
  <1>2. /\ content \in Seq(Bytes) /\ bytes \in Seq(Bytes)
        /\ Len(content) \in Nat /\ Len(bytes) \in Nat
        /\ Limit \in Nat /\ Limit = Cap + 1
    BY <1>1, FilesAreBytes
  <1>3. Len(bytes) = Len(Seen(content))
    <2>1. Min({Limit, Len(content)}) =
            IF Limit <= Len(content) THEN Limit ELSE Len(content)
      BY <1>2, MinOfTwo
    <2>2. Len(bytes) <= Len(content)
      BY <1>1 DEF Begins
    <2> QED
      <3>1. Len(Seen(content)) =
              IF Cap + 1 <= Len(content) THEN Cap + 1 ELSE Len(content)
        BY <1>2, SeenPart
      <3> QED
        BY <1>1, <1>2, <2>1, <2>2, <3>1
  <1> QED
    BY <1>1, <1>2, <1>3, SeenPart, SameBeginning

LEMMA AnswerIInv ==
  ASSUME IInv, Answer
  PROVE  IInv'
  <1> DEFINE text == Decode(bytes, Len(looked))
             kept == TruncateUtf8(text, Cap)
  <1>1. /\ UNCHANGED <<path, entry, content, looked, bytes, rewritten, events>>
        /\ at = "read" /\ path = "relative" /\ entry = "file"
        /\ TypeOK /\ Reading
    BY DEF Answer, world, IInv, Where
  <1>2. /\ content \in Seq(Bytes) /\ bytes \in Seq(Bytes)
        /\ looked \in Seq(Bytes) /\ Len(looked) \in Nat /\ Cap \in Nat
        /\ Len(content) \in Nat
    BY <1>1, FilesAreBytes
  <1>3. events' \in 0..MaxEvents /\ Promised' = Promised
    BY <1>1, PromisedStays DEF TypeOK
  <1>4. text \in Seq(Bytes) /\ Begins(text, bytes)
    BY <1>2, Decoded
  <1>5. ASSUME events = 0
        PROVE  /\ IsText(text) <=> Readable(content)
               /\ IsText(text) => Len(text) >= Cap \/ text = content
               /\ Begins(text, content) /\ looked = content
    <2>1. looked = content /\ bytes = Seen(content)
      BY <1>5, ReadToItsEnd
    <2>2. text = Decode(Seen(content), Len(content))
      BY <2>1
    <2>3. Begins(text, content)
      BY <1>2, <1>4, <2>1, SeenPart, BeginsTransitive
    <2> HIDE DEF text
    <2> QED
      BY <1>2, <2>1, <2>2, <2>3, DecodedReadable
  <1> HIDE DEF text
  <1>6. CASE ~IsText(text) /\ Fail("NotText")
    <2>1. /\ "NotText" \in DOMAIN MapError
          /\ MapError["NotText"] = "InvalidArgs"
      BY DEF MapError
    <2>2. events' = 0 => Promised = [Unanswered EXCEPT !.failure = "InvalidArgs"]
      BY <1>1, <1>5, <1>6, PromisedOfFile
    <2>3. answer' = [Unanswered EXCEPT !.failure = "InvalidArgs"]
      BY <1>6, <2>1 DEF Fail
    <2> QED
      BY <1>1, <1>3, <1>6, <2>1, <2>2, <2>3, FailIInv
  <1>7. CASE /\ IsText(text) /\ at' = "answered"
             /\ answer' = Present(text, Len(looked))
    <2>1. /\ kept \in Seq(Bytes) /\ Len(kept) <= Cap
          /\ IsText(kept) /\ Begins(kept, text)
      BY <1>2, <1>4, <1>7, TruncatedFits
    <2>2. answer' = [failure |-> NoFailure, kept |-> kept,
                     total |-> Len(looked), truncated |-> Len(kept) # Len(looked)]
      BY <1>7 DEF Present
    <2>3. Begins(kept, bytes)
      BY <1>2, <1>4, <2>1, BeginsTransitive
    <2>4. StillFileReadRight'
      <3>1. ASSUME events = 0
            PROVE  answer' = Promised
        <4> DEFINE longest == SubSeq(content, 1,
                                Max({n \in 0..Min({Cap, Len(content)}) :
                                       IsText(SubSeq(content, 1, n))}))
        <4>1. Readable(content) /\ looked = content
          BY <1>5, <1>7, <3>1
        <4>2. kept = longest
          BY <1>2, <1>4, <1>5, <1>7, <3>1, LongestKept
        <4>3. Promised = [failure |-> NoFailure, kept |-> longest,
                          total |-> Len(content),
                          truncated |-> longest # content]
          BY <1>1, <4>1, PromisedOfFile
        <4>4. Begins(kept, content)
          BY <1>2, <1>4, <1>5, <2>1, <3>1, BeginsTransitive
        <4>5. Len(kept) # Len(looked) <=> kept # content
          <5>1. Begins(content, content)
            BY DEF Begins
          <5> QED
            BY <1>2, <2>1, <4>1, <4>4, <5>1, SameBeginning
        <4> HIDE DEF kept, longest
        <4>6. (Len(kept) # Len(looked)) = (longest # content)
          BY <4>2, <4>5
        <4> QED
          BY <2>2, <4>1, <4>2, <4>3, <4>6
      <3> QED
        BY <1>1, <1>3, <3>1 DEF StillFileReadRight
    <2>5. (~rewritten /\ Len(kept) = Len(looked)) => kept = looked
      <3>1. ASSUME ~rewritten
            PROVE  Begins(kept, content) /\ Begins(looked, content)
        BY <1>1, <1>2, <2>1, <2>3, <3>1, BeginsTransitive DEF Reading
      <3> QED
        BY <1>2, <2>1, <3>1, SameBeginning
    <2> HIDE DEF kept
    <2>6. /\ answer'.failure = NoFailure /\ answer'.kept = kept
          /\ answer'.total = Len(looked) /\ answer'.truncated \in BOOLEAN
          /\ ~answer'.truncated => Len(kept) = Len(looked)
          /\ answer' \in Answers
      BY <1>2, <2>1, <2>2 DEF Answers
    <2>7. TypeOK' /\ answer' \in Answers
      BY <1>1, <1>7, <2>1, <2>6, <1>2 DEF TypeOK
    <2>8. Where' /\ Reading'
      BY <1>7 DEF Where, Reading
    <2>9. AnswerFits' /\ NoNoticeMeansWhole'
      BY <1>1, <2>1, <2>5, <2>6 DEF AnswerFits, NoNoticeMeansWhole
    <2> QED
      BY <2>4, <2>7, <2>8, <2>9 DEF IInv
  <1> QED
    BY <1>6, <1>7 DEF Answer, text

\* Steps of others that leave the call where it is, and have to do with it
\* only in what the file holds.
LEMMA WorldIInv ==
  ASSUME IInv, UNCHANGED <<path, at, looked, bytes, answer>>,
         at # "answered", TypeOK', Where', Reading'
  PROVE  IInv'
  <1>1. AnswerFits' /\ NoNoticeMeansWhole' /\ StillFileReadRight'
    BY DEF AnswerFits, NoNoticeMeansWhole, StillFileReadRight, GotText
  <1> QED
    BY <1>1 DEF IInv

LEMMA ReplaceIInv ==
  ASSUME IInv, Replace
  PROVE  IInv'
  <1>1. /\ UNCHANGED <<path, at, looked, bytes, answer, rewritten>>
        /\ at \in {"resolve", "open"} /\ TypeOK
        /\ entry' \in {"missing", "directory", "unreadable", "file"}
        /\ content' \in Contents /\ events' = events + 1 /\ events < MaxEvents
        /\ events \in Nat
    BY FilesAreBytes DEF Replace, IInv
  <1>2. TypeOK'
    BY <1>1, EventsAssumption DEF TypeOK, Entries
  <1>3. Where' /\ Reading'
    BY <1>1 DEF IInv, Where, Reading
  <1> QED
    BY <1>1, <1>2, <1>3, WorldIInv

LEMMA WriteIInv ==
  ASSUME IInv, Write
  PROVE  IInv'
  <1>1. /\ UNCHANGED <<path, entry, at, looked, bytes, answer>>
        /\ at \in {"look", "read"} /\ TypeOK /\ Reading /\ Where
        /\ content' \in Contents /\ events' = events + 1 /\ events < MaxEvents
        /\ rewritten' = (rewritten \/ (at = "read" /\ ~IsPrefix(content, content')))
    BY DEF Write, IInv
  <1>2. /\ content \in Seq(Bytes) /\ looked \in Seq(Bytes)
        /\ bytes \in Seq(Bytes) /\ content' \in Seq(Bytes) /\ events \in Nat
    BY <1>1, FilesAreBytes, ContentsAssumption
  <1>3. TypeOK'
    BY <1>1, <1>2, EventsAssumption DEF TypeOK
  <1>4. IsPrefix(content, content') => Begins(content, content')
    <2>1. SubSeq(content, 1, Len(content)) = content
      BY <1>2, SubSeqFull
    <2>2. Len(content) <= Len(content') => Len(content) \in 0..Len(content')
      BY <1>2
    <2> QED
      BY <1>2, <2>1, <2>2, Prefix DEF IsPrefix
  <1>5. ASSUME at = "read", ~rewritten'
        PROVE  Begins(looked, content') /\ Begins(bytes, content')
    <2>1. /\ Begins(looked, content) /\ Begins(bytes, content)
          /\ Begins(content, content')
      BY <1>1, <1>4, <1>5 DEF Reading
    <2> QED
      BY <1>2, <2>1, BeginsTransitive
  <1>6. Reading'
    <2>1. at' = "look" => bytes' = <<>> /\ ~rewritten'
      BY <1>1 DEF Reading
    <2>2. answer' = Unanswered /\ events' # 0
      BY <1>1, <1>2 DEF Reading
    <2>3. at' = "read" /\ ~rewritten' =>
            Begins(looked', content') /\ Begins(bytes', content')
      BY <1>1, <1>5
    <2> QED
      BY <1>1, <2>1, <2>2, <2>3 DEF Reading
  <1>7. Where'
    BY <1>1 DEF Where
  <1> QED
    BY <1>1, <1>3, <1>6, <1>7, WorldIInv

LEMMA DiskFailsIInv ==
  ASSUME IInv, DiskFails
  PROVE  IInv'
  <1>1. /\ Fail("Unreadable") /\ "Unreadable" \in DOMAIN MapError
        /\ UNCHANGED <<path, entry, content, looked, bytes, rewritten>>
        /\ events' = events + 1 /\ events < MaxEvents /\ events \in Nat
    BY FilesAreBytes DEF DiskFails, IInv, MapError
  <1>2. events' \in 0..MaxEvents /\ events' # 0
    BY <1>1, EventsAssumption
  <1> QED
    BY <1>1, <1>2, FailIInv

LEMMA InitIInv == Init => IInv
  <1> SUFFICES ASSUME Init PROVE IInv
    OBVIOUS
  <1>1. /\ at = "resolve" /\ bytes = <<>> /\ answer = Unanswered
        /\ events = 0 /\ rewritten = FALSE /\ looked = <<>>
        /\ path \in Paths /\ entry \in Entries /\ content \in Contents
    BY DEF Init
  <1>2. answer \in Answers
    BY <1>1, NothingIsRead DEF Answers, Unanswered
  <1>3. TypeOK
    <2>1. /\ answer.failure \in Failures \cup {NoFailure}
          /\ answer.kept \in Seq(Bytes) /\ answer.total \in Nat
          /\ answer.truncated \in BOOLEAN
      BY <1>2 DEF Answers
    <2>2. bytes \in Seq(Bytes) /\ Len(bytes) <= Limit
      BY <1>1, NothingIsRead, CapAssumption DEF Limit
    <2>3. events \in 0..MaxEvents
      BY <1>1, EventsAssumption
    <2> QED
      BY <1>1, <2>1, <2>2, <2>3 DEF TypeOK
  <1>4. Where /\ Reading
    BY <1>1 DEF Where, Reading
  <1>5. AnswerFits /\ NoNoticeMeansWhole /\ StillFileReadRight
    BY <1>1 DEF AnswerFits, NoNoticeMeansWhole, StillFileReadRight, GotText
  <1> QED
    BY <1>2, <1>3, <1>4, <1>5 DEF IInv

\* Every step of the call, of the disk and of those who write to the
\* repository keeps the invariant (read_capped, src/investigation/read_file.rs:107).
THEOREM Invariance == Spec => []IInv
  <1>1. IInv /\ [Next]_vars => IInv'
    <2> SUFFICES ASSUME IInv, [Next]_vars PROVE IInv'
      OBVIOUS
    <2>1. CASE Resolve
      BY <2>1, ResolveIInv
    <2>2. CASE Open
      BY <2>2, OpenIInv
    <2>3. CASE Look
      BY <2>3, LookIInv
    <2>4. CASE ReadSome
      BY <2>4, ReadSomeIInv
    <2>5. CASE Answer
      BY <2>5, AnswerIInv
    <2>6. CASE Replace
      BY <2>6, ReplaceIInv
    <2>7. CASE Write
      BY <2>7, WriteIInv
    <2>8. CASE DiskFails
      BY <2>8, DiskFailsIInv
    <2>9. CASE Answered \/ UNCHANGED vars
      <3>1. UNCHANGED vars
        BY <2>9 DEF Answered
      <3>2. TypeOK' /\ answer' \in Answers /\ Where' /\ Reading'
        BY <3>1 DEF vars, IInv, TypeOK, Where, Reading
      <3>3. Promised' = Promised
        BY <3>1, PromisedStays DEF vars
      <3>4. AnswerFits' /\ NoNoticeMeansWhole' /\ StillFileReadRight'
        BY <3>1, <3>3 DEF vars, IInv, AnswerFits, NoNoticeMeansWhole,
                          StillFileReadRight, GotText
      <3> QED
        BY <3>2, <3>4 DEF IInv
    <2> QED
      BY <2>1, <2>2, <2>3, <2>4, <2>5, <2>6, <2>7, <2>8, <2>9 DEF Next, Call
  <1> QED
    BY <1>1, InitIInv, PTL DEF Spec

\* The call keeps its types, and never holds more than one byte past the cap
\* (src/investigation/read_file.rs:105).
THEOREM TypeCorrect == Spec => []TypeOK
  BY Invariance, PTL DEF IInv

\* In a repository that stands still the model is given the longest text of
\* the file within the cap, and the truth about the rest, whatever chunks the
\* file is read in (src/investigation/read_file.rs:107).
THEOREM StillFile == Spec => []StillFileReadRight
  BY Invariance, PTL DEF IInv

\* Whatever is written to the file meanwhile, the model is given text within
\* the cap (src/investigation/read_file.rs:148, src/text.rs:2).
THEOREM AnswersFit == Spec => []AnswerFits
  BY Invariance, PTL DEF IInv

\* Without a notice the model has seen the whole file as it was at the look,
\* unless it was written over (src/investigation/read_file.rs:149).
THEOREM NoNoticeIsWhole == Spec => []NoNoticeMeansWhole
  BY Invariance, PTL DEF IInv
==============================================================================
