-------------------------- MODULE TopicPatterns_proof --------------------------
(***************************************************************************)
(* For every pattern and every event name, the regex of patternToRegex()   *)
(* matches what the broker routes, "#" being one word or more.  A text cut *)
(* at its dots is a name cut between its words, and conversely: the dots   *)
(* of the regex take one character each, which is a dot of the text, so    *)
(* that every piece between them begins and ends with a word.              *)
(***************************************************************************)
EXTENDS TopicPatterns, TLAPS, SequenceTheorems

(* A function of 1..n is a sequence of that length. *)
LEMMA LengthOfFunction ==
  ASSUME NEW n \in Nat, NEW S, NEW f \in [1..n -> S]
  PROVE  Len(f) = n
<1>1. f \in Seq(S)
  BY SeqDef
<1>2. DOMAIN f = 1..Len(f) /\ Len(f) \in Nat
  BY <1>1, LenProperties
<1> QED
  BY <1>2

(* The places of n words and of the dots between them. *)
LEMMA OddOrEven ==
  ASSUME NEW n \in Nat, NEW i \in 1..(2 * n - 1)
  PROVE  \/ \E k \in 1..n : i = 2 * k - 1
         \/ \E k \in 1..(n - 1) : i = 2 * k
<1>1. CASE i % 2 = 1
  <2>1. (i + 1) \div 2 \in 1..n /\ i = 2 * ((i + 1) \div 2) - 1
    BY <1>1
  <2> QED
    BY <2>1
<1>2. CASE i % 2 = 0
  <2>1. i \div 2 \in 1..(n - 1) /\ i = 2 * (i \div 2)
    BY <1>2
  <2> QED
    BY <2>1
<1> QED
  BY <1>1, <1>2

(* A dotted text has its words at the odd places, its dots at the even. *)
LEMMA DottedText ==
  ASSUME NEW words \in Texts
  PROVE  /\ Len(words) \in Nat /\ Len(words) >= 1
         /\ DOMAIN Dotted(words) = 1..(2 * Len(words) - 1)
         /\ Len(Dotted(words)) = 2 * Len(words) - 1
         /\ \A k \in 1..Len(words) : Dotted(words)[2 * k - 1] = words[k]
         /\ \A k \in 1..(Len(words) - 1) : Dotted(words)[2 * k] = "."
<1> DEFINE n == Len(words)
<1>1. n \in Nat /\ n >= 1 /\ DOMAIN words = 1..n /\ words \in Seq(STRING)
  BY DEF Texts
<1>2. 2 * n - 1 \in Nat
  BY <1>1
<1>3. DOMAIN Dotted(words) = 1..(2 * n - 1)
  BY DEF Dotted
<1>4. ASSUME NEW k \in 1..n
      PROVE  Dotted(words)[2 * k - 1] = words[k]
  <2>1. 2 * k - 1 \in 1..(2 * n - 1)
    BY <1>1
  <2>2. (2 * k - 1) % 2 = 1 /\ (2 * k - 1 + 1) \div 2 = k
    OBVIOUS
  <2> QED
    BY <2>1, <2>2 DEF Dotted
<1>5. ASSUME NEW k \in 1..(n - 1)
      PROVE  Dotted(words)[2 * k] = "."
  <2>1. 2 * k \in 1..(2 * n - 1)
    BY <1>1
  <2>2. (2 * k) % 2 # 1
    OBVIOUS
  <2> QED
    BY <2>1, <2>2 DEF Dotted
<1>6. Dotted(words) \in [1..(2 * n - 1) -> {Dotted(words)[i] : i \in 1..(2 * n - 1)}]
  BY <1>3 DEF Dotted
<1>7. Len(Dotted(words)) = 2 * n - 1
  BY <1>2, <1>6, LengthOfFunction
<1> QED
  BY <1>1, <1>3, <1>4, <1>5, <1>7

(* So has its regex, with what stands for each word. *)
LEMMA RegexPieces ==
  ASSUME NEW pattern \in Texts
  PROVE  /\ Len(patternToRegex(pattern)) = 2 * Len(pattern) - 1
         /\ \A k \in 1..Len(pattern) :
              patternToRegex(pattern)[2 * k - 1] = RegexOf(pattern[k])
         /\ \A k \in 1..(Len(pattern) - 1) : patternToRegex(pattern)[2 * k] = "."
<1> DEFINE n == Len(pattern)
           R == patternToRegex(pattern)
           D == Dotted(pattern)
<1>1. /\ n \in Nat /\ n >= 1 /\ DOMAIN D = 1..(2 * n - 1)
      /\ \A k \in 1..n : D[2 * k - 1] = pattern[k]
      /\ \A k \in 1..(n - 1) : D[2 * k] = "."
  BY DottedText
<1>2. R = [i \in 1..(2 * n - 1) |-> RegexOf(D[i])]
  BY <1>1 DEF patternToRegex
<1>3. Len(R) = 2 * n - 1
  <2>1. R \in [1..(2 * n - 1) -> {RegexOf(D[i]) : i \in 1..(2 * n - 1)}]
    BY <1>2
  <2>2. 2 * n - 1 \in Nat
    BY <1>1
  <2> QED
    BY <2>1, <2>2, LengthOfFunction
<1>4. ASSUME NEW k \in 1..n
      PROVE  R[2 * k - 1] = RegexOf(pattern[k])
  <2>1. 2 * k - 1 \in 1..(2 * n - 1)
    BY <1>1
  <2> QED
    BY <2>1, <1>1, <1>2
<1>5. ASSUME NEW k \in 1..(n - 1)
      PROVE  R[2 * k] = "."
  <2>1. 2 * k \in 1..(2 * n - 1)
    BY <1>1
  <2>2. RegexOf(".") = "."
    BY DEF RegexOf
  <2> QED
    BY <2>1, <2>2, <1>1, <1>2
<1> QED
  BY <1>3, <1>4, <1>5

(* What a piece takes: a dot, any words, one word or that word. *)
LEMMA PieceTakes ==
  ASSUME NEW word, Text(word), NEW text, NEW from, NEW to
  PROVE  /\ Takes(".", text, from, to) <=> to = from + 1 /\ text[to] = "."
         /\ word = "#" =>
              (Takes(RegexOf(word), text, from, to) <=>
                 from <= to \/ (to = from + 1 /\ text[to] = ".*"))
         /\ word = "*" =>
              (Takes(RegexOf(word), text, from, to) <=>
                 to = from + 1 /\ text[to] # ".")
         /\ word \notin {"#", "*"} =>
              (Takes(RegexOf(word), text, from, to) <=>
                 to = from + 1 /\ text[to] = word)
<1>1. Takes(".", text, from, to) <=> to = from + 1 /\ text[to] = "."
  BY DEF Takes
<1>2. ASSUME word = "#"
      PROVE  Takes(RegexOf(word), text, from, to) <=>
               from <= to \/ (to = from + 1 /\ text[to] = ".*")
  BY <1>2 DEF Takes, RegexOf
<1>3. ASSUME word = "*"
      PROVE  Takes(RegexOf(word), text, from, to) <=> to = from + 1 /\ text[to] # "."
  BY <1>3 DEF Takes, RegexOf
<1>4. ASSUME word \notin {"#", "*"}
      PROVE  Takes(RegexOf(word), text, from, to) <=> to = from + 1 /\ text[to] = word
  <2>1. RegexOf(word) = word
    BY <1>4 DEF RegexOf
  <2> QED
    BY <2>1 DEF Takes, Text
<1> QED
  BY <1>1, <1>2, <1>3, <1>4

(* A dot of a text is at an even place, a word at an odd one. *)
LEMMA PlaceOfDot ==
  ASSUME NEW words \in Texts, NEW j \in 1..(2 * Len(words) - 1)
  PROVE  Dotted(words)[j] = "." <=> \E k \in 1..(Len(words) - 1) : j = 2 * k
<1> DEFINE n == Len(words)
<1>1. /\ n \in Nat /\ n >= 1 /\ DOMAIN words = 1..n
      /\ \A k \in 1..n : Dotted(words)[2 * k - 1] = words[k]
      /\ \A k \in 1..(n - 1) : Dotted(words)[2 * k] = "."
  BY DottedText, LenProperties DEF Texts
<1>2. CASE \E k \in 1..n : j = 2 * k - 1
  <2>1. PICK k \in 1..n : j = 2 * k - 1
    BY <1>2
  <2>2. Dotted(words)[j] # "."
    BY <2>1, <1>1 DEF Texts, Text
  <2>3. ~ \E l \in 1..(n - 1) : j = 2 * l
    BY <2>1, <1>1
  <2> QED
    BY <2>2, <2>3
<1>3. CASE \E k \in 1..(n - 1) : j = 2 * k
  BY <1>3, <1>1
<1> QED
  BY <1>1, <1>2, <1>3, OddOrEven

(* A text cut for the regex is a name cut for the broker. *)
LEMMA MatchedIsRouted ==
  ASSUME NEW pattern \in Texts, NEW name \in Texts, Matches(pattern, name)
  PROVE  RoutesWith(pattern, name, 1)
<1> DEFINE p == Len(pattern)
           n == Len(name)
           R == patternToRegex(pattern)
           D == Dotted(name)
<1>1. /\ p \in Nat /\ p >= 1 /\ n \in Nat /\ n >= 1
      /\ Len(R) = 2 * p - 1 /\ Len(D) = 2 * n - 1
      /\ DOMAIN pattern = 1..p /\ DOMAIN name = 1..n
  BY DottedText, RegexPieces, LenProperties DEF Texts
<1>n. p \in Int /\ n \in Int /\ p >= 1 /\ n >= 1
  BY <1>1
<1>2. PICK end \in [1..(2 * p - 1) -> 0..(2 * n - 1)] :
        /\ end[2 * p - 1] = 2 * n - 1
        /\ \A i \in 1..(2 * p - 1) : Takes(R[i], D, From(end, i), end[i])
  BY <1>1 DEF Matches, Test, Cuts
<1>r. /\ \A k \in 1..p : R[2 * k - 1] = RegexOf(pattern[k])
      /\ \A k \in 1..(p - 1) : R[2 * k] = "."
  BY RegexPieces
<1>d. /\ \A k \in 1..n : D[2 * k - 1] = name[k]
      /\ \A j \in 1..(2 * n - 1) : D[j] = "." <=> \E k \in 1..(n - 1) : j = 2 * k
  BY DottedText, PlaceOfDot
<1> HIDE DEF p, n, R, D
<1>3. ASSUME NEW k \in 1..(p - 1)
      PROVE  \E w \in 1..(n - 1) : end[2 * k] = 2 * w /\ end[2 * k - 1] = 2 * w - 1
  <2>1. 2 * k \in 1..(2 * p - 1) /\ 2 * k - 1 \in 1..(2 * p - 1) /\ 2 * k # 1
    BY <1>n
  <2>2. R[2 * k] = "."
    BY <1>r
  <2>3. end[2 * k] = end[2 * k - 1] + 1 /\ D[end[2 * k]] = "."
    BY <1>2, <2>1, <2>2 DEF Takes, From
  <2>4. end[2 * k] \in 1..(2 * n - 1) /\ end[2 * k - 1] \in 0..(2 * n - 1)
    BY <1>n, <1>2, <2>1, <2>3
  <2>5. PICK w \in 1..(n - 1) : end[2 * k] = 2 * w
    BY <2>3, <2>4, <1>d
  <2> QED
    BY <1>n, <2>3, <2>4, <2>5
<1>4. ASSUME NEW k \in 1..p
      PROVE  \E w \in 1..n : end[2 * k - 1] = 2 * w - 1
  <2>1. CASE k = p
    BY <2>1, <1>n, <1>2
  <2>2. CASE k # p
    <3>1. k \in 1..(p - 1)
      BY <2>2, <1>n
    <3>2. PICK w \in 1..(n - 1) : end[2 * k - 1] = 2 * w - 1
      BY <3>1, <1>3
    <3> QED
      BY <3>2, <1>n
  <2> QED
    BY <2>1, <2>2
<1> DEFINE cut == [k \in 1..p |-> CHOOSE w \in 1..n : end[2 * k - 1] = 2 * w - 1]
<1>5. ASSUME NEW k \in 1..p
      PROVE  cut[k] \in 1..n /\ end[2 * k - 1] = 2 * cut[k] - 1
  BY <1>4
<1>6. cut \in Cuts(p, n)
  <2>1. \A k \in 1..p : cut[k] \in 0..n
    BY <1>n, <1>5
  <2> QED
    BY <2>1 DEF Cuts
<1>7. cut[p] = n
  BY <1>n, <1>2, <1>5
<1> HIDE DEF cut
<1>8. ASSUME NEW k \in 1..p
      PROVE  /\ From(cut, k) \in 0..n
             /\ From(end, 2 * k - 1) = 2 * From(cut, k)
  <2>1. CASE k = 1
    BY <2>1, <1>n DEF From
  <2>2. CASE k # 1
    <3>1. k - 1 \in 1..(p - 1) /\ k - 1 \in 1..p
      BY <2>2, <1>n
    <3>2. PICK w \in 1..(n - 1) : /\ end[2 * (k - 1)] = 2 * w
                                 /\ end[2 * (k - 1) - 1] = 2 * w - 1
      BY <3>1, <1>3
    <3>3. cut[k - 1] = w
      <4>1. cut[k - 1] \in 1..n /\ end[2 * (k - 1) - 1] = 2 * cut[k - 1] - 1
        BY <3>1, <1>5
      <4>2. 2 * cut[k - 1] - 1 = 2 * w - 1
        BY <4>1, <3>2
      <4> QED
        BY <4>1, <4>2, <1>n
    <3>4. 2 * k - 1 # 1 /\ (2 * k - 1) - 1 = 2 * (k - 1)
      BY <2>2
    <3>5. From(end, 2 * k - 1) = end[2 * (k - 1)] /\ From(cut, k) = cut[k - 1]
      BY <2>2, <3>4 DEF From
    <3> QED
      BY <3>2, <3>3, <3>5, <1>n
  <2> QED
    BY <2>1, <2>2
<1>9. ASSUME NEW k \in 1..p
      PROVE  IF pattern[k] = "#"
             THEN cut[k] - From(cut, k) >= 1
             ELSE cut[k] = From(cut, k) + 1 /\ pattern[k] \in {"*", name[cut[k]]}
  <2> DEFINE word == pattern[k]
             from == From(end, 2 * k - 1)
             to == end[2 * k - 1]
  <2>1. 2 * k - 1 \in 1..(2 * p - 1)
    BY <1>n
  <2>2. Takes(RegexOf(word), D, from, to)
    BY <1>2, <2>1, <1>r
  <2>3. Text(word)
    BY <1>1 DEF Texts
  <2>4. /\ cut[k] \in 1..n /\ to = 2 * cut[k] - 1
        /\ From(cut, k) \in 0..n /\ from = 2 * From(cut, k)
    BY <1>5, <1>8
  <2>5. D[to] = name[cut[k]]
    BY <2>4, <1>d
  <2> HIDE DEF word, from, to
  <2>6. CASE word = "#"
    <3>1. from <= to \/ to = from + 1
      BY <2>2, <2>3, <2>6, PieceTakes
    <3> QED
      BY <3>1, <2>4, <2>6, <1>n DEF word
  <2>7. CASE word = "*"
    <3>1. to = from + 1
      BY <2>2, <2>3, <2>7, PieceTakes
    <3> QED
      BY <3>1, <2>4, <2>7, <1>n DEF word
  <2>8. CASE word \notin {"#", "*"}
    <3>1. to = from + 1 /\ D[to] = word
      BY <2>2, <2>3, <2>8, PieceTakes
    <3>2. cut[k] = From(cut, k) + 1
      BY <3>1, <2>4, <1>n
    <3>3. word = name[cut[k]]
      BY <3>1, <2>5
    <3> QED
      BY <3>2, <3>3, <2>8 DEF word
  <2> QED
    BY <2>6, <2>7, <2>8
<1> QED
  BY <1>6, <1>7, <1>9 DEF RoutesWith, p, n

(* A name cut for the broker is a text cut for the regex: a piece ends with *)
(* the word before the cut, the dot after it with the dot.                  *)
LEMMA RoutedIsMatched ==
  ASSUME NEW pattern \in Texts, NEW name \in Texts, RoutesWith(pattern, name, 1)
  PROVE  Matches(pattern, name)
<1> DEFINE p == Len(pattern)
           n == Len(name)
           R == patternToRegex(pattern)
           D == Dotted(name)
<1>1. /\ p \in Nat /\ p >= 1 /\ n \in Nat /\ n >= 1
      /\ Len(R) = 2 * p - 1 /\ Len(D) = 2 * n - 1
      /\ DOMAIN pattern = 1..p /\ DOMAIN name = 1..n
  BY DottedText, RegexPieces, LenProperties DEF Texts
<1>2. p \in Int /\ n \in Int /\ p >= 1 /\ n >= 1
  BY <1>1
<1>3. PICK cut \in [1..p -> 0..n] :
        /\ cut[p] = n
        /\ \A k \in 1..p :
             IF pattern[k] = "#"
             THEN cut[k] - From(cut, k) >= 1
             ELSE cut[k] = From(cut, k) + 1 /\ pattern[k] \in {"*", name[cut[k]]}
  BY DEF RoutesWith, Cuts
<1>4. /\ \A k \in 1..p : R[2 * k - 1] = RegexOf(pattern[k])
      /\ \A k \in 1..(p - 1) : R[2 * k] = "."
  BY RegexPieces
<1>5. /\ \A k \in 1..n : D[2 * k - 1] = name[k]
      /\ \A j \in 1..(2 * n - 1) : D[j] = "." <=> \E k \in 1..(n - 1) : j = 2 * k
  BY DottedText, PlaceOfDot
<1>6. \A k \in 1..p : Text(pattern[k])
  BY <1>1 DEF Texts
<1>7. Len(R) = 2 * p - 1 /\ Len(D) = 2 * n - 1
  BY <1>1
<1> HIDE DEF p, n, R, D
<1>8. ASSUME NEW k \in 1..p
      PROVE  /\ From(cut, k) \in 0..n
             /\ cut[k] \in 1..n
             /\ cut[k] >= From(cut, k) + 1
             /\ k = 1 => From(cut, k) = 0
             /\ k # 1 => k - 1 \in 1..(p - 1) /\ From(cut, k) = cut[k - 1]
  <2>1. /\ k = 1 => From(cut, k) = 0
        /\ k # 1 => k - 1 \in 1..(p - 1) /\ From(cut, k) = cut[k - 1]
    BY <1>2 DEF From
  <2>2. k # 1 => cut[k - 1] \in 0..n
    <3>1. k # 1 => k - 1 \in 1..p
      BY <1>2
    <3> QED
      BY <3>1
  <2>3. From(cut, k) \in 0..n
    BY <2>1, <2>2, <1>2
  <2>4. cut[k] \in 0..n
    OBVIOUS
  <2>5. cut[k] >= From(cut, k) + 1
    BY <1>3, <1>2, <2>3, <2>4
  <2> QED
    BY <2>1, <2>3, <2>4, <2>5, <1>2
<1>9. ASSUME NEW k \in 1..(p - 1)
      PROVE  cut[k] \in 1..(n - 1)
  <2>1. k + 1 \in 1..p /\ k \in 1..p /\ k + 1 # 1 /\ (k + 1) - 1 = k
    BY <1>2
  <2>2. cut[k + 1] \in 1..n /\ cut[k + 1] >= cut[k] + 1 /\ cut[k] \in 1..n
    BY <2>1, <1>8
  <2> QED
    BY <2>2, <1>2
<1> DEFINE end == [i \in 1..(2 * p - 1) |->
                     IF i % 2 = 1 THEN 2 * cut[(i + 1) \div 2] - 1 ELSE 2 * cut[i \div 2]]
<1>10. ASSUME NEW k \in 1..p
       PROVE  end[2 * k - 1] = 2 * cut[k] - 1
  <2>1. 2 * k - 1 \in 1..(2 * p - 1)
    BY <1>2
  <2>2. (2 * k - 1) % 2 = 1 /\ (2 * k - 1 + 1) \div 2 = k
    OBVIOUS
  <2> QED
    BY <2>1, <2>2
<1>11. ASSUME NEW k \in 1..(p - 1)
       PROVE  end[2 * k] = 2 * cut[k]
  <2>1. 2 * k \in 1..(2 * p - 1)
    BY <1>2
  <2>2. (2 * k) % 2 # 1 /\ (2 * k) \div 2 = k
    OBVIOUS
  <2> QED
    BY <2>1, <2>2
<1>12. DOMAIN end = 1..(2 * p - 1) /\ end = [i \in DOMAIN end |-> end[i]]
  OBVIOUS
<1> HIDE DEF end
<1>13. ASSUME NEW i \in 1..(2 * p - 1)
       PROVE  \/ \E k \in 1..p : i = 2 * k - 1
              \/ \E k \in 1..(p - 1) : i = 2 * k
  <2>1. p \in Nat
    BY <1>2
  <2> QED
    BY <2>1, OddOrEven
<1>14. ASSUME NEW i \in 1..(2 * p - 1)
       PROVE  end[i] \in 0..(2 * n - 1)
  <2>1. ASSUME NEW k \in 1..p, i = 2 * k - 1
        PROVE  end[i] \in 0..(2 * n - 1)
    <3>1. end[i] = 2 * cut[k] - 1
      BY <2>1, <1>10
    <3>2. cut[k] \in 1..n
      BY <1>8
    <3> QED
      BY <3>1, <3>2, <1>2
  <2>2. ASSUME NEW k \in 1..(p - 1), i = 2 * k
        PROVE  end[i] \in 0..(2 * n - 1)
    <3>1. end[i] = 2 * cut[k]
      BY <2>2, <1>11
    <3>2. cut[k] \in 1..(n - 1)
      BY <1>9
    <3> QED
      BY <3>1, <3>2, <1>2
  <2> QED
    BY <2>1, <2>2, <1>13
<1>15. end \in Cuts(2 * p - 1, 2 * n - 1)
  BY <1>12, <1>14 DEF Cuts
<1>16. end[2 * p - 1] = 2 * n - 1
  BY <1>10, <1>3, <1>2
<1>17. ASSUME NEW k \in 1..p
       PROVE  From(end, 2 * k - 1) = 2 * From(cut, k)
  <2>1. CASE k = 1
    BY <2>1, <1>8 DEF From
  <2>2. CASE k # 1
    <3>1. 2 * k - 1 # 1 /\ (2 * k - 1) - 1 = 2 * (k - 1)
      BY <2>2
    <3>2. k - 1 \in 1..(p - 1) /\ From(cut, k) = cut[k - 1]
      BY <2>2, <1>8
    <3>3. end[2 * (k - 1)] = 2 * cut[k - 1]
      BY <3>2, <1>11
    <3> QED
      BY <3>1, <3>2, <3>3 DEF From
  <2> QED
    BY <2>1, <2>2
<1>18. ASSUME NEW k \in 1..(p - 1)
       PROVE  Takes(R[2 * k], D, From(end, 2 * k), end[2 * k])
  <2>1. k \in 1..p /\ 2 * k # 1
    BY <1>2
  <2>2. From(end, 2 * k) = 2 * cut[k] - 1 /\ end[2 * k] = 2 * cut[k]
    BY <2>1, <1>10, <1>11 DEF From
  <2>3. D[2 * cut[k]] = "."
    <3>1. cut[k] \in 1..(n - 1) /\ 2 * cut[k] \in 1..(2 * n - 1)
      BY <1>9, <1>2
    <3> QED
      BY <3>1, <1>5
  <2>4. cut[k] \in Int
    BY <1>9
  <2> QED
    BY <2>2, <2>3, <2>4, <1>4 DEF Takes
<1>19. ASSUME NEW k \in 1..p
       PROVE  Takes(R[2 * k - 1], D, From(end, 2 * k - 1), end[2 * k - 1])
  <2> DEFINE word == pattern[k]
             from == 2 * From(cut, k)
             to == 2 * cut[k] - 1
  <2>1. From(end, 2 * k - 1) = from /\ end[2 * k - 1] = to /\ R[2 * k - 1] = RegexOf(word)
    BY <1>4, <1>10, <1>17
  <2>2. From(cut, k) \in 0..n /\ cut[k] \in 1..n /\ cut[k] >= From(cut, k) + 1
    BY <1>8
  <2>3. D[to] = name[cut[k]]
    BY <2>2, <1>5
  <2>4. D[to] # "."
    <3>1. to \in 1..(2 * n - 1) /\ ~ \E l \in 1..(n - 1) : to = 2 * l
      BY <2>2, <1>2
    <3> QED
      BY <3>1, <1>5
  <2>5. /\ word = "#" => from <= to
        /\ word # "#" => to = from + 1 /\ word \in {"*", name[cut[k]]}
    BY <1>3, <2>2
  <2>6. Text(word)
    BY <1>6
  <2> HIDE DEF word, from, to
  <2>7. CASE word = "#"
    BY <2>1, <2>5, <2>6, <2>7, PieceTakes
  <2>8. CASE word = "*"
    BY <2>1, <2>4, <2>5, <2>6, <2>8, PieceTakes
  <2>9. CASE word \notin {"#", "*"}
    BY <2>1, <2>3, <2>5, <2>6, <2>9, PieceTakes
  <2> QED
    BY <2>7, <2>8, <2>9
<1>20. \A i \in 1..(2 * p - 1) : Takes(R[i], D, From(end, i), end[i])
  BY <1>13, <1>18, <1>19
<1> QED
  BY <1>7, <1>15, <1>16, <1>20 DEF Matches, Test, R, D

(* A handler is called for the events that the broker routes for its       *)
(* pattern, "#" being one word or more: patternToRegex() and the broker's  *)
(* matching agree on every pattern and every event name.                   *)
THEOREM MatchesWhatIsRouted ==
  ASSUME NEW pattern \in Texts, NEW name \in Texts
  PROVE  Matches(pattern, name) <=> RoutesWith(pattern, name, 1)
BY MatchedIsRouted, RoutedIsMatched

================================================================================
