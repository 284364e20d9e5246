----------------------------- MODULE TopicPatterns -----------------------------
(***************************************************************************)
(* Which events a handler is called for: patternToRegex() of               *)
(* src/server/pubsub/Subscriber.ts, and what the broker makes of the same  *)
(* pattern when it routes.  Patterns and event names are sequences of      *)
(* words, the dots between them left out; "*" and "#" are the wildcards.   *)
(***************************************************************************)
EXTENDS Integers, Sequences

(* The text of a pattern or of a name, dots included. *)
Dotted(words) ==
  [i \in 1..(2 * Len(words) - 1) |-> IF i % 2 = 1 THEN words[(i + 1) \div 2] ELSE "."]

(* What replaces a piece of a pattern; the dots are escaped. *)
RegexOf(piece) ==
  CASE piece = "*" -> "[^.]+" [] piece = "#" -> ".*" [] OTHER -> piece

patternToRegex(pattern) ==
  [i \in DOMAIN Dotted(pattern) |-> RegexOf(Dotted(pattern)[i])]

(* Where a part of a text begins, and where each of n parts may end.       *)
From(end, i) == IF i = 1 THEN 0 ELSE end[i - 1]
Cuts(n, length) == [1..n -> 0..length]

(* A piece of the regex takes this much of the text. *)
Takes(piece, text, from, to) ==
  \/ piece = ".*" /\ from <= to
  \/ /\ to = from + 1
     /\ \/ piece = text[to]
        \/ piece = "[^.]+" /\ text[to] # "."

(* regex.test(): the text can be cut into parts its pieces take. *)
Test(regex, text) ==
  \E end \in Cuts(Len(regex), Len(text)) :
    /\ end[Len(regex)] = Len(text)
    /\ \A i \in 1..Len(regex) : Takes(regex[i], text, From(end, i), end[i])

(* The subscriber calls a handler with this pattern for this event. *)
Matches(pattern, eventName) == Test(patternToRegex(pattern), Dotted(eventName))

(* The broker routes this event to a queue bound with this pattern, if "*" *)
(* is one word and "#" this many words or more, which is 0 in AMQP.        *)
RoutesWith(pattern, eventName, least) ==
  \E end \in Cuts(Len(pattern), Len(eventName)) :
    /\ end[Len(pattern)] = Len(eventName)
    /\ \A i \in 1..Len(pattern) :
         IF pattern[i] = "#"
         THEN end[i] - From(end, i) >= least
         ELSE end[i] = From(end, i) + 1 /\ pattern[i] \in {"*", eventName[end[i]]}

(* Patterns and event names: at least one word, none of which is what the  *)
(* regex of this module has for a dot or a wildcard.                       *)
Text(word) == word \notin {".", "[^.]+", ".*"}
Texts == {words \in Seq(STRING) : words # << >> /\ \A i \in DOMAIN words : Text(words[i])}
=============================================================================
