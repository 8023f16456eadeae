--------------------------- MODULE PhraseMatcher ---------------------------
(***************************************************************************)
(* The matching of a transcript to the configured phrases.  A character is *)
(* any value; a token, and a phrase with its word boundaries removed, is a *)
(* sequence of characters; a wake word is [id, enabled, variants], with    *)
(* the tokens of its phrase and of each alias.                             *)
(***************************************************************************)
EXTENDS Naturals, FiniteSets, Sequences

\* A variant's text does not depend on where its words are divided.
Canonical(tokens) ==
  LET text[n \in 0..Len(tokens)] == IF n = 0 THEN <<>> ELSE text[n - 1] \o tokens[n]
  IN text[Len(tokens)]

\* What compile makes of the enabled wake words, in their order.
Enabled(words) == {w \in DOMAIN words : words[w].enabled}
Phrases(words) ==
  UNION {{[id |-> words[w].id, canonical |-> Canonical(v), order |-> w] : v \in words[w].variants} :
           w \in Enabled(words)}

\* compile refuses two enabled words of one id, a variant without letters, two
\* variants of the same text, and having nothing to listen for.
Compiles(words) ==
  /\ Enabled(words) # {}
  /\ \A u, w \in Enabled(words) : words[u].id = words[w].id => u = w
  /\ \A w \in Enabled(words) : \A u, v \in words[w].variants :
       Canonical(v) # <<>> /\ (Canonical(u) = Canonical(v) => u = v)
  /\ \A p, q \in Phrases(words) : p.canonical = q.canonical => p = q

\* Whole tokens from start on, up to before end, that read as the phrase.
Candidates(words, transcript) ==
  {c \in [phrase : Phrases(words), start : DOMAIN transcript, end : 2..Len(transcript) + 1] :
     c.start < c.end /\ Canonical(SubSeq(transcript, c.start, c.end - 1)) = c.phrase.canonical}

\* Earlier starts go first, then longer phrases, then the configured order.
Before(c, d) ==
  LET key(e) == <<e.start, 1000 - Len(e.phrase.canonical), e.phrase.order>> IN
  \E i \in 1..3 : key(c)[i] < key(d)[i] /\ \A j \in 1..i - 1 : key(c)[j] = key(d)[j]

Overlap(c, d) == c.start < d.end /\ d.start < c.end

\* Slip: a phrase within another one is taken too.
LeftOutside(cs, c) == {d \in cs : d.phrase.id # c.phrase.id}

\* What may still be accepted once c has been.
Left(cs, c) == {d \in cs : d.phrase.id # c.phrase.id /\ ~Overlap(c, d)}

\* The candidates are gone through in order.
Matches(words, transcript) ==
  LET all == Candidates(words, transcript)
      accepted[cs \in SUBSET all] ==
        IF cs = {} THEN {}
        ELSE LET c == CHOOSE c \in cs : \A d \in cs \ {c} : Before(c, d)
             IN {c} \cup accepted[Left(cs, c)]
  IN accepted[all]

-----------------------------------------------------------------------------
\* What matches owes its caller, without saying how it is found or in which order:
\* each word at most once, no token to two words, and a phrase that is there goes
\* without its word only to one that shares a token with it, and takes no fewer
\* tokens where both begin together.
IsMatching(words, transcript, found) ==
  LET cs == Candidates(words, transcript)
  IN /\ found \subseteq cs
     /\ \A c, d \in found : c # d => c.phrase.id # d.phrase.id /\ ~Overlap(c, d)
     /\ \A c \in cs : (\A d \in found : d.phrase.id # c.phrase.id) =>
          \E d \in found : Overlap(c, d) /\ (d.start = c.start => d.end >= c.end)

\* What the comment on matches says of phrases that overlap: the one with more tokens
\* wins, the order of the configuration breaks a tie.
Tokens(c) == c.end - c.start
MoreTokensWin(words, transcript, found) ==
  \A c \in Candidates(words, transcript) : (\A d \in found : d.phrase.id # c.phrase.id) =>
    \E d \in found : /\ Overlap(c, d)
                     /\ \/ Tokens(d) > Tokens(c)
                        \/ Tokens(d) = Tokens(c) /\ d.phrase.order =< c.phrase.order
=============================================================================
