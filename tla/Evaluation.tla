----------------------------- MODULE Evaluation -----------------------------
(***************************************************************************)
(* `omawake evaluate` (evaluation.rs): a detector is run over the clips of *)
(* a manifest, its predictions are aligned with the expected events of each*)
(* clip, and the counts are summed, in total and for each wake word.       *)
(***************************************************************************)
EXTENDS Integers, Sequences, FiniteSets, FiniteSetsExt, SequencesExt

CONSTANTS
  EnabledWords, \* the wake words that are enabled
  Manifest,   \* the manifests to consider, each a sequence of clips
  Heard,      \* the predictions to consider for one clip
  Early, Late \* MatchingPolicy

Untimed == -1
Event == [keyword : STRING, start : Nat \cup {Untimed}, end : Nat \cup {Untimed}]
Prediction == [keyword : STRING, end : Nat]

ASSUME EvaluationAssumption ==
  /\ IsFiniteSet(EnabledWords) /\ Early \in Nat /\ Late \in Nat
  /\ \A m \in Manifest : m \in Seq([id : Nat, length : Nat, expected : Seq(Event)])
  /\ \A h \in Heard : h \in Seq(Prediction)

VARIABLES
  stage,      \* "manifest", "clips", "reported" or "failed"
  manifest,
  scores,     \* the FileReport of each clip that has been scored
  metrics     \* AccuracyMetrics, in total and by wake word

evaluationVars == <<stage, manifest, scores, metrics>>

EvaluationInit ==
  /\ stage = "manifest" /\ manifest \in Manifest /\ scores = <<>>
  /\ metrics = << >>

-----------------------------------------------------------------------------
\* validate_manifest, and the check of load_manifest against the audio.
ValidEvent(event, clip) ==
  /\ event.keyword \in EnabledWords
  /\ event.start = Untimed <=> event.end = Untimed
  /\ event.start <= event.end /\ event.end <= clip.length

InTimeOrder(events) ==
  \A i, j \in DOMAIN events :
    i < j /\ events[i].start # Untimed /\ events[j].start # Untimed =>
      events[i].start <= events[j].start

Valid(clips) ==
  /\ clips # <<>> /\ IsInjective([i \in DOMAIN clips |-> clips[i].id])
  /\ \A i \in DOMAIN clips :
       /\ \A k \in DOMAIN clips[i].expected : ValidEvent(clips[i].expected[k], clips[i])
       /\ InTimeOrder(clips[i].expected)

\* A prediction ends in the time that the policy gives an event.
InWindow(end, event) ==
  event.start = Untimed \/ (event.start - Early <= end /\ end <= event.end + Late)

Distance(end, event) ==
  IF event.end = Untimed THEN 0 ELSE IF end < event.end THEN event.end - end ELSE end - event.end

-----------------------------------------------------------------------------
\* The cells of the table: the pairs of the alignment, their cost, and whether
\* the last of them was put there by this cell.
Cell(pairs, cost, matched) == [pairs |-> pairs, cost |-> cost, matched |-> matched]
Empty == Cell({}, 0, FALSE)

Better(a, b) ==
  \/ Cardinality(a.pairs) > Cardinality(b.pairs)
  \/ /\ Cardinality(a.pairs) = Cardinality(b.pairs)
     /\ a.cost < b.cost \/ (a.cost = b.cost /\ a.matched /\ ~b.matched)

\* Those of a list that are of some words, and an order of them: by a key, equal ones
\* by their number.
Named(words, list) == {i \in DOMAIN list : list[i].keyword \in words}
Sorted(S, key) ==
  CHOOSE s \in SetToSeqs(S) : \A a, b \in DOMAIN s :
    a < b => key[s[a]] < key[s[b]] \/ (key[s[a]] = key[s[b]] /\ s[a] < s[b])

\* The events of a word in their order, its predictions by their end.
EventsOf(file, word) == Sorted(Named({word}, file.expected), [i \in DOMAIN file.expected |-> i])
EndsOf(file, word) ==
  Sorted(Named({word}, file.predictions), [j \in DOMAIN file.predictions |-> file.predictions[j].end])

\* A slip: the first event in whose window a prediction falls has it.
FirstInWindow(file, i, j, before, noEvent, noEnd) ==
  IF InWindow(file.predictions[j].end, file.expected[i])
    THEN Cell(before.pairs \cup {<<i, j>>}, 0, TRUE) ELSE noEvent

\* The best of leaving out the event, leaving out the prediction, and the pair of the two.
BestOf(file, i, j, before, noEvent, noEnd) ==
  LET skip == IF Better([noEnd EXCEPT !.matched = FALSE], [noEvent EXCEPT !.matched = FALSE])
                THEN [noEnd EXCEPT !.matched = FALSE] ELSE [noEvent EXCEPT !.matched = FALSE]
      pair == Cell(before.pairs \cup {<<i, j>>},
                   before.cost + Distance(file.predictions[j].end, file.expected[i]), TRUE)
  IN IF InWindow(file.predictions[j].end, file.expected[i]) /\ Better(pair, skip) THEN pair ELSE skip

AlignKeyword(file, word) ==
  LET events == EventsOf(file, word)
      ends   == EndsOf(file, word)
      cell[at \in (0 .. Len(events)) \X (0 .. Len(ends))] ==
        LET i == at[1]
            j == at[2]
        IN IF i = 0 \/ j = 0 THEN Empty
           ELSE BestOf(file, events[i], ends[j],
                       cell[<<i - 1, j - 1>>], cell[<<i - 1, j>>], cell[<<i, j - 1>>])
  IN cell[<<Len(events), Len(ends)>>].pairs

WordsOf(file) ==
  {file.expected[i].keyword : i \in DOMAIN file.expected}
    \cup {file.predictions[j].keyword : j \in DOMAIN file.predictions}

AlignEvents(file) == UNION {AlignKeyword(file, w) : w \in WordsOf(file)}

-----------------------------------------------------------------------------
\* score_file: what is not matched repeats a matched event, has the time of another
\* word's event, or neither.
ScoreFile(clip, predicted) ==
  LET expected == clip.expected
      pairs == AlignEvents([expected |-> expected, predictions |-> predicted])
      loose == DOMAIN predicted \ {p[2] : p \in pairs}
      repeats == {j \in loose : \E p \in pairs :
                    /\ expected[p[1]].keyword = predicted[j].keyword
                    /\ InWindow(predicted[j].end, expected[p[1]])}
      wrong == {j \in loose \ repeats : \E i \in DOMAIN expected :
                    /\ expected[i].keyword # predicted[j].keyword
                    /\ InWindow(predicted[j].end, expected[i])}
  IN [expected |-> expected, predictions |-> predicted, matches |-> pairs, wrong |-> wrong,
      repeats |-> repeats, fp |-> Cardinality(loose),
      fn |-> Cardinality(DOMAIN expected \ {p[1] : p \in pairs})]

SumOf(f) == MapThenSumSet(LAMBDA x : f[x], DOMAIN f)

\* What a report counts of some of its events and predictions.
Counted == {"expected", "predictions", "tp", "activations", "wrong", "repeats"}
Counts(file, events, predictions) ==
  [expected |-> Cardinality(events), predictions |-> Cardinality(predictions),
   tp |-> Cardinality({p \in file.matches : p[1] \in events}),
   activations |-> IF file.expected = <<>> THEN Cardinality(predictions) ELSE 0,
   wrong |-> Cardinality(file.wrong \cap predictions),
   repeats |-> Cardinality(file.repeats \cap predictions)]

CountAll(files) ==
  [c \in Counted |-> SumOf([n \in DOMAIN files |->
     Counts(files[n], DOMAIN files[n].expected, DOMAIN files[n].predictions)[c]])]
CountWord(files, word) ==
  [c \in Counted |-> SumOf([n \in DOMAIN files |->
     Counts(files[n], Named({word}, files[n].expected), Named({word}, files[n].predictions))[c]])]

\* The total sums what each file left over; a word's is subtracted afterwards.
BuildMetrics(files) ==
  LET words == EnabledWords \cup UNION {WordsOf(files[n]) : n \in DOMAIN files}
      Row(counts, p, n) == [counts |-> counts, fp |-> p, fn |-> n]
  IN [summary |-> Row(CountAll(files), SumOf([n \in DOMAIN files |-> files[n].fp]),
                      SumOf([n \in DOMAIN files |-> files[n].fn])),
      perKeyword |-> [w \in words |->
        LET t == CountWord(files, w) IN Row(t, t["predictions"] - t["tp"], t["expected"] - t["tp"])]]

-----------------------------------------------------------------------------
LoadManifest ==
  /\ stage = "manifest"
  /\ stage' = IF Valid(manifest) THEN "clips" ELSE "failed"
  /\ UNCHANGED <<manifest, scores, metrics>>

\* The detector cannot be loaded, fails on a clip, or returns times that run back.
Breaks ==
  /\ stage = "clips" /\ stage' = "failed"
  /\ UNCHANGED <<manifest, scores, metrics>>

Evaluate ==
  /\ stage = "clips" /\ Len(scores) < Len(manifest)
  /\ \E predicted \in Heard :
       scores' = Append(scores, ScoreFile(manifest[Len(scores) + 1], predicted))
  /\ UNCHANGED <<stage, manifest, metrics>>

Report ==
  /\ stage = "clips" /\ Len(scores) = Len(manifest)
  /\ stage' = "reported" /\ metrics' = BuildMetrics(scores)
  /\ UNCHANGED <<manifest, scores>>

EvaluationStep == LoadManifest \/ Breaks \/ Evaluate \/ Report

EvaluationSpec == EvaluationInit /\ [][EvaluationStep]_evaluationVars

-----------------------------------------------------------------------------
\* The alignments there are of one clip: each event and each prediction of a word once,
\* each prediction in the time of its event.
Alignments(file) ==
  LET possible == {p \in (DOMAIN file.expected) \X (DOMAIN file.predictions) :
        /\ file.expected[p[1]].keyword = file.predictions[p[2]].keyword
        /\ InWindow(file.predictions[p[2]].end, file.expected[p[1]])}
  IN {S \in SUBSET possible : \A p, q \in S : p[1] = q[1] <=> p[2] = q[2]}

Cost(file, pairs) ==
  SumOf([p \in pairs |-> Distance(file.predictions[p[2]].end, file.expected[p[1]])])

\* The windows of a word's events end in the order in which they begin, as they do
\* unless events of one word lie within each other or have no time.
Plain(expected) ==
  \A i, j \in DOMAIN expected :
    i < j /\ expected[i].keyword = expected[j].keyword =>
      (expected[i].start = Untimed <=> expected[j].start = Untimed) /\ expected[i].end <= expected[j].end

\* The table finds, for each clip, as many detections as any alignment could, and
\* of these one whose predictions are nearest (align_keyword); no match is counted
\* for two words or twice.
AlignmentBest ==
  \A n \in DOMAIN scores :
    LET f == scores[n] IN
    /\ f.matches \in Alignments(f)
    /\ Plain(f.expected) =>
         \A a \in Alignments(f) :
           ~Better(Cell(a, Cost(f, a), FALSE), Cell(f.matches, Cost(f, f.matches), FALSE))

\* The report adds up: the rows of the words give the total, though one is subtracted
\* and the other counted, and a wrong or repeated prediction is a false one, once.
ReportAddsUp ==
  stage = "reported" =>
    LET total == metrics.summary
        row == metrics.perKeyword
    IN /\ SumOf([w \in DOMAIN row |-> row[w].fp]) = total.fp
       /\ SumOf([w \in DOMAIN row |-> row[w].fn]) = total.fn
       /\ \A c \in Counted : SumOf([w \in DOMAIN row |-> row[w].counts[c]]) = total.counts[c]
       /\ \A w \in DOMAIN row :
            row[w].counts["wrong"] + row[w].counts["repeats"] <= row[w].fp /\ row[w].fn >= 0

\* What `evaluate' reports is what the clips give: the alignment is best, and the
\* counts add up.
ReportTrue == AlignmentBest /\ ReportAddsUp
=============================================================================
