---------------------------- MODULE MCDetection ----------------------------
\* Wake words and transcripts over two characters: phrases that contain each
\* other, overlap, or are divided into words in another way.
EXTENDS Detection

CONSTANTS x, y

Word(id, variants) == [id |-> id, enabled |-> TRUE, variants |-> variants]
Off(word) == [word EXCEPT !.enabled = FALSE]

\* One configuration that compiles, and three that do not.
Some ==
  <<Word("one", {<<<<x>>, <<y>>>>, <<<<y, x>>>>}), Word("two", {<<<<x>>>>}),
    Off(Word("four", {<<<<y>>>>})), Word("three", {<<<<x, y>>, <<x>>>>})>>
MCWakeWords ==
  {Some, <<Off(Some[1])>>, Append(Some, Word("one", {<<<<y>>>>})), Append(Some, Word("four", {<<<<x>>, <<y, x>>>>}))}
MCTranscripts ==
  {<<<<x, y>>>>, <<<<x>>, <<y>>, <<x>>>>, <<<<y>>, <<x>>, <<x, y>>>>, <<<<x>>, <<y, x>>, <<y>>>>,
   <<<<y>>, <<y>>>>}

\* Two phrases that overlap and begin apart, the second one with more tokens.
Shifted == <<Word("short", {<<<<x>>, <<y>>>>}), Word("long", {<<<<y>>, <<y>>, <<y>>>>})>>
ShiftedWords == {Shifted}
ShiftedTranscripts == {<<<<x>>, <<y>>, <<y>>, <<y>>>>}
=============================================================================
