------------------------------ MODULE WordEdits ------------------------------
(***************************************************************************)
(* The wake words and engine profiles of the configuration under the       *)
(* commands that edit them: `word add', its relatives and `remove', the    *)
(* threshold and history of a trained word, the onboarding by spellings,   *)
(* and the activation of a trained head.  A command works on the           *)
(* configuration it has loaded and saves all or nothing of it (ConfigEdit);*)
(* the user edits the file by hand in between.                             *)
(***************************************************************************)
EXTENDS Naturals, Sequences, FiniteSets, SequencesExt, Functions

CONSTANTS
  Id,         \* the ids of wake words
  Variant,    \* phrases and aliases, as normalised
  Encoder,    \* the encoders for which heads can be trained
  MaxAliases, MaxWordEdits  \* bounds: the aliases of a word, the edits

Placement == {"cpu", "npu"}
\* A backend and a model; "asr" is one without an encoder.
Profile == [encoder : Encoder \cup {"asr"}, device : Placement]

\* The names of profiles: the reserved default, the user's own, and
\* managed_profile_id, a digest of the word, the contract and the profile.
Default == <<>>
Mine == <<"mine">>
ManagedProfileId(id, profile) == <<id, profile>>

VARIABLES
  words,      \* of the ids there are
  engines,    \* the named profiles
  standard,   \* backend and model at the top level
  subject,    \* the word the last command trained or onboarded
  byHand,     \* the words the user routed, or whose profile the user altered
  editor, edits

wordVars == <<words, engines, standard, subject, byHand, editor, edits>>

None == "none"
NewWord(phrase) ==
  [enabled |-> TRUE, phrase |-> phrase, aliases |-> <<>>, engine |-> Default,
   heads |-> {}, active |-> FALSE, tuned |-> FALSE]

\* Config::default
WordInit ==
  \E id \in Id, phrase \in Variant :
    /\ words = [i \in {id} |-> NewWord(phrase)] /\ engines = << >>
    /\ standard = [encoder |-> "asr", device |-> "cpu"]
    /\ subject = None /\ byHand = {} /\ editor = None /\ edits = 0

-----------------------------------------------------------------------------
Variants(word) == <<word.phrase>> \o word.aliases

\* validate_wake_words: no two variants of the enabled words are alike.
ValidateWakeWords(ws) ==
  LET spoken == {i \in DOMAIN ws : ws[i].enabled} IN
  /\ \A i \in spoken : IsInjective(Variants(ws[i]))
  /\ \A i, j \in spoken : i # j => Range(Variants(ws[i])) \cap Range(Variants(ws[j])) = {}

\* validate_engine_references
ValidateEngineReferences(ws, es) ==
  \A i \in DOMAIN ws : ws[i].engine \in {Default} \cup DOMAIN es

EngineProfile(name, es, top) == IF name = Default THEN top ELSE es[name]

\* active_engines with for_engine and plans: the groups of words that are loaded.
Plans(ws, es) ==
  LET Members(name, trained) ==
        {i \in DOMAIN ws : ws[i].enabled /\ ws[i].engine = name /\ ws[i].active = trained}
  IN {<<name, trained, Members(name, trained)>> : name \in {Default} \cup DOMAIN es, trained \in BOOLEAN}

\* Every command ends with validate_wake_words and save.
Saved(ws, es, who) ==
  /\ ValidateWakeWords(ws) /\ ValidateEngineReferences(ws, es)
  /\ words' = ws /\ engines' = es /\ editor' = who
  /\ edits < MaxWordEdits /\ edits' = edits + 1

\* A command that edits one word.
Edited(ws) ==
  /\ Saved(ws, engines, "word") /\ subject' = None
  /\ byHand' = byHand \cap DOMAIN ws /\ UNCHANGED standard

-----------------------------------------------------------------------------
(* wake_word_command, feedback::threshold, feedback::run *)

With(id, word) == [i \in DOMAIN words \cup {id} |-> IF i = id THEN word ELSE words[i]]

Add(id) ==
  /\ id \notin DOMAIN words
  /\ \E phrase \in Variant : Edited(With(id, NewWord(phrase)))

AddAlias(id) ==
  /\ id \in DOMAIN words /\ Len(words[id].aliases) < MaxAliases
  /\ \E alias \in Variant : Edited([words EXCEPT ![id].aliases = Append(@, alias)])

RemoveAlias(id) ==
  /\ id \in DOMAIN words
  /\ \E alias \in Range(words[id].aliases) :
       Edited([words EXCEPT ![id].aliases = SelectSeq(@, LAMBDA a : a # alias)])

\* remove_wake_word: another one must remain enabled.
RemoveWakeWord(id) ==
  /\ id \in DOMAIN words /\ \E i \in DOMAIN words \ {id} : words[i].enabled
  /\ Edited(Restrict(words, DOMAIN words \ {id}))

\* The threshold and the history of a word that has been trained.
Tune(id) ==
  /\ id \in DOMAIN words /\ words[id].heads # {}
  /\ \E tuned \in BOOLEAN : Edited([words EXCEPT ![id].tuned = tuned])

-----------------------------------------------------------------------------
(* onboarding::run *)

\* select_engine: transcripts recognise the word from now on.
SelectEngine(word, name) == [word EXCEPT !.engine = name, !.active = FALSE]

\* apply_aliases: what was accepted and is not known yet.
ApplyAliases(word, accepted) ==
  LET new == accepted \ Range(Variants(word)) IN
  [word EXCEPT !.aliases = @ \o SetToSeq(new)]

OnboardSpellings(id) ==
  \E phrase \in Variant, name \in {Default} \cup DOMAIN engines,
     accepted \in {{}} \cup {{v} : v \in Variant} :
    LET word == IF id \in DOMAIN words THEN words[id] ELSE NewWord(phrase) IN
    /\ Len(word.aliases) + Cardinality(accepted) <= MaxAliases
    /\ Saved(With(id, ApplyAliases(SelectEngine(word, name), accepted)), engines, "word")
    /\ subject' = id /\ byHand' = byHand \ {id} /\ UNCHANGED standard

-----------------------------------------------------------------------------
(* training::run_reviewed, once the head is installed; from `word train' or from *)
(* the guided onboarding, which may begin with a new word.                       *)

\* A slip: the name alone tells whose a profile is.
PruneByName(ws, es, id) ==
  Restrict(es, {n \in DOMAIN es : (\E i \in DOMAIN ws : ws[i].engine = n) \/ Head(n) # id})

\* prune_unused_enrollment_profiles: those no word uses, if they are still what the
\* training of this word made them.
PruneUnused(ws, es, id) ==
  Restrict(es, {n \in DOMAIN es : (\E i \in DOMAIN ws : ws[i].engine = n)
                  \/ ~\E c \in ws[id].heads : es[n].encoder = c /\ n = ManagedProfileId(id, es[n])})

\* The engine that is named, the word's own, or that of a new word.
Train(id) ==
  \E phrase \in Variant, name \in {Default} \cup DOMAIN engines, device \in Placement :
    LET word == IF id \in DOMAIN words THEN words[id] ELSE NewWord(phrase)
        profile == [EngineProfile(name, engines, standard) EXCEPT !.device = device]
        managed == ManagedProfileId(id, profile)
        ws == With(id, [word EXCEPT !.engine = managed, !.active = TRUE,
                                    !.heads = @ \cup {profile.encoder}])
        es == [n \in DOMAIN engines \cup {managed} |-> IF n = managed THEN profile ELSE engines[n]]
    IN /\ profile.encoder \in Encoder
       /\ Saved(ws, PruneUnused(ws, es, id), "word")
       /\ subject' = id /\ byHand' = byHand \ {id} /\ UNCHANGED standard

-----------------------------------------------------------------------------
\* A setup chooses another backend and model; the profiles stay.
SetupDefault ==
  \E profile \in Profile :
    /\ profile # standard /\ edits < MaxWordEdits /\ edits' = edits + 1
    /\ standard' = profile /\ editor' = "setup" /\ subject' = None
    /\ UNCHANGED <<words, engines, byHand>>

\* The file under the user's editor: a word is switched on or off or routed, a
\* profile is defined, altered or taken away.  What cannot be loaded is mended
\* before the next command.
ByHand(ws, es, whose) ==
  /\ ValidateEngineReferences(ws, es)
  /\ edits < MaxWordEdits /\ edits' = edits + 1
  /\ words' = ws /\ engines' = es /\ editor' = "user" /\ subject' = None
  /\ byHand' = byHand \cup whose /\ UNCHANGED standard

UserSwitches ==
  \E i \in DOMAIN words : ByHand([words EXCEPT ![i].enabled = ~@], engines, {})
UserRoutes ==
  \E i \in DOMAIN words, name \in {Default} \cup DOMAIN engines :
    name # words[i].engine /\ ByHand([words EXCEPT ![i].engine = name], engines, {i})
UserDefines ==
  \E name \in {Mine} \cup DOMAIN engines, profile \in Profile :
    ByHand(words, [n \in DOMAIN engines \cup {name} |-> IF n = name THEN profile ELSE engines[n]],
           {i \in DOMAIN words : words[i].engine = name})
UserDeletes ==
  \E name \in DOMAIN engines : ByHand(words, Restrict(engines, DOMAIN engines \ {name}), {})

WordStep ==
  \/ \E id \in Id : \/ Add(id) \/ AddAlias(id) \/ RemoveAlias(id) \/ RemoveWakeWord(id)
                    \/ Tune(id) \/ OnboardSpellings(id) \/ Train(id)
  \/ SetupDefault \/ UserSwitches \/ UserRoutes \/ UserDefines \/ UserDeletes

WordSpec == WordInit /\ [][WordStep]_wordVars

-----------------------------------------------------------------------------
\* "Changing the default backend later cannot silently reinterpret or deactivate this
\* word" (training.rs), nor can a command about another word: it goes on by the same
\* encoder, on the same device and with its head, or by spellings as before.  But for one
\* that onboarding has put on a profile that the user had altered, which the training of
\* the word it was made for sets right again.
RunsOn(i) == <<EngineProfile(words[i].engine, engines, standard), words[i].active, words[i].enabled>>
Altered(n) == n \in DOMAIN engines /\ \E id \in Id, profile \in Profile :
  n = ManagedProfileId(id, profile) /\ engines[n] # profile
Undisturbed ==
  \A i \in {j \in (DOMAIN words \cap DOMAIN words') \ byHand : ~Altered(words[j].engine)} :
    i # subject' /\ (words[i].engine # Default \/ editor' = "word") => RunsOn(i)' = RunsOn(i)

\* Whoever uses a trained head has one for the encoder it runs on.
HasHead == \A i \in DOMAIN words \ byHand :
  words[i].active => EngineProfile(words[i].engine, engines, standard).encoder \in words[i].heads

\* A command never silences the last wake word, leaves every enabled word in one group
\* of the detector, and deletes no profile but those that the word's own training made,
\* that nobody uses and that the user has not altered.
Listened(ws) == {i \in DOMAIN ws : ws[i].enabled}
Gone(n) == n \in DOMAIN engines \ DOMAIN engines'
KeepsWords ==
  /\ Listened(words) # {} => Listened(words') # {}
  /\ \A i \in Listened(words') : Cardinality({g \in Plans(words', engines') : i \in g[3]}) = 1
  /\ \A n \in DOMAIN engines :
       Gone(n) => n = ManagedProfileId(subject', engines[n]) /\ ~\E i \in DOMAIN words' : words'[i].engine = n

\* What the commands about one word keep of the others.
WordsKept == [][editor' \in {"word", "setup"} => Undisturbed /\ HasHead' /\ KeepsWords]_wordVars
=============================================================================
