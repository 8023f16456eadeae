----------------------------- MODULE Assistance -----------------------------
(***************************************************************************)
(* Synthetic training clips from Omaspeak (app/assisted.rs): the program is*)
(* installed if it is missing, each of a few voices is reviewed by ear, and*)
(* the clips of the approved ones are generated.  A command that is run to *)
(* its end, its time limit or a signal is one step with its outcome.       *)
(***************************************************************************)
EXTENDS Naturals

CONSTANTS
  Voice,      \* the voices at the three positions of the inventory
  MaxEdits    \* bound: the times a pronunciation is edited

VARIABLES
  aid,        \* where prepare or augment_with is
  release,    \* what there is of Omaspeak under ~/.local
  left,       \* the voices that are still to come
  voice,      \* the voice under review
  text,       \* its pronunciation, as the number of edits
  heard,      \* this preview has been played
  played,     \* what has been played in this enrollment
  clips       \* the additions: of which voice, text and class

assistanceVars == <<aid, release, left, voice, text, heard, played, clips>>

NoVoice == "none"

Unassisted ==
  /\ left = {} /\ voice = NoVoice /\ text = 0 /\ heard = FALSE /\ played = {} /\ clips = {}

AssistanceInit ==
  /\ aid = "off" /\ release \in {{}, {"destination", "launcher"}}
  /\ Unassisted

AidTo(from, to) == aid = from /\ aid' = to

Found == "launcher" \in release

-----------------------------------------------------------------------------
(* prepare *)

\* The user is asked for the download only if there is no omaspeak.
PrepareAid ==
  /\ \/ Found /\ AidTo("prepare", "ready")
     \/ ~Found /\ \E l \in {"human only", "cancelled", "fetched"} : AidTo("prepare", l)
  /\ UNCHANGED <<release, left, voice, text, heard, played, clips>>

\* The archive has its checksum and everything it must hold.
StageRelease ==
  /\ release = {}
  /\ AidTo("fetched", "staged") /\ release' = {"staging"}
  /\ UNCHANGED <<left, voice, text, heard, played, clips>>

\* The checksum or the contents are wrong, or something is where it would go.
ReleaseFails ==
  /\ AidTo("fetched", "cancelled")
  /\ UNCHANGED <<release, left, voice, text, heard, played, clips>>

PublishRelease ==
  /\ AidTo("staged", "published") /\ release' = (release \ {"staging"}) \cup {"destination"}
  /\ UNCHANGED <<left, voice, text, heard, played, clips>>

UnpublishedRelease ==
  /\ AidTo("staged", "cancelled") /\ release' = release \ {"staging"}
  /\ UNCHANGED <<left, voice, text, heard, played, clips>>

LinkRelease ==
  /\ AidTo("published", "ready") /\ release' = release \cup {"launcher"}
  /\ UNCHANGED <<left, voice, text, heard, played, clips>>

UnlinkedRelease ==
  /\ AidTo("published", "cancelled") /\ release' = release \ {"destination"}
  /\ UNCHANGED <<left, voice, text, heard, played, clips>>

-----------------------------------------------------------------------------
(* augment_with *)

\* The inventory is read and the texts are valid; or Omaspeak's own setup fails.
Inventory ==
  /\ \/ AidTo("augment", "next") /\ left' = Voice
     \/ AidTo("augment", "failed") /\ UNCHANGED left
  /\ UNCHANGED <<release, voice, text, heard, played, clips>>

NextVoice ==
  /\ AidTo("next", "preview")
  /\ \E v \in left : voice' = v /\ left' = left \ {v}
  /\ text' = 0 /\ heard' = FALSE
  /\ UNCHANGED <<release, played, clips>>

\* A slip: having heard the voice once is enough.
PreviewAgain ==
  /\ aid = "preview" /\ aid' \in {"review", "failed"}
  /\ UNCHANGED <<release, left, voice, text, heard, played, clips>>

\* A preview that fails is tried again after a setup, or the assistance ends.
Preview ==
  /\ aid = "preview" /\ aid' \in {"review", "failed"}
  /\ heard' = FALSE
  /\ UNCHANGED <<release, left, voice, text, played, clips>>

Play ==
  /\ \/ AidTo("review", "review") /\ heard' = TRUE /\ played' = played \cup {<<voice, text>>}
     \/ AidTo("review", "failed") /\ UNCHANGED <<heard, played>>
  /\ UNCHANGED <<release, left, voice, text, clips>>

\* "prior playback never authorizes an edited pronunciation"
Edit ==
  /\ text < MaxEdits
  /\ AidTo("review", "preview") /\ text' = text + 1
  /\ UNCHANGED <<release, left, voice, heard, played, clips>>

Decide ==
  /\ \/ heard /\ AidTo("review", "generate")
     \/ AidTo("review", "next")
  /\ UNCHANGED <<release, left, voice, text, heard, played, clips>>

\* The clips of one voice: those with more than one utterance are left out.
Generate ==
  /\ \/ /\ AidTo("generate", "next")
        /\ \E classes \in SUBSET {"wake phrase", "other speech"} :
             clips' = clips \cup {[voice |-> voice, text |-> text, class |-> c] : c \in classes}
     \/ AidTo("generate", "failed") /\ UNCHANGED clips
  /\ UNCHANGED <<release, left, voice, text, heard, played>>

Usable == {"wake phrase", "other speech"} \subseteq {c.class : c \in clips}

Augmented ==
  /\ left = {}
  /\ aid = "next" /\ aid' = IF Usable THEN "augmented" ELSE "failed"
  /\ UNCHANGED <<release, left, voice, text, heard, played, clips>>

AssistanceStep ==
  \/ PrepareAid \/ StageRelease \/ ReleaseFails \/ PublishRelease \/ UnpublishedRelease
  \/ LinkRelease \/ UnlinkedRelease
  \/ Inventory \/ NextVoice \/ Preview \/ Play \/ Edit \/ Decide \/ Generate \/ Augmented

-----------------------------------------------------------------------------
\* No clip reaches the training set whose pronunciation, as it was generated for
\* that very voice, has not been played to the user: not after an edit, for the
\* next voice, or after a failed preview (review_with, augment_with).
HeardApproved == \A c \in clips : <<c.voice, c.text>> \in played
=============================================================================
