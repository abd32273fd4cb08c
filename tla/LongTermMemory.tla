---------------------------- MODULE LongTermMemory ----------------------------
(***************************************************************************)
(* The profile of one topic, rewritten after sessions end:                 *)
(* memory/long_term.py and the route that starts it.  An extraction reads  *)
(* the profile, awaits the rewriter and writes only over the revision it   *)
(* read; otherwise it reads again, attempts times.  What a profile knows   *)
(* is the set of extractions whose transcripts it was written from.        *)
(***************************************************************************)
EXTENDS Integers, FiniteSets

CONSTANTS
    Extraction,   \* requests to extract, of any session with the topic
    Attempts      \* attempts of extract

ASSUME ExtractionBounds == Attempts \in Nat \ {0}

VARIABLES
    profile,      \* the row: its revision (0: no row) and what it knows
    extraction    \* per request: where it is, and what it read

longTermVars == <<profile, extraction>>

Waiting == [at |-> "new", tries |-> 0, revision |-> 0, content |-> {}]

Status(e, s) == extraction' = [extraction EXCEPT ![e].at = s]

\* 404, 422, 501 and 409 (a turn of the session is running), before anything
\* is read; a turn that starts later is not in the transcript.
RefuseExtraction(e) == extraction[e].at = "new" /\ Status(e, "refused") /\ UNCHANGED profile

\* Another process may write between the reading and the writing.
ReadProfile(e) ==
    /\ extraction[e].at \in {"new", "again"}
    /\ extraction' = [extraction EXCEPT ![e] =
          [at |-> "rewriting", tries |-> @.tries + 1,
           revision |-> profile.revision, content |-> profile.content]]
    /\ UNCHANGED profile

RevisionUnchanged_OrNew(e) == profile.revision = extraction[e].revision \/ extraction[e].revision = 0

\* INSERT OR IGNORE if there was no row, else UPDATE ... WHERE revision = ?
RevisionUnchanged(e) == profile.revision = extraction[e].revision

WriteProfile(e) ==
    /\ extraction[e].at = "rewriting"
    /\ IF RevisionUnchanged(e)
       THEN /\ profile' = [revision |-> profile.revision + 1,
                           content  |-> extraction[e].content \cup {e}]
            /\ Status(e, "written")
       ELSE /\ Status(e, IF extraction[e].tries < Attempts THEN "again" ELSE "conflict")
            /\ UNCHANGED profile

\* The rewriter raises.
RewriterFails(e) == extraction[e].at = "rewriting" /\ Status(e, "failed") /\ UNCHANGED profile

LongTermInit ==
    /\ profile = [revision |-> 0, content |-> {}]
    /\ extraction = [e \in Extraction |-> Waiting]

LongTermNext ==
    \E e \in Extraction :
        RefuseExtraction(e) \/ ReadProfile(e) \/ WriteProfile(e) \/ RewriterFails(e)

LongTermSpec == LongTermInit /\ [][LongTermNext]_longTermVars

-----------------------------------------------------------------------------
LongTermTypeOK ==
    /\ profile.revision \in Nat /\ profile.content \subseteq Extraction
    /\ \A e \in Extraction : extraction[e].tries \in 0 .. Attempts

\* No extraction's lessons are lost to another that rewrote the profile at the
\* same time, also when it was the first for the topic; and one gives up only
\* when others have succeeded while it tried, once per attempt.
ProfileKeepsEveryExtraction ==
    \A e \in Extraction :
        /\ extraction[e].at = "written" => e \in profile.content
        /\ extraction[e].at = "conflict" => Cardinality(profile.content) >= Attempts
=============================================================================
