---------------------------- MODULE PrivateContent ----------------------------
(***************************************************************************)
(* The private material of the account: words and phrases it imports from  *)
(* documents, confirms one by one against their source, and commits, and   *)
(* sentences it keeps from its checked reviews.  A row of a document is    *)
(* known by its content, so the same row of two documents is one candidate.*)
(* A confirmation may be withdrawn at any time, also after the commit.     *)
(***************************************************************************)
EXTENDS Subject, FiniteSetsExt

CONSTANTS Rows,            \* rows of documents, each standing for its fingerprint
          Phrases,         \* the rows that are phrases, not words
          Unsound,         \* the rows candidateProblems objects to
          Documents,       \* documents, each the set of its rows
          Kept             \* sentences of reviews: records [review, variant, savable]

ASSUME DocumentsAssumption == Documents \subseteq SUBSET Rows

VARIABLES import,          \* "ContentImport", by document
          candidate,       \* "ContentCandidate", by row
          entry,           \* the "VocabularyEntry" of each row, its status
          looked,          \* bookmark: rows found visible and not yet written
          bookmark,        \* "VocabularyBookmark"
          exposed,         \* "ContentExposure"
          expression,      \* "PersonalExpression"
          confirmed        \* rows whose last decision by the owner confirms them

contentVars == <<import, candidate, entry, looked, bookmark, exposed, expression, confirmed>>

Decisions == {"VALIDATED", "REJECTED", "PENDING"}

ASSUME DecisionsAssumption == None \notin Decisions      \* no entry is no decision

NoCandidate == [status |-> "none", document |-> None, linked |-> FALSE]

InitContent ==
  /\ import = [d \in Documents |-> "none"]
  /\ candidate = [r \in Rows |-> NoCandidate]
  /\ entry = [r \in Rows |-> None]
  /\ looked = {} /\ bookmark = {} /\ exposed = {} /\ expression = {} /\ confirmed = {}

Known(r) == candidate[r].status # "none"

(***************************************************************************)
(* preview: a document seen before is found again, and only the rows no    *)
(* earlier document brought become its candidates.                         *)
(***************************************************************************)
Preview(d) ==
  /\ Plays("reader") /\ MayWrite
  /\ import' = [import EXCEPT ![d] = IF @ = "none" THEN "PREVIEW" ELSE @]
  /\ candidate' = [r \in Rows |->
       IF r \in d /\ ~Known(r) THEN [NoCandidate EXCEPT !.status = "PENDING", !.document = d]
       ELSE candidate[r]]
  /\ UNCHANGED <<entry, looked, bookmark, exposed, expression, confirmed, subjectVars>>

(***************************************************************************)
(* validate, under the candidate's lock: what it decides of a candidate    *)
(* that was committed also holds for its vocabulary entry.  A row without  *)
(* candidateProblems may be confirmed once it is checked against its       *)
(* source.                                                                 *)
(***************************************************************************)
Sound(r) == r \notin Unsound

\* (mutant EntryStays: a withdrawal leaves the committed entry)
EntryStays(r, decision) == entry[r]
EntryFollows(r, decision) == IF candidate[r].linked THEN decision ELSE entry[r]

Validate(r, decision, checked) ==
  /\ MayWrite /\ Known(r)
  /\ decision = "VALIDATED" => checked /\ Sound(r)
  /\ candidate' = [candidate EXCEPT ![r].status = decision]
  /\ entry' = [entry EXCEPT ![r] = EntryFollows(r, decision)]
  /\ confirmed' = IF decision = "VALIDATED" THEN confirmed \cup {r} ELSE confirmed \ {r}
  /\ UNCHANGED <<import, looked, bookmark, exposed, expression, subjectVars>>

(***************************************************************************)
(* commit, under the locks of the document's candidates: every confirmed   *)
(* word becomes an entry, or its entry is confirmed again.                 *)
(***************************************************************************)
Committable(d) == {r \in Rows \ Phrases : candidate[r].document = d /\ candidate[r].status = "VALIDATED"}

Commit(d) ==
  /\ MayWrite /\ import[d] # "none"
  /\ import' = [import EXCEPT ![d] = "COMMITTED"]
  /\ entry' = [r \in Rows |-> IF r \in Committable(d) THEN "VALIDATED" ELSE entry[r]]
  /\ candidate' = [r \in Rows |-> IF r \in Committable(d) THEN [candidate[r] EXCEPT !.linked = TRUE]
                                  ELSE candidate[r]]
  /\ UNCHANGED <<looked, bookmark, exposed, expression, confirmed, subjectVars>>

(***************************************************************************)
(* What the account is offered: the visible entries of its words, and the  *)
(* phrases of a committed document.                                        *)
(***************************************************************************)
Visible(r) == entry[r] = "VALIDATED"
Offered(r) == /\ r \in Phrases /\ candidate[r].status = "VALIDATED"
              /\ import[candidate[r].document] = "COMMITTED"

(***************************************************************************)
(* bookmark looks the entry up and then writes; the list of bookmarks      *)
(* looks again.                                                            *)
(***************************************************************************)
LookUp(r) ==
  /\ MayWrite /\ Visible(r) /\ r \notin bookmark
  /\ looked' = looked \cup {r}
  /\ UNCHANGED <<import, candidate, entry, bookmark, exposed, expression, confirmed, subjectVars>>

Bookmark(r) ==
  /\ r \in looked
  /\ looked' = looked \ {r}
  /\ bookmark' = IF MayWrite THEN bookmark \cup {r} ELSE bookmark
  /\ UNCHANGED <<import, candidate, entry, exposed, expression, confirmed, subjectVars>>

RemoveBookmark(r) ==
  /\ r \in bookmark
  /\ bookmark' = bookmark \ {r}
  /\ UNCHANGED <<import, candidate, entry, looked, exposed, expression, confirmed, subjectVars>>

InBookmarks(r) == r \in bookmark /\ Visible(r)

(***************************************************************************)
(* recordExposure: a confirmed phrase counts also before its commit.       *)
(***************************************************************************)
RecordExposure(r) ==
  /\ MayWrite /\ r \notin exposed
  /\ Visible(r) \/ (r \in Phrases /\ candidate[r].status = "VALIDATED")
  /\ exposed' = exposed \cup {r}
  /\ UNCHANGED <<import, candidate, entry, looked, bookmark, expression, confirmed, subjectVars>>

(***************************************************************************)
(* ExpressionsService: an original sentence is kept when it was right, a   *)
(* correction or an alternative when it has the target and its readings.   *)
(***************************************************************************)
SaveExpression(x) ==
  /\ Plays("writer") /\ MayWrite /\ x.savable
  /\ expression' = expression \cup {x}
  /\ UNCHANGED <<import, candidate, entry, looked, bookmark, exposed, confirmed, subjectVars>>

RemoveExpression(x) ==
  /\ x \in expression
  /\ expression' = expression \ {x}
  /\ UNCHANGED <<import, candidate, entry, looked, bookmark, exposed, confirmed, subjectVars>>

NextContent ==
  \/ \E d \in Documents : Preview(d) \/ Commit(d)
  \/ \E r \in Rows, decision \in Decisions, checked \in BOOLEAN : Validate(r, decision, checked)
  \/ \E r \in Rows : LookUp(r) \/ Bookmark(r) \/ RemoveBookmark(r) \/ RecordExposure(r)
  \/ \E x \in Kept : SaveExpression(x) \/ RemoveExpression(x)
==============================================================================
