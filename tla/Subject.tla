------------------------------- MODULE Subject -------------------------------
(***************************************************************************)
(* The subject every part of an account's life refers to: its row in      *)
(* "User", marked deleted once and never unmarked, and the clock.  The     *)
(* guards below are the triggers of the account deletion migration: they  *)
(* decide what a write that arrives after the deletion may still do.       *)
(***************************************************************************)
EXTENDS Naturals, FiniteSets, Sequences

CONSTANTS Casts,      \* the sets of actors explored together (a bound)
          MaxTime,    \* where the clock stops (a bound)
          None        \* an SQL NULL

ASSUME CastsAssumption == Casts # {} /\ MaxTime \in Nat
ASSUME NullAssumption == None \notin Nat      \* a NULL is no moment

VARIABLES cast,       \* the actors of this behaviour: calls, rows, processes
          now,        \* the database's clock
          deleted     \* "deletedAt" is set

subjectVars == <<cast, now, deleted>>

Plays(actor) == actor \in cast

(***************************************************************************)
(* A lease, a cooldown or a session that has not run out yet.              *)
(***************************************************************************)
Lasts(until) == until # None /\ until > now

InitSubject == cast \in Casts /\ now = 0 /\ deleted = FALSE

(***************************************************************************)
(* guard_account_owned_write and lock_account_subject: a row owned by the  *)
(* account is not inserted or updated once the account is deleted.         *)
(***************************************************************************)
MayWrite == ~deleted

(***************************************************************************)
(* guard_account_financial_write: what a retained row keeps of a personal  *)
(* value, a checkout address or the owner of a usage record.               *)
(***************************************************************************)
Retained(value) == IF deleted THEN None ELSE value

(***************************************************************************)
(* The same trigger on a grant: it is stored revoked.                      *)
(***************************************************************************)
GrantStatus(status) == IF deleted THEN "REVOKED" ELSE status
==============================================================================
