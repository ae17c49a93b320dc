---------------------------- MODULE AndroidAccess ----------------------------
(***************************************************************************)
(* How the account is entered: web sessions, opened by a Google login in   *)
(* two transactions, and Android sessions, obtained by a binding request   *)
(* that a web session approves and whose code the app exchanges once.      *)
(***************************************************************************)
EXTENDS Subject

CONSTANTS Webs,            \* web sessions, one per login
          Bindings,        \* Android binding requests
          WebLife,         \* 7 days
          BindingLife,     \* 10 minutes
          CodeLife,        \* 60 seconds
          AndroidLife      \* 1 hour

ASSUME LivesAssumption == {WebLife, BindingLife, CodeLife, AndroidLife} \subseteq Nat

VARIABLES login,           \* each login, which takes two transactions
          web,             \* "AuthSession": when each session expires
          binding,         \* "AndroidBindingRequest"
          android,         \* "AndroidSession", the session of each binding
          exchanged        \* how often each binding's code was exchanged

accessVars == <<login, web, binding, android, exchanged>>

NoBinding == [status |-> "none", until |-> 0, codeUntil |-> 0, source |-> None]
NoAndroid == [until |-> None, source |-> None, revoked |-> FALSE]

Least(a, b) == IF a < b THEN a ELSE b

InitAccess ==
  /\ login = [s \in Webs |-> "none"]
  /\ web = [s \in Webs |-> None]
  /\ binding = [d \in Bindings |-> NoBinding]
  /\ android = [d \in Bindings |-> NoAndroid]
  /\ exchanged = [d \in Bindings |-> 0]

WebOpen(s) == Lasts(web[s])

(***************************************************************************)
(* loginWithGoogle: the user is found and updated, then, in a transaction  *)
(* of its own, the browser's previous session gives way to a new one.      *)
(***************************************************************************)
FindUser(s) ==
  /\ Plays(s) /\ MayWrite /\ login[s] = "none"
  /\ login' = [login EXCEPT ![s] = "found"]
  /\ UNCHANGED <<web, binding, android, exchanged, subjectVars>>

OpenSession(s, previous) ==
  /\ login[s] = "found"
  /\ login' = [login EXCEPT ![s] = "over"]
  /\ web' = IF MayWrite
            THEN [x \in Webs |-> IF x = s THEN now + WebLife
                                 ELSE IF x = previous THEN None ELSE web[x]]
            ELSE web
  /\ UNCHANGED <<binding, android, exchanged, subjectVars>>

Logout(s) ==
  /\ web[s] # None
  /\ web' = [web EXCEPT ![s] = None]
  /\ UNCHANGED <<login, binding, android, exchanged, subjectVars>>

(***************************************************************************)
(* The app asks for a binding; nobody owns it yet.                         *)
(***************************************************************************)
Bind(d) ==
  /\ Plays(d) /\ binding[d].status = "none" /\ exchanged[d] = 0
  /\ binding' = [binding EXCEPT ![d] = [NoBinding EXCEPT !.status = "started", !.until = now + BindingLife]]
  /\ UNCHANGED <<login, web, android, exchanged, subjectVars>>

(***************************************************************************)
(* The account's row and the web session are locked and looked at again.   *)
(***************************************************************************)
SourceHolds(s) == MayWrite /\ WebOpen(s)

Approve(d, s) ==
  /\ SourceHolds(s)
  /\ binding[d].status = "started" /\ binding[d].until > now
  /\ binding' = [binding EXCEPT ![d].status = "approved", ![d].source = s,
                                ![d].codeUntil = Least(binding[d].until, now + CodeLife)]
  /\ UNCHANGED <<login, web, android, exchanged, subjectVars>>

\* (mutant CodeReusable: consumedAt is not looked at)
CodeReusable(d) ==
  binding[d].status # "started" /\ binding[d].codeUntil > now /\ binding[d].until > now

CodeUsable(d) ==
  binding[d].status = "approved" /\ binding[d].codeUntil > now /\ binding[d].until > now

Exchange(d) ==
  /\ binding[d].source # None /\ SourceHolds(binding[d].source)
  /\ CodeUsable(d)
  /\ android' = [android EXCEPT ![d] = [until |-> Least(web[binding[d].source], now + AndroidLife),
                                        source |-> binding[d].source, revoked |-> FALSE]]
  /\ binding' = [binding EXCEPT ![d].status = "consumed"]
  /\ exchanged' = [exchanged EXCEPT ![d] = @ + 1]
  /\ UNCHANGED <<login, web, subjectVars>>

AndroidLogout(d) ==
  /\ android[d].until # None /\ ~android[d].revoked
  /\ android' = [android EXCEPT ![d].revoked = TRUE]
  /\ UNCHANGED <<login, web, binding, exchanged, subjectVars>>

(***************************************************************************)
(* SessionGuard and AndroidSessionGuard: who is let in.                    *)
(***************************************************************************)
WebAdmits(s) == WebOpen(s) /\ ~deleted
AndroidAdmits(d) ==
  /\ Lasts(android[d].until) /\ ~android[d].revoked
  /\ WebOpen(android[d].source) /\ ~deleted

NextAccess ==
  \/ \E s \in Webs : FindUser(s) \/ Logout(s)
  \/ \E s \in Webs, previous \in Webs \cup {None} : OpenSession(s, previous)
  \/ \E d \in Bindings : Bind(d) \/ Exchange(d) \/ AndroidLogout(d)
  \/ \E d \in Bindings, s \in Webs : Approve(d, s)
==============================================================================
