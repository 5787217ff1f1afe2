------------------------------ MODULE AppClient -----------------------------
(***************************************************************************)
(* The session of the Flutter app: the interceptor of                      *)
(* apps/app/lib/src/auth/api_client.dart, the notifier of                  *)
(* auth_provider.dart and the token storage, against a server that rotates *)
(* refresh tokens as Sessions does.                                        *)
(*                                                                         *)
(* Dart runs one callback at a time; a task gives way at each await.  A    *)
(* task is one call with everything the interceptor does for it, including *)
(* the logout that onSessionExpired starts and nobody awaits.  The two     *)
(* keys of the storage are written and deleted together, unless the app is *)
(* killed in between.  A pair stands for its access and its refresh token. *)
(***************************************************************************)
CONSTANTS
  Tasks,      \* calls under way at the same time
  Pairs,      \* token pairs the server may issue
  None

ASSUME NoneIsNoPair == None \notin Pairs

VARIABLES
  live, issued, stale,   \* server: refresh tokens live, pairs issued, access expired
  access, refresh,       \* token storage; survives the app
  status, current,       \* AuthNotifier: status and _currentRefreshToken
  pc, tok,               \* where each task stands, and the token it holds
  signedOff              \* history: tokens stored when a logout was served

server == <<live, issued, stale>>
store == <<access, refresh>>
memory == <<status, current>>
vars == <<live, issued, stale, access, refresh, status, current, pc, tok, signedOff>>

Maybe == Pairs \cup {None}
Steps == {"idle", "sent", "refused", "clear", "refresh_sent", "saving", "retry_sent",
          "expired", "logout", "logout_clear", "login_sent", "login_saving"}

TypeOK ==
  /\ live \subseteq issued /\ issued \subseteq Pairs /\ stale \subseteq issued
  /\ {access, refresh, current} \subseteq issued \cup {None}
  /\ status \in {"loading", "hydrating", "in", "out"}
  /\ pc \in [Tasks -> Steps]
  /\ tok \in [Tasks -> Maybe]
  /\ \A t \in Tasks : pc[t] \in {"refresh_sent", "saving", "login_saving"} => tok[t] \in issued

Init ==
  /\ live = {} /\ issued = {} /\ stale = {}
  /\ access = None /\ refresh = None
  /\ status = "loading" /\ current = None
  /\ pc = [t \in Tasks |-> "idle"]
  /\ tok = [t \in Tasks |-> None]
  /\ signedOff = {}

-----------------------------------------------------------------------------
Goto(t, step, k) ==
  /\ pc' = [pc EXCEPT ![t] = step]
  /\ tok' = [tok EXCEPT ![t] = k]
Save(p) == access' = p /\ refresh' = p
Clear == access' = None /\ refresh' = None

(* onRequest: the header carries the access token stored now.              *)
Send(t) ==
  /\ pc[t] = "idle"
  /\ Goto(t, "sent", access)
  /\ UNCHANGED <<server, store, memory, signedOff>>

(* The caller gets a response, or an error other than 401.                 *)
Answered(t) ==
  /\ pc[t] \in {"sent", "login_sent"}
  /\ Goto(t, "idle", None)
  /\ UNCHANGED <<server, store, memory, signedOff>>

(* 401: AuthUser without a valid access token, or login with credentials   *)
(* that do not match.                                                      *)
Refused(t) ==
  /\ \/ pc[t] = "sent" /\ tok[t] \in stale \cup {None}
     \/ pc[t] = "login_sent"
  /\ Goto(t, "refused", None)
  /\ UNCHANGED <<server, store, memory, signedOff>>

(* onError: without a refresh token the storage is cleared and the session *)
(* is not reported expired.                                                *)
ReadRefresh(t) ==
  /\ pc[t] = "refused"
  /\ Goto(t, IF refresh = None THEN "clear" ELSE "refresh_sent", refresh)
  /\ UNCHANGED <<server, store, memory, signedOff>>

ClearAfterError(t) ==
  /\ pc[t] = "clear"
  /\ Clear
  /\ Goto(t, "idle", None)
  /\ UNCHANGED <<server, memory, signedOff>>

-----------------------------------------------------------------------------
(* POST /auth/refresh: a live token is exchanged, and the answer may not   *)
(* come back; a spent one ends every session of the user.                  *)
Exchanged(t, p, arrives) ==
  /\ pc[t] = "refresh_sent" /\ tok[t] \in live
  /\ p \notin issued
  /\ issued' = issued \cup {p}
  /\ live' = (live \ {tok[t]}) \cup {p}
  /\ IF arrives THEN Goto(t, "saving", p) ELSE Goto(t, "expired", None)
  /\ UNCHANGED <<stale, store, memory, signedOff>>

RefusedAgain(t) ==        \* faulty: a 401 on the refresh is refreshed too
  /\ pc[t] = "refresh_sent" /\ tok[t] \notin live
  /\ live' = {}
  /\ Goto(t, "refused", None)
  /\ UNCHANGED <<issued, stale, store, memory, signedOff>>
RefreshRefused(t) ==
  /\ pc[t] = "refresh_sent" /\ tok[t] \notin live
  /\ live' = {}
  /\ Clear
  /\ Goto(t, "expired", None)
  /\ UNCHANGED <<issued, stale, memory, signedOff>>

(* No answer, a server error or an answer without its tokens: nothing was  *)
(* exchanged.                                                              *)
RefreshUnchecked(t) ==    \* faulty: what the answer lacks is saved all the same
  /\ pc[t] = "refresh_sent"
  /\ Goto(t, "saving", None)
  /\ UNCHANGED <<server, store, memory, signedOff>>
RefreshFails(t) ==
  /\ pc[t] = "refresh_sent"
  /\ Goto(t, "expired", None)
  /\ UNCHANGED <<server, store, memory, signedOff>>

SavePair(t) ==
  /\ pc[t] = "saving"
  /\ Save(tok[t])
  /\ Goto(t, "retry_sent", tok[t])
  /\ UNCHANGED <<server, memory, signedOff>>

RetryDone(t) ==
  /\ pc[t] = "retry_sent"
  /\ Goto(t, "idle", None)
  /\ UNCHANGED <<server, store, memory, signedOff>>

(* The retried call fails, for whatever reason: the catch is the same.     *)
RetryFails(t) ==
  /\ pc[t] = "retry_sent"
  /\ Goto(t, "expired", None)
  /\ UNCHANGED <<server, store, memory, signedOff>>

(* catch: the storage is cleared, onSessionExpired starts logout().        *)
ExpireQuietly(t) ==       \* faulty: onSessionExpired is not called
  /\ pc[t] = "expired"
  /\ Clear
  /\ Goto(t, "idle", None)
  /\ UNCHANGED <<server, memory, signedOff>>
Expire(t) ==
  /\ pc[t] = "expired"
  /\ Clear
  /\ Goto(t, IF current = None THEN "logout_clear" ELSE "logout", current)
  /\ UNCHANGED <<server, memory, signedOff>>

-----------------------------------------------------------------------------
(* AuthNotifier.logout, by the user                                        *)
UserLogout(t) ==
  /\ pc[t] = "idle" /\ status = "in"
  /\ Goto(t, IF current = None THEN "logout_clear" ELSE "logout", current)
  /\ UNCHANGED <<server, store, memory, signedOff>>

LogoutServed(t) ==
  /\ pc[t] = "logout"
  /\ live' = live \ {tok[t]}
  /\ signedOff' = signedOff \cup ({refresh} \ {None})
  /\ Goto(t, "logout_clear", None)
  /\ UNCHANGED <<issued, stale, store, memory>>

LogoutFails(t) ==
  /\ pc[t] = "logout"
  /\ Goto(t, "logout_clear", None)
  /\ UNCHANGED <<server, store, memory, signedOff>>

LogoutClear(t) ==
  /\ pc[t] = "logout_clear"
  /\ Clear
  /\ status' = "out" /\ current' = None
  /\ Goto(t, "idle", None)
  /\ UNCHANGED <<server, signedOff>>

(* login, register and signInWithGoogle                                    *)
Login(t) ==
  /\ pc[t] = "idle" /\ status = "out"
  /\ Goto(t, "login_sent", None)
  /\ UNCHANGED <<server, store, memory, signedOff>>

LoginServed(t, p) ==
  /\ pc[t] = "login_sent"
  /\ p \notin issued
  /\ issued' = issued \cup {p}
  /\ live' = live \cup {p}
  /\ Goto(t, "login_saving", p)
  /\ UNCHANGED <<stale, store, memory, signedOff>>

LoginSaved(t) ==
  /\ pc[t] = "login_saving"
  /\ Save(tok[t])
  /\ status' = "in" /\ current' = tok[t]
  /\ Goto(t, "idle", None)
  /\ UNCHANGED <<server, signedOff>>

(* _hydrate: the access token is read, then the refresh token.             *)
HydrateAccess ==
  /\ status = "loading"
  /\ status' = IF access = None THEN "out" ELSE "hydrating"
  /\ UNCHANGED <<server, store, current, pc, tok, signedOff>>

HydrateRefresh ==
  /\ status = "hydrating"
  /\ status' = "in" /\ current' = refresh
  /\ UNCHANGED <<server, store, pc, tok, signedOff>>

-----------------------------------------------------------------------------
(* The process is killed, perhaps between the two writes of a save, and    *)
(* started again.                                                          *)
Restart ==
  /\ status' = "loading" /\ current' = None
  /\ pc' = [t \in Tasks |-> "idle"]
  /\ tok' = [t \in Tasks |-> None]
  /\ UNCHANGED <<server, signedOff>>
Kill ==
  /\ Restart
  /\ UNCHANGED store
KillInSave(t) ==
  /\ pc[t] \in {"saving", "login_saving"}
  /\ \/ access' = tok[t] /\ UNCHANGED refresh
     \/ refresh' = tok[t] /\ UNCHANGED access
  /\ Restart

(* The server's side: an access token expires, or every session is revoked *)
(* elsewhere (a password reset, an operator).                              *)
AccessExpires(p) ==
  /\ p \in issued \ stale
  /\ stale' = stale \cup {p}
  /\ UNCHANGED <<live, issued, store, memory, pc, tok, signedOff>>

RevokedElsewhere ==
  /\ live # {}
  /\ live' = {}
  /\ UNCHANGED <<issued, stale, store, memory, pc, tok, signedOff>>

-----------------------------------------------------------------------------
(* What a task goes on to do by itself.                                    *)
Continue(t) ==
  \/ Answered(t) \/ Refused(t) \/ ReadRefresh(t) \/ ClearAfterError(t)
  \/ \E p \in Pairs, arrives \in BOOLEAN : Exchanged(t, p, arrives)
  \/ RefreshRefused(t) \/ RefreshFails(t) \/ SavePair(t)
  \/ RetryDone(t) \/ RetryFails(t) \/ Expire(t)
  \/ LogoutServed(t) \/ LogoutFails(t) \/ LogoutClear(t)
  \/ \E p \in Pairs : LoginServed(t, p)
  \/ LoginSaved(t)

Hydrate == HydrateAccess \/ HydrateRefresh

Next ==
  \/ \E t \in Tasks : Continue(t) \/ Send(t) \/ UserLogout(t) \/ Login(t) \/ KillInSave(t)
  \/ Hydrate \/ Kill \/ RevokedElsewhere
  \/ \E p \in Pairs : AccessExpires(p)

(* A call is answered or times out (connectTimeout, receiveTimeout), and   *)
(* the event loop runs what is ready.                                      *)
Spec == Init /\ [][Next]_vars /\ WF_vars(Hydrate) /\ \A t \in Tasks : WF_vars(Continue(t))
-----------------------------------------------------------------------------
(* No call hangs or retries for ever, whatever the server says to the      *)
(* call, to the refresh it starts and to its retry.                        *)
EveryCallEnds == \A t \in Tasks : pc[t] # "idle" ~> pc[t] = "idle"

(* When the interceptor gives a session up, the router gets to know it:    *)
(* the status leaves "in" (to "out", or by a restart of the app).          *)
ExpiredSignsOut ==
  \A t \in Tasks : pc[t] = "expired" ~> status \in {"out", "loading"}

(* What the design says of logout ("POST /logout ... revoca el refresh     *)
(* token"): once a logout has been served, the refresh token the app had   *)
(* stored is of no use.                                                    *)
LogoutRevokes == signedOff \cap live = {}
=============================================================================
