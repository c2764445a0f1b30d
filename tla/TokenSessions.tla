--------------------------- MODULE TokenSessions ---------------------------
(***************************************************************************)
(* Login, token refresh and logout: features/identity/shared/token_ops.rs  *)
(* over the key-value store, and the check that the authorization          *)
(* middleware makes on every protected request.                            *)
(*                                                                         *)
(* issue_tokens generates an access token with a jti and a refresh token;  *)
(* the pair is one element of Tokens here.  Three keys make a session:     *)
(* refresh (refresh token -> account), subject (account -> its refresh     *)
(* token) and jti (account -> the only accepted access token).  Every      *)
(* get, set_ex, take and del is a statement of its own and may fail, which *)
(* ends the request with what it has written so far; there is no           *)
(* transaction around them and no lock on the account.                     *)
(***************************************************************************)
EXTENDS Naturals

CONSTANTS
    Accounts,
    Tokens,     \* token pairs the generator produces, never the same twice
    Reqs,       \* requests in progress at a time
    Passwords,
    KvFaults    \* TRUE: a statement on the store or the bus may fail

None == "none"

ASSUME TokensAssumption ==
    /\ None \notin Tokens
    /\ None \notin Accounts
    /\ None \notin Passwords
    /\ KvFaults \in BOOLEAN

VARIABLES
    password,  \* accounts.password, None without a row
    refresh,   \* auth:account:refresh:<token>
    subject,   \* auth:account:subject_refresh:<account>
    jti,       \* auth:account:access_jti:<account>
    owner,     \* the account a pair was generated for, None before
    issued,    \* pairs whose three keys have been written
    spent,     \* refresh tokens that consume_refresh_token took
    ended,     \* pairs issued before a logout began that has completed
    refused,   \* accounts whose login failed although the password was right
    req        \* the request each process serves

store == <<refresh, subject, jti>>
history == <<owner, issued, spent, ended, refused>>
vars == <<password, store, history, req>>

\* Stages of issue_tokens, in order, then the event of a login.
Issuing == {"lookup", "drop", "put", "point", "bind"}
\* Stages of revoke_tokens.
Revoking == {"find", "forget", "unpoint", "unbind"}

Request ==
    [op: {"idle", "login", "refresh", "logout"},
     stage: Issuing \cup Revoking \cup {"take", "announce", None},
     acct: Accounts \cup {None},
     new: Tokens \cup {None},
     old: Tokens \cup {None},
     mine: SUBSET Tokens]

Idle == [op |-> "idle", stage |-> None, acct |-> None,
         new |-> None, old |-> None, mine |-> {}]

Init ==
    /\ password \in [Accounts -> Passwords]
    /\ refresh = [t \in Tokens |-> None]
    /\ subject = [a \in Accounts |-> None]
    /\ jti = [a \in Accounts |-> None]
    /\ owner = [t \in Tokens |-> None]
    /\ issued = {}
    /\ spent = {}
    /\ ended = {}
    /\ refused = {}
    /\ req = [r \in Reqs |-> Idle]

-----------------------------------------------------------------------------
Goto(r, s) == req' = [req EXCEPT ![r].stage = s]
Finish(r) == req' = [req EXCEPT ![r] = Idle]

\* account_login: the row is read by phone and the password verified.  The
\* other outcomes are in Refuse.
Login(r) ==
    /\ req[r].op = "idle"
    /\ \E a \in Accounts, w \in Passwords :
         /\ password[a] = w
         /\ req' = [req EXCEPT ![r] =
                      [Idle EXCEPT !.op = "login", !.stage = "lookup", !.acct = a]]
    /\ UNCHANGED <<password, store, history>>

\* A login with an unknown phone or a wrong password, a refresh with an
\* unknown token, a request whose access token is not accepted: all are
\* answered with an error and change nothing.
Refuse(r) == req[r].op = "idle" /\ UNCHANGED vars

\* Faulty form of Take: the token is read but stays in the store.
TakeAndKeep(r) ==
    /\ req[r].op = "idle"
    /\ \E t \in Tokens :
         /\ refresh[t] # None
         /\ spent' = spent \cup {t}
         /\ req' = [req EXCEPT ![r] = [Idle EXCEPT !.op = "refresh", !.stage = "lookup",
                                                    !.acct = refresh[t]]]
    /\ UNCHANGED <<password, store, owner, issued, ended, refused>>

\* account_refresh_token: consume_refresh_token is an atomic take.  Whether the account still exists is not looked at.
Take(r) ==
    /\ req[r].op = "idle"
    /\ \E t \in Tokens :
         /\ refresh[t] # None
         /\ refresh' = [refresh EXCEPT ![t] = None]
         /\ spent' = spent \cup {t}
         /\ req' = [req EXCEPT ![r] = [Idle EXCEPT !.op = "refresh", !.stage = "lookup",
                                                    !.acct = refresh[t]]]
    /\ UNCHANGED <<password, subject, jti, owner, issued, ended, refused>>

\* Faulty form of Lookup: the generator repeats itself.
LookupReuse(r) ==
    /\ req[r].stage = "lookup"
    /\ LET a == req[r].acct IN
       \E t \in Tokens :
         /\ owner[t] \in {None, a}
         /\ owner' = [owner EXCEPT ![t] = a]
         /\ req' = [req EXCEPT ![r].new = t, ![r].old = subject[a],
                               ![r].stage = IF subject[a] = None THEN "put" ELSE "drop"]
    /\ UNCHANGED <<password, store, issued, spent, ended, refused>>

\* issue_tokens: a fresh pair, and the account's current refresh token.
Lookup(r) ==
    /\ req[r].stage = "lookup"
    /\ LET a == req[r].acct IN
       \E t \in Tokens :
         /\ owner[t] = None
         /\ owner' = [owner EXCEPT ![t] = a]
         /\ req' = [req EXCEPT ![r].new = t, ![r].old = subject[a],
                               ![r].stage = IF subject[a] = None THEN "put" ELSE "drop"]
    /\ UNCHANGED <<password, store, issued, spent, ended, refused>>

\* issue_tokens: the access token cannot be encoded; no key is written yet.
EncodeError(r) ==
    /\ req[r].stage = "lookup"
    /\ Finish(r)
    /\ UNCHANGED <<password, store, history>>

\* issue_tokens: del of the old refresh token.
Drop(r) ==
    /\ req[r].stage = "drop"
    /\ refresh' = [refresh EXCEPT ![req[r].old] = None]
    /\ Goto(r, "put")
    /\ UNCHANGED <<password, subject, jti, history>>

Put(r) ==
    /\ req[r].stage = "put"
    /\ refresh' = [refresh EXCEPT ![req[r].new] = req[r].acct]
    /\ Goto(r, "point")
    /\ UNCHANGED <<password, subject, jti, history>>

Point(r) ==
    /\ req[r].stage = "point"
    /\ subject' = [subject EXCEPT ![req[r].acct] = req[r].new]
    /\ Goto(r, "bind")
    /\ UNCHANGED <<password, refresh, jti, history>>

\* The jti of the new access token replaces the previous one, which the
\* middleware then refuses.  A refresh answers with the pair; a login still
\* has an event to publish.
Bind(r) ==
    /\ req[r].stage = "bind"
    /\ jti' = [jti EXCEPT ![req[r].acct] = req[r].new]
    /\ issued' = issued \cup {req[r].new}
    /\ IF req[r].op = "login" THEN Goto(r, "announce") ELSE Finish(r)
    /\ UNCHANGED <<password, refresh, subject, owner, spent, ended, refused>>

\* publish_with_delay(AccountLoggedInEvent), after the tokens exist.
Announce(r) ==
    /\ req[r].stage = "announce"
    /\ Finish(r)
    /\ UNCHANGED <<password, store, history>>

-----------------------------------------------------------------------------
\* AuthVerifier::verify: the jti of the token must be the stored one.
Accepted(a, t) == jti[a] = t

\* account_logout runs behind the middleware: only an accepted access token
\* gets here.
Logout(r) ==
    /\ req[r].op = "idle"
    /\ \E a \in Accounts, t \in Tokens :
         /\ Accepted(a, t)
         /\ req' = [req EXCEPT ![r] =
                      [Idle EXCEPT !.op = "logout", !.stage = "find", !.acct = a,
                                   !.mine = {u \in issued : owner[u] = a}]]
    /\ UNCHANGED <<password, store, history>>

\* revoke_tokens: the account's refresh token, as the subject key names it.
Find(r) ==
    /\ req[r].stage = "find"
    /\ req' = [req EXCEPT ![r].old = subject[req[r].acct],
                          ![r].stage = IF subject[req[r].acct] = None
                                       THEN "unpoint" ELSE "forget"]
    /\ UNCHANGED <<password, store, history>>

\* Faulty form of Forget: the refresh token is left alone.
ForgetNothing(r) ==
    /\ req[r].stage = "forget"
    /\ Goto(r, "unpoint")
    /\ UNCHANGED <<password, store, history>>

Forget(r) ==
    /\ req[r].stage = "forget"
    /\ refresh' = [refresh EXCEPT ![req[r].old] = None]
    /\ Goto(r, "unpoint")
    /\ UNCHANGED <<password, subject, jti, history>>

Unpoint(r) ==
    /\ req[r].stage = "unpoint"
    /\ subject' = [subject EXCEPT ![req[r].acct] = None]
    /\ Goto(r, "unbind")
    /\ UNCHANGED <<password, refresh, jti, history>>

\* Faulty form of Unbind: the jti key is not deleted.
UnbindNothing(r) ==
    /\ req[r].stage = "unbind"
    /\ ended' = ended \cup req[r].mine
    /\ Finish(r)
    /\ UNCHANGED <<password, store, owner, issued, spent, refused>>

Unbind(r) ==
    /\ req[r].stage = "unbind"
    /\ jti' = [jti EXCEPT ![req[r].acct] = None]
    /\ ended' = ended \cup req[r].mine
    /\ Finish(r)
    /\ UNCHANGED <<password, refresh, subject, owner, issued, spent, refused>>

-----------------------------------------------------------------------------
\* A statement on the store or the bus fails, or the server stops: ? ends
\* the request and nothing is undone.
Fault(r) ==
    /\ KvFaults
    /\ req[r].op # "idle"
    /\ refused' = IF req[r].op = "login" THEN refused \cup {req[r].acct} ELSE refused
    /\ Finish(r)
    /\ UNCHANGED <<password, store, owner, issued, spent, ended>>

\* A key's TTL passes.  issue_tokens writes the refresh key before the
\* subject key with the same TTL, so the latter never goes first.
ExpireRefresh(t) ==
    /\ refresh[t] # None
    /\ refresh' = [refresh EXCEPT ![t] = None]
    /\ UNCHANGED <<password, subject, jti, history, req>>

ExpireSubject(a) ==
    /\ subject[a] # None
    /\ refresh[subject[a]] = None
    /\ subject' = [subject EXCEPT ![a] = None]
    /\ UNCHANGED <<password, refresh, jti, history, req>>

ExpireJti(a) ==
    /\ jti[a] # None
    /\ jti' = [jti EXCEPT ![a] = None]
    /\ UNCHANGED <<password, refresh, subject, history, req>>

\* The account endpoints change the password or delete the row; they do not
\* touch the store.
ChangeAccount(a) ==
    /\ password[a] # None
    /\ \E w \in Passwords \cup {None} : password' = [password EXCEPT ![a] = w]
    /\ UNCHANGED <<store, history, req>>

Step(r) ==
    \/ Login(r) \/ Take(r) \/ Refuse(r)
    \/ Lookup(r) \/ EncodeError(r)
    \/ Drop(r) \/ Put(r) \/ Point(r) \/ Bind(r) \/ Announce(r)
    \/ Logout(r) \/ Find(r) \/ Forget(r) \/ Unpoint(r) \/ Unbind(r)
    \/ Fault(r)

Next ==
    \/ \E r \in Reqs : Step(r)
    \/ \E t \in Tokens : ExpireRefresh(t)
    \/ \E a \in Accounts : ExpireSubject(a) \/ ExpireJti(a) \/ ChangeAccount(a)

Spec == Init /\ [][Next]_vars

-----------------------------------------------------------------------------
TypeOK ==
    /\ password \in [Accounts -> Passwords \cup {None}]
    /\ refresh \in [Tokens -> Accounts \cup {None}]
    /\ subject \in [Accounts -> Tokens \cup {None}]
    /\ jti \in [Accounts -> Tokens \cup {None}]
    /\ owner \in [Tokens -> Accounts \cup {None}]
    /\ issued \subseteq Tokens
    /\ spent \subseteq Tokens
    /\ ended \subseteq Tokens
    /\ refused \subseteq Accounts
    /\ req \in [Reqs -> Request]

\* "A consumed refresh token is invalid at once": it is never in the store
\* again, whatever other logins and refreshes do meanwhile.
SingleUse == \A t \in spent : refresh[t] = None

\* A refresh token and an accepted access token belong to the account they
\* were generated for, and to no other.
OwnTokens ==
    /\ \A t \in Tokens : refresh[t] \in {None, owner[t]}
    /\ \A a \in Accounts : jti[a] # None => owner[jti[a]] = a

\* Once a logout has completed, no access token that was issued before it
\* began is accepted, even if it races with logins, refreshes and faults.
LogoutRevokesAccess ==
    \A a \in Accounts, t \in ended : owner[t] = a => ~Accepted(a, t)

\* What the proofs of the above need: a pair that is being issued belongs to
\* one request, has not been answered and, until its refresh key is written,
\* cannot have been consumed.
Issues(r) == req[r].stage \in Issuing \ {"lookup"}

InFlight(r) ==
    /\ req[r].op # "idle" => req[r].acct \in Accounts
    /\ req[r].stage # None => req[r].op # "idle"
    /\ req[r].stage \in {"drop", "forget"} => req[r].old \in Tokens
    /\ \A t \in req[r].mine : t \in issued /\ owner[t] = req[r].acct
    /\ Issues(r) => /\ req[r].new \in Tokens \ issued
                    /\ owner[req[r].new] = req[r].acct
    /\ req[r].stage \in {"drop", "put"} => /\ req[r].new \notin spent
                                          /\ refresh[req[r].new] = None

PairsInFlight ==
    /\ \A r \in Reqs : InFlight(r)
    /\ \A q, r \in Reqs : Issues(q) /\ Issues(r) /\ req[q].new = req[r].new => q = r

Booked ==
    /\ \A t \in issued \cup spent : owner[t] # None
    /\ ended \subseteq issued

IInv == TypeOK /\ OwnTokens /\ PairsInFlight /\ Booked /\ SingleUse /\ LogoutRevokesAccess

\* revoke_tokens: "revoke all tokens of the user", the refresh tokens too.
LogoutRevokesRefresh == \A t \in ended : refresh[t] = None

\* issue_tokens: "a failing cache does not affect the login".
CacheNeverRefusesLogin == refused = {}
=============================================================================
