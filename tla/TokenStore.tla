----------------------------- MODULE TokenStore -----------------------------
(***************************************************************************)
(* Jy.TokenService/VerifyTokenAppService.cs behind the middleware of       *)
(* Jy.TokenAuth: what the cache knows of a token.  A login writes two      *)
(* entries, one for the token and one for its user, which every login of   *)
(* the user shares; a logout writes the token's jti to a black list and    *)
(* removes the first entry.  Every entry lives as long as the signature    *)
(* is valid, but from its own write on.                                    *)
(*                                                                         *)
(* Each token is the outcome of one login.  Entries and signatures are     *)
(* countdowns, which TTick takes one off.                                  *)
(***************************************************************************)
EXTENDS Naturals

CONSTANTS
  Users, Tokens,
  UserOf,       \* UserOf[t]: who logs in for t
  RoleIds,      \* the sets of roles a user may have
  Tabs,         \* logouts of one token that may run together
  Expiration    \* _options.Expiration

ASSUME TokenConstants ==
  UserOf \in [Tokens -> Users] /\ Expiration \in Nat \ {0} /\ RoleIds # {}

VARIABLES
  roleIds,    \* roleIds[u]: the user's roles in the database
  login,      \* login[t]: how far GenerateToken and SaveToken have come
  claims,     \* claims[t]: the roles written into the token
  jwt,        \* jwt[t]: how long its signature is still valid
  tokenEntry, \* tokenEntry[t]: the life of the entry of the token
  userToken,  \* userToken[u]: the entry of the user, its life and its roles
  black,      \* black[t]: the life of the black-list entry of its jti
  logout,     \* logout[t][b]: where a call of BlackToken is
  loggedOut,  \* a call of BlackToken for t has answered
  check       \* check[t]: where a call of ValidateRole is, and whether t was
              \* logged out when it began

tVars == <<roleIds, login, claims, jwt, tokenEntry, userToken, black, logout,
           loggedOut, check>>

Life == 0..Expiration

TTypeOK ==
  /\ roleIds \in [Users -> RoleIds]
  /\ login \in [Tokens -> {"none", "checked", "saved", "issued", "failed"}]
  /\ claims \in [Tokens -> RoleIds]
  /\ jwt \in [Tokens -> Life] /\ tokenEntry \in [Tokens -> Life]
  /\ black \in [Tokens -> Life]
  /\ userToken \in [Users -> [life : Life, roles : RoleIds]]
  /\ logout \in [Tokens -> [Tabs -> {"idle", "found", "listed"}]]
  /\ loggedOut \in [Tokens -> BOOLEAN]
  /\ check \in [Tokens -> [at : {"idle", "unlisted", "matched"}, out : BOOLEAN]]

TInit ==
  /\ \E r \in RoleIds :
       /\ roleIds = [u \in Users |-> r] /\ claims = [t \in Tokens |-> r]
       /\ userToken = [u \in Users |-> [life |-> 0, roles |-> r]]
  /\ login = [t \in Tokens |-> "none"]
  /\ jwt = [t \in Tokens |-> 0] /\ tokenEntry = [t \in Tokens |-> 0]
  /\ black = [t \in Tokens |-> 0]
  /\ logout = [t \in Tokens |-> [b \in Tabs |-> "idle"]]
  /\ loggedOut = [t \in Tokens |-> FALSE]
  /\ check = [t \in Tokens |-> [at |-> "idle", out |-> FALSE]]

-----------------------------------------------------------------------------
(* A login.                                                                *)

\* CheckUser, and the token that is made of the user it finds.
CheckUser(t) ==
  /\ login[t] = "none"
  /\ login' = [login EXCEPT ![t] = "checked"]
  /\ claims' = [claims EXCEPT ![t] = roleIds[UserOf[t]]]
  /\ jwt' = [jwt EXCEPT ![t] = Expiration]
  /\ UNCHANGED <<roleIds, tokenEntry, userToken, black, logout, loggedOut, check>>

SaveTokenEntry(t) ==
  /\ login[t] = "checked"
  /\ login' = [login EXCEPT ![t] = "saved"]
  /\ tokenEntry' = [tokenEntry EXCEPT ![t] = Expiration]
  /\ UNCHANGED <<roleIds, claims, jwt, userToken, black, logout, loggedOut, check>>

SaveUserEntry(t) ==
  /\ login[t] = "saved"
  /\ login' = [login EXCEPT ![t] = "issued"]
  /\ userToken' = [userToken EXCEPT ![UserOf[t]] =
                     [life |-> Expiration, roles |-> claims[t]]]
  /\ UNCHANGED <<roleIds, claims, jwt, tokenEntry, black, logout, loggedOut, check>>

\* A write throws, though it may have been carried out; the token is not
\* handed out.
SaveThrows(t) ==
  /\ login[t] \in {"checked", "saved"}
  /\ login' = [login EXCEPT ![t] = "failed"]
  /\ \/ UNCHANGED <<tokenEntry, userToken>>
     \/ /\ login[t] = "checked"
        /\ tokenEntry' = [tokenEntry EXCEPT ![t] = Expiration]
        /\ UNCHANGED userToken
     \/ /\ login[t] = "saved"
        /\ userToken' = [userToken EXCEPT ![UserOf[t]] =
                           [life |-> Expiration, roles |-> claims[t]]]
        /\ UNCHANGED tokenEntry
  /\ UNCHANGED <<roleIds, claims, jwt, black, logout, loggedOut, check>>

ChangeRoles(u) ==
  /\ \E r \in RoleIds \ {roleIds[u]} : roleIds' = [roleIds EXCEPT ![u] = r]
  /\ UNCHANGED <<login, claims, jwt, tokenEntry, userToken, black, logout,
                 loggedOut, check>>

VerifyToken(t) == tokenEntry[t] > 0
VerifyBlackRecordsToken(t) == black[t] > 0

-----------------------------------------------------------------------------
(* A logout: the request carries a token whose signature is valid.         *)

\* BlackToken reads the entry; without one there is nothing to do.
FindToken(t, b) ==
  /\ login[t] = "issued" /\ jwt[t] > 0 /\ logout[t][b] = "idle"
  /\ \/ /\ VerifyToken(t)
        /\ logout' = [logout EXCEPT ![t][b] = "found"]
        /\ UNCHANGED loggedOut
     \/ /\ ~VerifyToken(t)
        /\ loggedOut' = [loggedOut EXCEPT ![t] = TRUE]
        /\ UNCHANGED logout
  /\ UNCHANGED <<roleIds, login, claims, jwt, tokenEntry, userToken, black, check>>

\* A slip: the entry goes before the jti is listed.
AddBlackRemovesFirst(t, b) ==
  /\ logout[t][b] = "found"
  /\ logout' = [logout EXCEPT ![t][b] = "listed"]
  /\ tokenEntry' = [tokenEntry EXCEPT ![t] = 0]
  /\ UNCHANGED <<roleIds, login, claims, jwt, userToken, black, loggedOut, check>>

AddBlack(t, b) ==
  /\ logout[t][b] = "found"
  /\ logout' = [logout EXCEPT ![t][b] = "listed"]
  /\ black' = [black EXCEPT ![t] = Expiration]
  /\ UNCHANGED <<roleIds, login, claims, jwt, tokenEntry, userToken, loggedOut,
                 check>>

RemoveToken(t, b) ==
  /\ logout[t][b] = "listed"
  /\ logout' = [logout EXCEPT ![t][b] = "idle"]
  /\ tokenEntry' = [tokenEntry EXCEPT ![t] = 0]
  /\ loggedOut' = [loggedOut EXCEPT ![t] = TRUE]
  /\ UNCHANGED <<roleIds, login, claims, jwt, userToken, black, check>>

LogoutThrows(t, b) ==
  /\ logout[t][b] # "idle"
  /\ logout' = [logout EXCEPT ![t][b] = "idle"]
  /\ \/ UNCHANGED <<tokenEntry, black>>
     \/ /\ logout[t][b] = "found" /\ UNCHANGED tokenEntry
        /\ black' = [black EXCEPT ![t] = Expiration]
     \/ /\ logout[t][b] = "listed" /\ UNCHANGED black
        /\ tokenEntry' = [tokenEntry EXCEPT ![t] = 0]
  /\ UNCHANGED <<roleIds, login, claims, jwt, userToken, loggedOut, check>>

-----------------------------------------------------------------------------
(* ValidateRole, asked by the web hosts for a token they found valid.      *)

CheckAt(t, at, out) == check' = [check EXCEPT ![t] = [at |-> at, out |-> out]]

VerifyBlack(t) ==
  /\ login[t] = "issued" /\ jwt[t] > 0 /\ check[t].at = "idle"
  /\ ~VerifyBlackRecordsToken(t) /\ CheckAt(t, "unlisted", loggedOut[t])
  /\ UNCHANGED <<roleIds, login, claims, jwt, tokenEntry, userToken, black,
                 logout, loggedOut>>

VerifyTokenRole(t) ==
  /\ check[t].at = "unlisted"
  /\ \/ /\ userToken[UserOf[t]].life > 0 /\ userToken[UserOf[t]].roles = claims[t]
        /\ CheckAt(t, "matched", check[t].out)
     \/ /\ ~(userToken[UserOf[t]].life > 0 /\ userToken[UserOf[t]].roles = claims[t])
        /\ CheckAt(t, "idle", FALSE)
  /\ UNCHANGED <<roleIds, login, claims, jwt, tokenEntry, userToken, black,
                 logout, loggedOut>>

\* Success, a refusal for the wrong page, or an exception: all end the call.
VerifyCurrActionRole(t) ==
  /\ check[t].at = "matched" /\ CheckAt(t, "idle", FALSE)
  /\ UNCHANGED <<roleIds, login, claims, jwt, tokenEntry, userToken, black,
                 logout, loggedOut>>

Less(n) == IF n = 0 THEN 0 ELSE n - 1

TTick ==
  /\ jwt' = [t \in Tokens |-> Less(jwt[t])]
  /\ tokenEntry' = [t \in Tokens |-> Less(tokenEntry[t])]
  /\ black' = [t \in Tokens |-> Less(black[t])]
  /\ userToken' = [u \in Users |-> [userToken[u] EXCEPT !.life = Less(@)]]
  /\ UNCHANGED <<roleIds, login, claims, logout, loggedOut, check>>

TNext ==
  \/ \E t \in Tokens :
       \/ CheckUser(t) \/ SaveTokenEntry(t) \/ SaveUserEntry(t) \/ SaveThrows(t)
       \/ VerifyBlack(t) \/ VerifyTokenRole(t) \/ VerifyCurrActionRole(t)
       \/ \E b \in Tabs : \/ FindToken(t, b) \/ AddBlack(t, b)
                          \/ RemoveToken(t, b) \/ LogoutThrows(t, b)
  \/ \E u \in Users : ChangeRoles(u)
  \/ TTick

TSpec == TInit /\ [][TNext]_tVars

-----------------------------------------------------------------------------
(* As long as its signature is valid, a token that was handed out has an   *)
(* entry of its user and, unless it is on the black list, one of its own;  *)
(* and from the answer to a logout on it is on that list, so that no check *)
(* which begins later passes it: whatever logins, failed logins, logouts   *)
(* in two tabs and checks do to the entries at the same time.              *)
TokensKeepTheirWorth ==
  /\ TTypeOK
  /\ \A t \in Tokens :
       /\ login[t] = "issued" /\ jwt[t] > 0 =>
            /\ userToken[UserOf[t]].life > 0
            /\ VerifyBlackRecordsToken(t) \/ VerifyToken(t)
            /\ loggedOut[t] => VerifyBlackRecordsToken(t)
       /\ check[t].at # "idle" => ~check[t].out
=============================================================================
