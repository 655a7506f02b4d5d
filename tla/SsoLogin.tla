-------------------------------- MODULE SsoLogin --------------------------------
(* Accounts, and the roles a login gives: a person who logs in through a provider is      *)
(* found again or gets an account, and the bindings that the provider's mappings made     *)
(* for the account are brought in line with the groups of this login (sso_service.py).    *)
(* Administrators edit mappings and bindings meanwhile (endpoints/iam.py).                *)
EXTENDS Naturals, FiniteSets, UnitOfWork

CONSTANTS
    Accounts,       \* bound: rows of users
    OidcProviders,
    LdapProviders,
    Subjects,       \* whom a provider knows
    Uids,           \* enterprise identifiers that claims may carry
    Groups,         \* values of the claim that mappings look at
    Grants,         \* a role with the namespace or unit it is given for
    BindingIds,     \* bound: rows of role_bindings
    LoginSlots      \* bound: requests at the same time

Providers == OidcProviders \cup LdapProviders
People == Providers \X Subjects
NoAccount == 0
NoPerson == <<>>
Generated == 1        \* an identifier that no claim carries
NoUid == 0
Hand == "hand"        \* where a provider stands in bindings: an administrator

ASSUME SsoAssumption == /\ Accounts \subseteq Nat \ {NoAccount} /\ IsFiniteSet(Accounts)
                        /\ BindingIds \subseteq Nat /\ IsFiniteSet(BindingIds)
                        /\ Grants \subseteq Nat /\ IsFiniteSet(Grants)
                        /\ OidcProviders \cap LdapProviders = {} /\ Hand \notin Providers

VARIABLES
    account,     \* [Accounts -> Account]
    link,        \* [People -> {NoAccount} \cup Accounts]: identity_links
    mappings,    \* the enabled role mappings
    binding,     \* [BindingIds -> Binding]
    loginReq,    \* [LoginSlots -> LoginRequest]: handlers whose transaction has not ended
    claimed,     \* history: what the last login of an account through a provider claimed
    byHand,      \* history: the bindings administrators have made and not removed
    loginMixed   \* history: whether two requests were ever served at once

ssoVars == <<account, link, mappings, binding, loginReq, claimed, byHand, loginMixed>>

Account == [there : BOOLEAN, uid : {NoUid, Generated} \cup Uids, person : {NoPerson} \cup People,
            active : BOOLEAN, admin : BOOLEAN]
NotThere == [there |-> FALSE, uid |-> NoUid, person |-> NoPerson, active |-> FALSE, admin |-> FALSE]
Mapping == [provider : Providers, group : Groups, grant : Grants]

\* by is the provider in the permission cache, or Hand.
Binding == [there : BOOLEAN, user : {NoAccount} \cup Accounts, grant : {0} \cup Grants,
            by : {Hand} \cup Providers]
NoBinding == [there |-> FALSE, user |-> NoAccount, grant |-> 0, by |-> Hand]

NoLogin == [busy |-> FALSE, by |-> NoPerson, user |-> NoAccount, desired |-> {}, acc |-> <<>>, acc2 |-> <<>>,
            bind |-> <<>>, bind2 |-> <<>>]

SsoTypeOK ==
    /\ account \in [Accounts -> Account]
    /\ link \in [People -> {NoAccount} \cup Accounts]
    /\ mappings \subseteq Mapping
    /\ binding \in [BindingIds -> Binding]
    /\ \A s \in LoginSlots : loginReq[s].busy => /\ loginReq[s].acc2 \in [Accounts -> Account]
                                                 /\ loginReq[s].bind2 \in [BindingIds -> Binding]
    /\ claimed \in [Providers \X Accounts -> SUBSET Grants]
    /\ byHand \subseteq BindingIds

SsoInit ==
    /\ account = [u \in Accounts |-> NotThere]
    /\ link = [e \in People |-> NoAccount]
    /\ mappings = {}
    /\ binding = [b \in BindingIds |-> NoBinding]
    /\ loginReq = [s \in LoginSlots |-> NoLogin]
    /\ claimed = [k \in Providers \X Accounts |-> {}]
    /\ byHand = {}
    /\ loginMixed = FALSE
-------------------------------------------------------------------------------
(* Rows *)
Present(rows) == {x \in DOMAIN rows : rows[x].there}
Added(old, new) == Present(new) \ Present(old)

\* New rows get numbers that no request has taken.
FreeAccounts == Accounts \ (Present(account) \cup UNION {Added(loginReq[s].acc, loginReq[s].acc2) : s \in LoginSlots})
FreeBindings == BindingIds \ (Present(binding) \cup UNION {Added(loginReq[s].bind, loginReq[s].bind2) : s \in LoginSlots})

\* A handler has done its work and is to commit; a registration claims nothing.
ServeLogin(s, person, u, desired, accounts, bindings) ==
    /\ ~loginReq[s].busy
    /\ loginReq' = [loginReq EXCEPT ![s] = [busy |-> TRUE, by |-> person, user |-> u, desired |-> desired,
                                            acc |-> account, acc2 |-> accounts,
                                            bind |-> binding, bind2 |-> bindings]]
    /\ loginMixed' = (loginMixed \/ \E t \in LoginSlots : loginReq[t].busy)
    /\ UNCHANGED <<account, link, mappings, binding, claimed, byHand>>

\* The first account there is administers the platform.
NewAccount(uid, person) ==
    [there |-> TRUE, uid |-> uid, person |-> person, active |-> TRUE, admin |-> Present(account) = {}]

Register(s) ==
    \E u \in FreeAccounts :
        /\ \A v \in FreeAccounts : u <= v
        /\ ServeLogin(s, NoPerson, u, {}, [account EXCEPT ![u] = NewAccount(Generated, NoPerson)], binding)
-------------------------------------------------------------------------------
(* Login through a provider *)

\* upsert_external_user: by the identity link, by the enterprise identifier, by the subject
\* the account was made for.
Known(person, uid) ==
    LET withUid == {u \in Present(account) : uid # NoUid /\ account[u].uid = uid}
    IN  CASE link[person] # NoAccount -> {link[person]}
          [] link[person] = NoAccount /\ withUid # {} -> withUid
          [] OTHER -> {u \in Present(account) : account[u].person = person}

\* apply_sso_role_mappings: what the provider's mappings make of the groups.
Desired(p, groups) == {m.grant : m \in {n \in mappings : n.provider = p /\ n.group \in groups}}

FaultKept(p, u, desired) == binding
\* Bindings of the provider that this login does not ask for are deleted.
Kept(p, u, desired) ==
    [b \in BindingIds |-> IF binding[b].user = u /\ binding[b].by = p /\ binding[b].grant \notin desired
                          THEN NoBinding ELSE binding[b]]

\* The rows of u for a grant, of which the handler sees one.
Having(u, g) == {b \in Present(binding) : binding[b].user = u /\ binding[b].grant = g}

\* The nth of the new grants takes the nth free number.
NumberFor(g, new) ==
    CHOOSE b \in FreeBindings : Cardinality({c \in FreeBindings : c <= b}) = Cardinality({h \in new : h <= g})

\* A binding that a login made, of whichever provider, becomes this provider's; one made by
\* hand stays as it is; a grant that has no binding gets one.
MappingsApplied(p, u, desired, seen) ==
    LET new == {g \in desired : Having(u, g) = {}}
        added == {<<NumberFor(g, new), g>> : g \in new}
    IN  [b \in BindingIds |->
            IF \E g \in new : <<b, g>> \in added
            THEN [there |-> TRUE, user |-> u, grant |-> CHOOSE g \in new : <<b, g>> \in added, by |-> p]
            ELSE IF b \in seen /\ binding[b].by # Hand THEN [binding[b] EXCEPT !.by = p]
            ELSE Kept(p, u, desired)[b]]

ProviderLogin(s, person, uid, groups) ==
    LET p == person[1]
        desired == Desired(p, groups)
        found == Known(person, uid)
    IN  \E u \in IF found = {} THEN FreeAccounts ELSE found :
           /\ found = {} => \A v \in FreeAccounts : u <= v
           /\ found # {} => account[u].active
           /\ Cardinality(FreeBindings) >= Cardinality({g \in desired : Having(u, g) = {}})
           /\ \E seen \in SUBSET UNION {Having(u, g) : g \in desired} :
                /\ \A g \in desired : Having(u, g) # {} => Cardinality(seen \cap Having(u, g)) = 1
                /\ ServeLogin(s, person, u, desired,
                     IF found = {}
                     THEN [account EXCEPT ![u] = NewAccount(IF uid = NoUid THEN Generated ELSE uid, person)]
                     ELSE [account EXCEPT ![u].person = IF @ = NoPerson THEN person ELSE @],
                     MappingsApplied(p, u, desired, seen))

\* complete_oidc_login, after the exchange with the provider.
OidcLogin(s, person, uid, groups) ==
    person[1] \in OidcProviders /\ ProviderLogin(s, person, uid, groups)

\* login_with_ldap: of each attribute the first value only, so one group at most.
LdapLogin(s, person, uid, groups) ==
    person[1] \in LdapProviders /\ Cardinality(groups) <= 1 /\ ProviderLogin(s, person, uid, groups)

\* What the database refuses: a second row with a unique value, the change of a row that is
\* gone.  Accounts that were made meanwhile may also have taken the name.
LoginRefused(r) ==
    \/ r.by # NoPerson /\ link[r.by] \notin {NoAccount, r.user}
    \/ \E b \in Present(r.bind) : r.bind2[b].there /\ r.bind2[b] # r.bind[b] /\ ~binding[b].there
    \/ \E u, v \in Accounts : /\ u # v /\ v \in Present(account) /\ r.acc2[u] # r.acc[u]
                              /\ \/ r.acc2[u].uid = account[v].uid /\ account[v].uid \in Uids
                                 \/ r.acc2[u].person = account[v].person /\ account[v].person # NoPerson

NameTaken(r) == Added(r.acc, r.acc2) # {} /\ Present(account) # Present(r.acc)

CommitLogin(s) ==
    LET r == loginReq[s] IN
    /\ r.busy /\ ~LoginRefused(r)
    /\ account' = FlushRows(account, r.acc, r.acc2)
    /\ binding' = FlushRows(binding, r.bind, r.bind2)
    /\ link' = IF r.by = NoPerson THEN link ELSE [link EXCEPT ![r.by] = r.user]
    /\ claimed' = IF r.by = NoPerson THEN claimed ELSE [claimed EXCEPT ![<<r.by[1], r.user>>] = r.desired]
    /\ loginReq' = [loginReq EXCEPT ![s] = NoLogin]
    /\ UNCHANGED <<mappings, byHand, loginMixed>>

RefuseLogin(s) ==
    /\ loginReq[s].busy /\ (LoginRefused(loginReq[s]) \/ NameTaken(loginReq[s]))
    /\ loginReq' = [loginReq EXCEPT ![s] = NoLogin]
    /\ UNCHANGED <<account, link, mappings, binding, claimed, byHand, loginMixed>>
-------------------------------------------------------------------------------
(* Administrators.  Their handlers write one row; logins in progress have read before. *)
Meanwhile == loginMixed' = (loginMixed \/ \E t \in LoginSlots : loginReq[t].busy)

\* create_, update_, delete_sso_role_mapping: bindings stay until the next login.
EditMappings(m) ==
    /\ mappings' \in {mappings \cup {m}, mappings \ {m}} /\ mappings' # mappings
    /\ Meanwhile
    /\ UNCHANGED <<account, link, binding, loginReq, claimed, byHand>>

\* create_binding: also for a grant the user has.
Bind(u, g) ==
    /\ u \in Present(account)
    /\ \E b \in FreeBindings :
        /\ \A c \in FreeBindings : b <= c
        /\ binding' = [binding EXCEPT ![b] = [there |-> TRUE, user |-> u, grant |-> g, by |-> Hand]]
        /\ byHand' = byHand \cup {b}
    /\ Meanwhile
    /\ UNCHANGED <<account, link, mappings, loginReq, claimed>>

Unbind(b) ==
    /\ binding[b].there
    /\ binding' = [binding EXCEPT ![b] = NoBinding]
    /\ byHand' = byHand \ {b}
    /\ Meanwhile
    /\ UNCHANGED <<account, link, mappings, loginReq, claimed>>

\* is_active is written by nothing but people with access to the database.
Disable(u) ==
    /\ account[u].there /\ account[u].active
    /\ account' = [account EXCEPT ![u].active = FALSE]
    /\ Meanwhile
    /\ UNCHANGED <<link, mappings, binding, loginReq, claimed, byHand>>

SsoNext ==
    \/ \E s \in LoginSlots :
         \/ Register(s) \/ CommitLogin(s) \/ RefuseLogin(s)
         \/ \E person \in People, uid \in {NoUid} \cup Uids, groups \in SUBSET Groups :
              OidcLogin(s, person, uid, groups) \/ LdapLogin(s, person, uid, groups)
    \/ \E m \in Mapping : EditMappings(m)
    \/ \E u \in Accounts : Disable(u) \/ \E g \in Grants : Bind(u, g)
    \/ \E b \in BindingIds : Unbind(b)

SsoSpec == SsoInit /\ [][SsoNext]_ssoVars
-------------------------------------------------------------------------------
\* Unless requests overlapped: a binding that logins manage is one the last login of its
\* user through its provider asked for, whichever mappings have been edited, whichever
\* providers have shared the account and the binding; and a binding made by hand stays as
\* it was made until an administrator removes it.
BindingsFollowLogins ==
    ~loginMixed => \A b \in BindingIds :
        /\ b \in byHand => binding[b].there /\ binding[b].by = Hand
        /\ binding[b].there /\ b \notin byHand =>
             /\ binding[b].by \in Providers
             /\ binding[b].grant \in claimed[<<binding[b].by, binding[b].user>>]
=================================================================================
