------------------------------ MODULE Sessions ------------------------------
(***************************************************************************)
(* Users, organizations with their members, and the sessions of users.     *)
(* A session and each of its seances is a Redis key that expires; a third  *)
(* key, the set of the session's seances, never does.  Roles, permissions  *)
(* and passwords are left out, and so are the lifetimes: a key may expire  *)
(* at any time.                                                            *)
(***************************************************************************)
EXTENDS Records

CONSTANT Accounts  \* the users that occur

\* The keys a request id stands for.
SessionKey(id) == <<id, 0>>
SeanceKey(id) == <<id, 1>>
SetKey(s) == <<s[1], 2>>

Registered == {rows[r].user : r \in Rows("user")}
Organizations == Rows("organization")
OrganizationsOf(u) == {o \in Organizations : u \in rows[o].members}

NoOrganization == <<0, 0>>

SeancesOf(s) == {q \in Rows("seance") : rows[q].session = s}

\* What the set of the session holds; a key that is not there is empty.
Tracked(s) == IF SetKey(s) \in DOMAIN rows THEN rows[SetKey(s)].ids ELSE {}

-----------------------------------------------------------------------------
(* Sessions *)

OpenSession(w, u, o) ==
    Start(w, [op |-> "session", id |-> served + 1, row |-> SessionKey(served + 1),
              copy |-> [kind |-> "session", user |-> u, organization |-> o]])

\* The unique index on the e-mail refuses an account that exists.
Register(w, u) ==
    /\ u \notin Registered
    /\ rows' = With(rows, <<served + 1, 3>>, [kind |-> "user", user |-> u])
    /\ OpenSession(w, u, NoOrganization)
    /\ UNCHANGED <<stale, news>>

\* The first organization of the user, if there is one.
Login(w, u) ==
    /\ \/ \E o \in OrganizationsOf(u) : OpenSession(w, u, o)
       \/ OrganizationsOf(u) = {} /\ OpenSession(w, u, NoOrganization)
    /\ UNCHANGED records

CreateSession(w) ==
    /\ At(w, "session")
    /\ rows' = With(rows, task[w].row, task[w].copy)
    /\ Continue(w, [task[w] EXCEPT !.op = "seance"])
    /\ UNCHANGED <<stale, news>>

Unlock(w, s) == Read(w, "seance", s)

\* SET and SADD in one pipeline, whether the session is still there or not.
CreateSeance(w) ==
    /\ At(w, "seance")
    /\ LET s == task[w].row
           q == SeanceKey(task[w].id)
       IN /\ rows' = With(With(rows, SetKey(s), [kind |-> "set", ids |-> Tracked(s) \cup {q}]),
                          q, [kind |-> "seance", session |-> s])
          /\ stale' = IF s \in DOMAIN rows THEN stale ELSE stale \cup {q}
    /\ Finish(w)
    /\ UNCHANGED news

\* The middleware wants a session and one of its seances; the user must be a
\* member of the other organization.
SwitchOrganization(w, s, o) ==
    /\ SeancesOf(s) # {}
    /\ rows[s].user \in rows[o].members
    /\ Start(w, [op |-> "switch", id |-> served + 1, row |-> s, copy |-> rows[s],
                 organization |-> o])
    /\ UNCHANGED records

\* A key that is gone gets the full lifetime: it is there again.
UpdateSession(w) ==
    /\ At(w, "switch")
    /\ LET t == task[w]
       IN /\ rows' = With(rows, t.row, [t.copy EXCEPT !.organization = t.organization])
          /\ stale' = IF t.row \in DOMAIN rows THEN stale ELSE stale \cup {t.row}
    /\ Finish(w)
    /\ UNCHANGED news

\* The set is read, then its seances and the set are deleted, then the session.
Logout(w, s) ==
    /\ Start(w, [op |-> IF Tracked(s) = {} THEN "delete session" ELSE "delete seances",
                 id |-> served + 1, row |-> s, ids |-> Tracked(s)])
    /\ UNCHANGED records

\* Mutant of DeleteSessionSeances: the set is deleted, its seances are not.
DeleteSetOnly(w) ==
    /\ At(w, "delete seances")
    /\ rows' = Without({SetKey(task[w].row)})
    /\ Continue(w, [task[w] EXCEPT !.op = "delete session"])
    /\ UNCHANGED <<stale, news>>

DeleteSessionSeances(w) ==
    /\ At(w, "delete seances")
    /\ rows' = Without(task[w].ids \cup {SetKey(task[w].row)})
    /\ Continue(w, [task[w] EXCEPT !.op = "delete session"])
    /\ UNCHANGED <<stale, news>>

\* Seances that were not there when the set was read are left behind.
DeleteSession(w) ==
    /\ At(w, "delete session")
    /\ LET t == task[w]
       IN /\ rows' = Without({t.row})
          /\ stale' = stale \cup (SeancesOf(t.row) \ t.ids)
          /\ Continue(w, Announcing(t.id, t.row, "disconnect"))
    /\ UNCHANGED news

\* Redis drops a key whose lifetime has passed.
Expire(r) ==
    /\ rows' = Without({r})
    /\ UNCHANGED <<work, stale, news>>

-----------------------------------------------------------------------------
(* Organizations *)

\* Two statements: the organization, then its owner as a member.
CreateOrganization(w, u) ==
    /\ Start(w, [op |-> "owner", id |-> served + 1, row |-> New, user |-> u])
    /\ rows' = With(rows, New, [kind |-> "organization", owner |-> u, name |-> 0, members |-> {}])
    /\ UNCHANGED <<stale, news>>

AddOwner(w) ==
    /\ At(w, "owner")
    /\ rows' = [rows EXCEPT ![task[w].row].members = @ \cup {task[w].user}]
    /\ Finish(w)
    /\ UNCHANGED <<stale, news>>

UpdateOrganization(w, o) == Read(w, "organization", o)

WriteOrganization(w) ==
    At(w, "organization") /\ Write(w, [name |-> task[w].id], NoEvent)

AddOrganizationMember(w, o, u) ==
    u \notin rows[o].members /\ Set(w, o, [members |-> rows[o].members \cup {u}], NoEvent)

RemoveOrganizationMember(w, o, u) ==
    u \in rows[o].members /\ Set(w, o, [members |-> rows[o].members \ {u}], NoEvent)

-----------------------------------------------------------------------------
AuthEndpoints(w) ==
    \/ \E u \in Accounts : Register(w, u)
    \/ \E u \in Registered : Login(w, u)
    \/ \E s \in Rows("session") :
          \/ Unlock(w, s) \/ Logout(w, s)
          \/ \E o \in Organizations : SwitchOrganization(w, s, o)

OrganizationEndpoints(w) ==
    \/ \E u \in Registered : CreateOrganization(w, u)
    \/ \E o \in Organizations :
          \/ UpdateOrganization(w, o)
          \/ \E u \in Registered : AddOrganizationMember(w, o, u) \/ RemoveOrganizationMember(w, o, u)

\* A user with an open session in one of two organizations.
SessionRows ==
    LET u == CHOOSE a \in Accounts : TRUE
        organization == [kind |-> "organization", owner |-> u, name |-> 0, members |-> {u}]
    IN [r \in {<<0, n>> : n \in 1..6} |->
           CASE r[2] = 1 -> [kind |-> "seance", session |-> <<0, 6>>]
             [] r[2] = 2 -> [kind |-> "set", ids |-> {<<0, 1>>}]
             [] r[2] = 3 -> [kind |-> "user", user |-> u]
             [] r[2] \in {4, 5} -> organization
             [] r[2] = 6 -> [kind |-> "session", user |-> u, organization |-> <<0, 4>>]]

SessionsNext ==
    \/ \E r \in Rows("session") \cup Rows("seance") : Expire(r)
    \/ \E w \in Workers :
          \/ AuthEndpoints(w) \/ OrganizationEndpoints(w)
          \/ CreateSession(w) \/ CreateSeance(w) \/ UpdateSession(w)
          \/ DeleteSessionSeances(w) \/ DeleteSession(w)
          \/ AddOwner(w) \/ WriteOrganization(w)
          \/ RecordSteps(w)

SessionsSpec == InitRecords(SessionRows) /\ [][SessionsNext]_recordVars

-----------------------------------------------------------------------------
(* Properties *)

\* Logout (auth.go:154) takes three Redis commands: afterwards nothing of the
\* session is left, but for what an overlapping Unlock or SwitchOrganization
\* (auth.go:191), which had read the session before, stores again.
LogoutIsFinal ==
    \A n \in news :
        n.type = "disconnect" /\ n.row \notin stale
           => n.row \notin DOMAIN rows /\ SeancesOf(n.row) \subseteq stale

=============================================================================
