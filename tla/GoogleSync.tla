------------------------------ MODULE GoogleSync ------------------------------
(***************************************************************************)
(* GoogleContacts.fetch and the ingestion of what it yields: the sync      *)
(* token is read, the changes since are fetched page by page, the new      *)
(* token is stored, and only then are the contacts handed to ingest_one,   *)
(* one by one.  Several processes do this over one token, the contacts     *)
(* change meanwhile, tokens expire, requests fail and processes die.       *)
(*                                                                         *)
(* Google keeps a log of changes; a change is known by its position, and   *)
(* a sync token is the position it was issued at.  External, and assumed:  *)
(* the token of a listing is the position of its first request, a listing  *)
(* returns every contact that changed since, each as it is when its page   *)
(* is sent, and a listing without a token leaves deleted contacts out.     *)
(***************************************************************************)
EXTENDS Mirror, Sequences

CONSTANTS
    Contacts,
    Syncers,        \* processes that run a sync
    Serve,          \* the one of them that does so again and again
    MaxChanges      \* bound: changes of contacts

ASSUME SyncersWrite == Serve \in Syncers /\ Syncers \subseteq Writers
ASSUME ChangesBound == MaxChanges \in Nat

VARIABLES
    log,        \* the changes at Google: [who |-> contact, gone |-> deleted?]
    horizon,    \* tokens below this position have expired
    token,      \* the stored sync token
    step,       \* of each process: the next step of its fetch
    base,       \* the token it sends
    at,         \* the position of its first request
    due,        \* contacts on the pages it has not yet seen
    got,        \* changes it has fetched and not yet ingested
    lost        \* history: changes held by a process that died

googleVars == <<log, horizon, token, step, base, at, due, got, lost>>
local == <<step, base, at, due, got>>

(* No token; also: no request sent yet. *)
NoToken == -1

Change == [who: Contacts, gone: BOOLEAN]

(* Change i is what its contact is like now. *)
Newest(i) == \A j \in (i + 1)..Len(log) : log[j].who # log[i].who

(* Change i is there to be fetched. *)
News(i) == i \in DOMAIN log /\ Newest(i) /\ ~log[i].gone

Fact(i) == <<"google_contacts", i>>
Ingested(i) == Fact(i) \in ledger

GoogleInit ==
    /\ log = <<>> /\ horizon = 0 /\ token = NoToken
    /\ step = [p \in Syncers |-> "idle"]
    /\ base = [p \in Syncers |-> NoToken] /\ at = [p \in Syncers |-> NoToken]
    /\ due = [p \in Syncers |-> {}] /\ got = [p \in Syncers |-> {}]
    /\ lost = {}

-----------------------------------------------------------------------------
(* Google. *)

(* A contact appears, is edited or is deleted for good. *)
Alter(c, gone) ==
    /\ Len(log) < MaxChanges /\ Spend("changes")
    /\ \A i \in DOMAIN log : log[i].who = c => ~log[i].gone
    /\ gone => \E i \in DOMAIN log : log[i].who = c
    /\ log' = Append(log, [who |-> c, gone |-> gone])
    /\ UNCHANGED <<horizon, token, local, lost, mirrorVars, deaths>>

(* Tokens older than the latest change expire. *)
Expire ==
    /\ Spend("expiries")
    /\ horizon < Len(log)
    /\ horizon' = Len(log)
    /\ UNCHANGED <<log, token, local, lost, mirrorVars, deaths>>

Expired(t) == t # NoToken /\ t < horizon

(* The contacts a listing has to return. *)
Listed(t) ==
    {log[i].who : i \in {j \in DOMAIN log :
        Newest(j) /\ j > t /\ (t = NoToken => ~log[j].gone)}}

-----------------------------------------------------------------------------
(* GoogleContacts.fetch *)

(* The command is over, or has died: nothing is in its hands. *)
Drop(p) ==
    /\ step' = [step EXCEPT ![p] = "idle"]
    /\ base' = [base EXCEPT ![p] = NoToken] /\ at' = [at EXCEPT ![p] = NoToken]
    /\ due' = [due EXCEPT ![p] = {}] /\ got' = [got EXCEPT ![p] = {}]

(* stored_token = self._sync_token_store.get(...) *)
ReadToken(p) ==
    /\ step[p] = "idle" /\ unmirrored[p] = {}
    /\ IF p = Serve THEN left.serves > 0 /\ UNCHANGED left ELSE Spend("syncs")
    /\ step' = [step EXCEPT ![p] = "page"]
    /\ base' = [base EXCEPT ![p] = token]
    /\ UNCHANGED <<log, horizon, token, at, due, got, lost, mirrorVars, deaths>>

(* Wrong on purpose: the token of a page is stored with the page. *)
PageAndSet(p) ==
    /\ step[p] = "page" /\ ~Expired(base[p])
    /\ LET first == at[p] = NoToken
           rest == IF first THEN Listed(base[p]) ELSE due[p] IN
       \E page \in SUBSET rest :
          /\ page # {} \/ first
          /\ due' = [due EXCEPT ![p] = rest \ page]
          /\ got' = [got EXCEPT ![p] = @ \cup
                        {i \in DOMAIN log : Newest(i) /\ log[i].who \in page}]
          /\ at' = IF first THEN [at EXCEPT ![p] = Len(log)] ELSE at
          /\ token' = at'[p]
          /\ step' = [step EXCEPT ![p] = IF page = rest THEN "set" ELSE "page"]
    /\ UNCHANGED <<log, horizon, base, lost, mirrorVars, deaths, left>>

(* One turn of _do_fetch's loop: a page arrives. *)
Page(p) ==
    /\ step[p] = "page" /\ ~Expired(base[p])
    /\ LET first == at[p] = NoToken
           rest == IF first THEN Listed(base[p]) ELSE due[p] IN
       \E page \in SUBSET rest :
          /\ page # {} \/ first
          /\ due' = [due EXCEPT ![p] = rest \ page]
          /\ got' = [got EXCEPT ![p] = @ \cup
                        {i \in DOMAIN log : Newest(i) /\ log[i].who \in page}]
          /\ at' = IF first THEN [at EXCEPT ![p] = Len(log)] ELSE at
          /\ step' = [step EXCEPT ![p] = IF page = rest THEN "set" ELSE "page"]
    /\ UNCHANGED <<log, horizon, token, base, lost, mirrorVars, deaths, left>>

(* Wrong on purpose: every expiry raises, as one on a later page does. *)
RejectedAlways(p) ==
    /\ step[p] = "page" /\ Expired(base[p])
    /\ Drop(p)
    /\ UNCHANGED <<log, horizon, token, lost, mirrorVars, deaths, left>>

(* The token has expired: recognised while no contact has been collected; *)
(* on a later page raise_for_status ends the command.                     *)
Rejected(p) ==
    /\ step[p] = "page" /\ Expired(base[p])
    /\ IF got[p] = {} THEN step' = [step EXCEPT ![p] = "clear"]
                           /\ UNCHANGED <<base, at, due, got>>
                      ELSE Drop(p)
    /\ UNCHANGED <<log, horizon, token, lost, mirrorVars, deaths, left>>

(* Any other failure of a request ends the command too. *)
HttpError(p) ==
    /\ step[p] = "page"
    /\ Spend("errors")
    /\ Drop(p)
    /\ UNCHANGED <<log, horizon, token, lost, mirrorVars, deaths>>

(* The token is cleared and a full sync begins. *)
ClearToken(p) ==
    /\ step[p] = "clear"
    /\ token' = NoToken
    /\ step' = [step EXCEPT ![p] = "page"]
    /\ base' = [base EXCEPT ![p] = NoToken] /\ at' = [at EXCEPT ![p] = NoToken]
    /\ due' = [due EXCEPT ![p] = {}]
    /\ UNCHANGED <<log, horizon, got, lost, mirrorVars, deaths, left>>

(* Wrong on purpose: after a full sync only the token is kept. *)
SetTokenAndReturn(p) ==
    /\ step[p] = "set"
    /\ token' = at[p]
    /\ step' = [step EXCEPT ![p] = "hand"]
    /\ got' = [got EXCEPT ![p] =
                  IF base[p] = NoToken THEN {} ELSE {i \in @ : ~log[i].gone}]
    /\ UNCHANGED <<log, horizon, base, at, due, lost, mirrorVars, deaths, left>>

(* nextSyncToken is stored before the contacts are yielded; deleted ones *)
(* are not yielded.                                                      *)
SetToken(p) ==
    /\ step[p] = "set"
    /\ token' = at[p]
    /\ step' = [step EXCEPT ![p] = "hand"]
    /\ got' = [got EXCEPT ![p] = {i \in @ : ~log[i].gone}]
    /\ UNCHANGED <<log, horizon, base, at, due, lost, mirrorVars, deaths, left>>

(* ingest_one of the next contact *)
Ingest(p) ==
    /\ step[p] = "hand"
    /\ \E i \in got[p] : Commit(p, Fact(i)) /\ got' = [got EXCEPT ![p] = @ \ {i}]
    /\ UNCHANGED <<log, horizon, token, step, base, at, due, lost, left>>

FetchDone(p) ==
    /\ step[p] = "hand" /\ got[p] = {} /\ unmirrored[p] = {}
    /\ Drop(p)
    /\ UNCHANGED <<log, horizon, token, lost, mirrorVars, deaths, left>>

SyncerDies(p) ==
    /\ step[p] # "idle"
    /\ Die(p)
    /\ lost' = IF step[p] = "hand" THEN lost \cup got[p] ELSE lost
    /\ Drop(p)
    /\ UNCHANGED <<log, horizon, token>>

FetchStep(p) ==
    \/ Page(p) \/ Rejected(p) \/ ClearToken(p) \/ SetToken(p) \/ Ingest(p) \/ FetchDone(p)
    \/ AppendJsonl(p) /\ UNCHANGED googleVars

GoogleNext ==
    \/ \E c \in Contacts, gone \in BOOLEAN : Alter(c, gone)
    \/ Expire
    \/ \E p \in Syncers : ReadToken(p) \/ FetchStep(p) \/ HttpError(p) \/ SyncerDies(p)

-----------------------------------------------------------------------------
(* Properties. *)

GoogleTypeOK ==
    /\ log \in Seq(Change)
    /\ horizon \in 0..Len(log) /\ token \in NoToken..Len(log)
    /\ step \in [Syncers -> {"idle", "page", "clear", "set", "hand"}]
    /\ base \in [Syncers -> NoToken..Len(log)] /\ at \in [Syncers -> NoToken..Len(log)]
    /\ due \in [Syncers -> SUBSET Contacts]
    /\ got \in [Syncers -> SUBSET DOMAIN log]
    /\ lost \subseteq DOMAIN log

(* Nobody has to fetch change i again: it is no news any more, or in the       *)
(* ledger, or a process that stored its token is about to ingest it, or died   *)
(* so.                                                                         *)
Accounted(i) ==
    \/ ~News(i) \/ Ingested(i) \/ i \in lost
    \/ \E p \in Syncers : step[p] = "hand" /\ i \in got[p]

(* The stored token claims nothing that was not fetched: whatever overlaps,    *)
(* expires or fails, a change at or before the token's position can only be    *)
(* missing because a process died between storing the token and ingesting.     *)
TokenHonest == \A i \in 1..token : Accounted(i)

(* Every change of a contact is ingested, unless the contact changes again or  *)
(* is deleted first, or a process died with it in its hands: neither expiry    *)
(* nor failing requests nor an overlapping sync leave it out for good.         *)
EveryChangeArrives ==
    \A i \in 1..MaxChanges :
        (News(i) /\ left.serves > 0) ~> (~News(i) \/ Ingested(i) \/ i \in lost)

(* What such a death lost comes back with the next full sync: once the token   *)
(* is gone and no fetch that began with one is under way.                      *)
FullSyncAhead ==
    /\ token = NoToken /\ \A p \in Syncers : base[p] = NoToken
    /\ left.deaths = 0 /\ left.errors = 0 /\ left.serves > 0

FullSyncHeals ==
    \A i \in 1..MaxChanges : (i \in lost /\ FullSyncAhead) ~> (~News(i) \/ Ingested(i))
=============================================================================
