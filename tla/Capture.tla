------------------------------- MODULE Capture --------------------------------
(***************************************************************************)
(* The browser extension: one LinkedIn tab with the content script in it,  *)
(* the background page, and POST /ingest.                                  *)
(*                                                                         *)
(* The content script waits for a quiet period after each navigation, then *)
(* takes the URL, waits for the extractor to be imported, and only then    *)
(* reads the page.  LinkedIn is a single-page application: the address     *)
(* changes first and the page follows.  How long the quiet period, the     *)
(* import and the page take is left open.                                  *)
(***************************************************************************)
EXTENDS Mirror, Sequences

CONSTANTS
    Profiles,
    Elsewhere,      \* any other page; also a page that shows no profile yet
    NoUrl,          \* lastCapturedUrl = null
    Api             \* the process that serves POST /ingest

ASSUME ApiWrites == Api \in Writers
ASSUME Distinct == Elsewhere \notin Profiles /\ NoUrl \notin Profiles /\ NoUrl # Elsewhere

VARIABLES
    url, shown,     \* location.href, and whose profile the document shows
    script,         \* the content script was injected into this document
    timer,          \* debounceTimer is set
    last,           \* lastCapturedUrl
    importing,      \* calls of capture() that wait for the import: their URLs
    mail,           \* records in the background page or on their way to the API
    options,        \* what the options page has saved: "unset", "wrong", "right"
    issued,         \* `whodex token issue` has made a token
    hasty,          \* history: the tab moved on while the extractor was imported
    early,          \* history: the timer fired before the page had followed
    twin,           \* history: a URL was being captured twice at once
    botched         \* history: profiles whose last capture was misfiled or lost

tab == <<url, shown, script, timer, last, importing>>
captureHistory == <<hasty, early, twin, botched>>
captureVars == <<tab, mail, options, issued, captureHistory>>

Pages == Profiles \cup {Elsewhere}
Record(who, shows) == <<"linkedin_ext", who, shows>>
Records == {Record(who, shows) : who \in Profiles, shows \in Pages}

CaptureInit ==
    /\ url = Elsewhere /\ shown = Elsewhere /\ script = FALSE
    /\ timer = FALSE /\ last = NoUrl /\ importing = <<>>
    /\ mail = {} /\ options = "unset" /\ issued = FALSE
    /\ hasty = FALSE /\ early = FALSE /\ twin = FALSE /\ botched = {}

-----------------------------------------------------------------------------
(* The user and the page. *)

(* A document is loaded: the manifest injects the script into /in/ pages *)
(* only, and it schedules a first capture.                               *)
Open(u) ==
    /\ Spend("moves")
    /\ url' = u /\ shown' = Elsewhere
    /\ script' = (u \in Profiles) /\ timer' = (u \in Profiles)
    /\ last' = NoUrl /\ importing' = <<>>
    /\ UNCHANGED <<mail, options, issued, captureHistory, mirrorVars, deaths>>

(* Wrong on purpose: capture() is called at once, without a quiet period. *)
MoveAndCapture(u) ==
    /\ Spend("moves")
    /\ url' = u
    /\ importing' = IF script THEN Append(importing, u) ELSE importing
    /\ hasty' = (hasty \/ (importing # <<>> /\ u # url))
    /\ UNCHANGED <<timer, shown, script, last, mail, options, issued, early, twin,
                   botched, mirrorVars, deaths>>

(* Wrong on purpose: no listener; the timer of the document's load is all. *)
MoveUnheard(u) ==
    /\ Spend("moves")
    /\ url' = u
    /\ hasty' = (hasty \/ (importing # <<>> /\ u # url))
    /\ UNCHANGED <<timer, shown, script, last, importing, mail, options, issued, early,
                   twin, botched, mirrorVars, deaths>>

(* pushState, replaceState or popstate: the timer starts again. *)
Move(u) ==
    /\ Spend("moves")
    /\ url' = u
    /\ timer' = script
    /\ hasty' = (hasty \/ (importing # <<>> /\ u # url))
    /\ UNCHANGED <<shown, script, last, importing, mail, options, issued, early, twin,
                   botched, mirrorVars, deaths>>

(* The page follows the address. *)
Render ==
    /\ shown # url
    /\ shown' = url
    /\ UNCHANGED <<url, script, timer, last, importing, mail, options, issued,
                   captureHistory, mirrorVars, deaths, left>>

IssueToken ==
    /\ Spend("saves")
    /\ ~issued /\ issued' = TRUE
    /\ UNCHANGED <<tab, mail, options, captureHistory, mirrorVars, deaths>>

(* The user saves an endpoint and a token, perhaps mistyped or missing. *)
SaveOptions(o) ==
    /\ Spend("saves")
    /\ o # options /\ (o = "right" => issued)
    /\ options' = o
    /\ UNCHANGED <<tab, mail, issued, captureHistory, mirrorVars, deaths>>

-----------------------------------------------------------------------------
(* content.js *)

(* Wrong on purpose: the URL is not compared with the one captured last. *)
FireAlways ==
    /\ timer
    /\ timer' = FALSE
    /\ importing' = Append(importing, url)
    /\ early' = (early \/ shown # url)
    /\ twin' = (twin \/ \E k \in DOMAIN importing : importing[k] = url)
    /\ UNCHANGED <<url, shown, script, last, mail, options, issued, hasty, botched,
                   mirrorVars, deaths, left>>

(* The timer fires and capture() runs up to its await. *)
Fire ==
    /\ timer
    /\ timer' = FALSE
    /\ IF url = last
       THEN UNCHANGED <<importing, early, twin>>
       ELSE /\ importing' = Append(importing, url)
            /\ early' = (early \/ shown # url)
            /\ twin' = (twin \/ \E k \in DOMAIN importing : importing[k] = url)
    /\ UNCHANGED <<url, shown, script, last, mail, options, issued, hasty, botched,
                   mirrorVars, deaths, left>>

(* The import has resolved: the page is read as it is now and filed under the *)
(* URL of then; the URL counts as captured whatever becomes of the message.   *)
Extract ==
    /\ importing # <<>>
    /\ importing' = Tail(importing)
    /\ LET who == Head(importing) IN
       IF who \notin Profiles
       THEN UNCHANGED <<last, mail, botched>>
       ELSE /\ last' = who
            /\ mail' = mail \cup {Record(who, shown)}
            /\ botched' = IF shown = who THEN botched \ {who} ELSE botched \cup {who}
    /\ UNCHANGED <<url, shown, script, timer, options, issued, hasty, early, twin,
                   mirrorVars, deaths, left>>

-----------------------------------------------------------------------------
(* background.js, post.js and the API *)

(* The token is one that was issued: the record is ingested. *)
Post(m) ==
    /\ m \in mail
    /\ options = "right"
    /\ Commit(Api, m)
    /\ mail' = mail \ {m}
    /\ UNCHANGED <<botched, tab, options, issued, hasty, early, twin, left>>

(* No endpoint or token, 401, or no answer: logged, and never tried again. *)
PostFails(m) ==
    /\ m \in mail
    /\ \/ options # "right" /\ UNCHANGED left
       \/ options = "right" /\ Spend("drops")
    /\ mail' = mail \ {m}
    /\ botched' = botched \cup {m[2]}
    /\ UNCHANGED <<tab, options, issued, hasty, early, twin, mirrorVars, deaths>>

ApiDies == Die(Api) /\ UNCHANGED captureVars

CaptureStep ==
    \/ Fire \/ Extract
    \/ \E m \in mail : Post(m) \/ (options # "right" /\ PostFails(m))
    \/ AppendJsonl(Api) /\ UNCHANGED captureVars

CaptureNext ==
    \/ \E u \in Pages : Open(u) \/ Move(u)
    \/ \E o \in {"unset", "wrong", "right"} : SaveOptions(o)
    \/ IssueToken \/ Render \/ CaptureStep \/ ApiDies
    \/ \E m \in mail : PostFails(m)

-----------------------------------------------------------------------------
(* Properties. *)

CaptureTypeOK ==
    /\ url \in Pages /\ shown \in Pages /\ script \in BOOLEAN /\ timer \in BOOLEAN
    /\ last \in Profiles \cup {NoUrl}
    /\ importing \in Seq(Pages)
    /\ mail \subseteq Records
    /\ options \in {"unset", "wrong", "right"} /\ issued \in BOOLEAN
    /\ <<hasty, early, twin>> \in BOOLEAN \X BOOLEAN \X BOOLEAN
    /\ botched \subseteq Profiles

(* A profile is filed under another's URL, or an empty page under a profile's, *)
(* only if the tab moved while the extractor was being imported or the page    *)
(* took longer than the quiet period.                                          *)
MisfiledOnlyIfMoved ==
    \A who \in Profiles, shows \in Pages :
        who # shows /\ Record(who, shows) \in mail \cup ledger => hasty \/ early

(* The URL that was captured last is sent again only if two captures of it     *)
(* were waiting for the import at the same time.                               *)
RepeatOnlyIfTwin ==
    [][\A m \in mail' \ mail : m[2] = last => twin]_<<mail, last, twin>>

(* A profile that stays in front of the user, in a document the script was     *)
(* injected into, reaches the ledger, filed under its own URL: unless its last *)
(* capture was misfiled or lost, because then its URL counts as captured and   *)
(* it is not tried again while it stays.                                       *)
ShownProfileArrives ==
    \A who \in Profiles :
        (script /\ url = who) ~>
            \/ Record(who, who) \in ledger
            \/ url # who \/ ~script
            \/ who \in botched /\ ~timer /\ \A k \in DOMAIN importing : importing[k] # who
=============================================================================
