--------------------------- MODULE WebhookTokens ---------------------------
(***************************************************************************)
(* The token editor of the plugin's settings page, in the browsers of      *)
(* several administrators (components/admin_settings.tsx WebhookTokens-    *)
(* Setting and WebhookTokensEditor, admin_client.ts), and the server it    *)
(* saves to (admin_api.go, OnConfigurationChange in configuration.go).     *)
(*                                                                         *)
(* A save replaces the whole list of tokens.  The list an editor shows has *)
(* no secrets, and a blank one means the one the server has.               *)
(*                                                                         *)
(* A token's team, channels and signature flag take the way of "enabled"   *)
(* and stand behind it.  Stored tokens always parse, as those the handlers *)
(* write do: with a list spoiled by hand both handlers only answer         *)
(* invalid_token_config and change nothing.                                *)
(***************************************************************************)
EXTENDS Integers, Sequences

CONSTANTS
    Pages,      \* open settings pages
    NoPage,     \* of a request whose page forgot it
    Names, NoName,
    Secrets, Blank,
    Legacy,     \* the shared secret: one of Secrets, or Blank when unset
    Edits,      \* what may be entered into a row: records [field, to]
    Scenarios   \* the stored tokens, and how often each operation may happen
                \* (the bound)

Operations == {"open", "close", "page", "add", "edit", "remove", "save", "other", "fail"}

Tokens == [name : Names \union {NoName}, secret : Secrets \union {Blank}, enabled : BOOLEAN]

(* Per page, and for the server (NoPage).                                  *)
Budgets == [Pages \union {NoPage} -> [Operations -> Nat]]

(* Names in a list of tokens.                                              *)
Named(ts) == {ts[i].name : i \in DOMAIN ts}

Distinct(ts) == \A i, j \in DOMAIN ts : ts[i].name = ts[j].name => i = j

ASSUME PagesAssumption == NoPage \notin Pages
ASSUME NamesAssumption == NoName \notin Names
ASSUME SecretsAssumption == Blank \notin Secrets /\ Legacy \in Secrets \union {Blank}
ASSUME EditsAssumption ==
    \A u \in Edits :
        \/ u.field = "name" /\ u.to \in Names \union {NoName}
        \/ u.field = "secret" /\ u.to \in Secrets \union {Blank}
        \/ u.field = "enabled" /\ u.to \in BOOLEAN
ASSUME ScenariosAssumption ==
    \A s \in Scenarios :
        /\ s.tokens \in Seq(Tokens) /\ Distinct(s.tokens)
        /\ s.budget \in Budgets

VARIABLES
    stored,     \* the saved plugin configuration
    active,     \* the configuration the plugin goes by
    hook,       \* OnConfigurationChange: is one due, and what one has read
    editors,    \* per page, its token editor
    requests,   \* GET webhook-config and PUT webhook-tokens on their way
    left        \* how often each operation may still happen

vars == <<stored, active, hook, editors, requests, left>>
server == <<stored, active, hook>>

Errors == {"none", "failed", "save_token_config", "token_name_required",
           "token_name_duplicate", "token_secret_required",
           "token_secret_matches_legacy", "token_secret_duplicate"}

(* "other" stands for the settings the page itself saves; "version" counts *)
(* the changes of the tokens, for the properties only.                     *)
Configurations == [tokens : Seq(Tokens), other : Nat, version : Nat]

(* What Mattermost hands the setting: the tokens, or none where it hides   *)
(* them, or something that is no list (error).                             *)
Values == [tokens : Seq(Tokens), error : BOOLEAN, version : Nat]

(* "saving" is savingRef; the others are for the properties.  "seen", "at" *)
(* and "blind": the names in the list the editor was last given, the       *)
(* version of that list, and whether it was refused one.  "typed": per     *)
(* row, whether its name or its secret was entered since.                  *)
EditorStates ==
    [mounted : BOOLEAN, disabled : BOOLEAN, value : Values, rows : Seq(Tokens),
     dirty : BOOLEAN, request : {"idle", "loading", "saving"}, saving : BOOLEAN,
     loadError : Errors, saveError : Errors, saved : BOOLEAN,
     seen : SUBSET (Names \union {NoName}), at : Nat, blind : BOOLEAN,
     typed : Seq(BOOLEAN)]

Requests ==
    [page : Pages \union {NoPage}, kind : {"load", "save"},
     step : {"sent", "cloned", "saved", "answered"}, body : Seq(Tokens),
     base : Configurations, config : Configurations, error : Errors,
     seen : SUBSET (Names \union {NoName}), at : Nat, blind : BOOLEAN,
     typed : Seq(BOOLEAN)]
-----------------------------------------------------------------------------
Spend(p, operation) ==
    /\ left[p][operation] > 0
    /\ left' = [left EXCEPT ![p][operation] = @ - 1]

(* A value whose tokens are the same renders the same editor (key).        *)
SavedValueKey(v) == <<v.tokens, v.error>>

ShouldLoadTokens(v) == ~v.error /\ v.tokens = << >>

Request(p, kind, ed) ==
    [page |-> p, kind |-> kind, step |-> "sent", body |-> ed.rows, base |-> stored,
     config |-> stored, error |-> "none", seen |-> ed.seen, at |-> ed.at, blind |-> ed.blind,
     typed |-> ed.typed]

(* Nothing was typed into the rows of a list that was given.               *)
Untyped(ts) == [i \in DOMAIN ts |-> FALSE]

(* Mutated: the editor may be used while it loads.                         *)
FreshIdle(v, disabled) ==
    [mounted |-> TRUE, disabled |-> disabled, value |-> v, rows |-> v.tokens, dirty |-> FALSE,
     request |-> "idle", saving |-> FALSE, loadError |-> "none", saveError |-> "none",
     saved |-> FALSE, seen |-> Named(v.tokens), at |-> v.version, blind |-> FALSE,
     typed |-> Untyped(v.tokens)]

(* The editor as it mounts.                                                *)
Fresh(v, disabled) ==
    [mounted |-> TRUE, disabled |-> disabled, value |-> v, rows |-> v.tokens, dirty |-> FALSE,
     request |-> IF ShouldLoadTokens(v) THEN "loading" ELSE "idle", saving |-> FALSE,
     loadError |-> "none", saveError |-> "none", saved |-> FALSE,
     seen |-> Named(v.tokens), at |-> v.version, blind |-> FALSE, typed |-> Untyped(v.tokens)]

(* As the editor of a page unmounts it aborts its requests: their answers  *)
(* go nowhere, but the server may still take them.                         *)
Aborted(rs, p) ==
    {r \in rs : r.page # p} \union
    {[r EXCEPT !.page = NoPage] :
        r \in {q \in rs : q.page = p /\ q.kind = "save" /\ q.step # "answered"}}

(* Mutated: saving does not disable the controls.                          *)
ControlsDisabledForLoad(ed) == ed.disabled \/ ed.value.error \/ ed.request = "loading"

ControlsDisabled(ed) ==
    ed.disabled \/ ed.value.error \/ ed.request \in {"loading", "saving"}

Editable(p) == editors[p].mounted /\ ~ControlsDisabled(editors[p])

EmptyToken == [name |-> NoName, secret |-> Blank, enabled |-> TRUE]

(* What the page may be given now.  A value the console read earlier is    *)
(* the one of a page opened then.                                          *)
GivenValues ==
    {[tokens |-> stored.tokens, error |-> FALSE, version |-> stored.version],
     [tokens |-> << >>, error |-> FALSE, version |-> stored.version],
     [tokens |-> << >>, error |-> TRUE, version |-> stored.version]}

Unmounted ==
    [Fresh([tokens |-> << >>, error |-> TRUE, version |-> 0], TRUE) EXCEPT !.mounted = FALSE]

Init ==
    \E s \in Scenarios :
        /\ stored = [tokens |-> s.tokens, other |-> 0, version |-> 0]
        /\ active = stored
        /\ hook = [due |-> FALSE, read |-> {}]
        /\ editors = [p \in Pages |-> Unmounted]
        /\ requests = {}
        /\ left = s.budget
-----------------------------------------------------------------------------
(* The page                                                                *)

(* An editor mounts, and loads if it was given no tokens.                  *)
Mount(p, v, disabled) ==
    /\ editors' = [editors EXCEPT ![p] = Fresh(v, disabled)]
    /\ requests' = Aborted(requests, p) \union
                   IF ShouldLoadTokens(v) THEN {Request(p, "load", Fresh(v, disabled))} ELSE {}

Open(p) ==
    /\ ~editors[p].mounted
    /\ Spend(p, "open")
    /\ \E v \in GivenValues : Mount(p, v, FALSE)
    /\ UNCHANGED server

Close(p) ==
    /\ editors[p].mounted
    /\ Spend(p, "close")
    /\ editors' = [editors EXCEPT ![p] = Unmounted]
    /\ requests' = Aborted(requests, p)
    /\ UNCHANGED server

(* The page renders the setting again: another value mounts another editor *)
(* in its place, and the drafts are gone.                                  *)
Rerender(p) ==
    /\ editors[p].mounted
    /\ Spend(p, "page")
    /\ \E v \in GivenValues, disabled \in BOOLEAN :
          IF SavedValueKey(v) # SavedValueKey(editors[p].value)
          THEN Mount(p, v, disabled)
          ELSE /\ editors' = [editors EXCEPT ![p].disabled = disabled]
               /\ UNCHANGED requests
    /\ UNCHANGED server

(* The cases add, update and remove of tokenEditorReducer.                 *)
Edited(p, rows, typed) ==
    /\ editors' = [editors EXCEPT ![p].rows = rows, ![p].typed = typed, ![p].dirty = TRUE,
                                  ![p].saveError = "none", ![p].saved = FALSE]
    /\ UNCHANGED <<server, requests>>

Add(p) ==
    /\ Editable(p)
    /\ Spend(p, "add")
    /\ Edited(p, Append(editors[p].rows, EmptyToken), Append(editors[p].typed, FALSE))

With(t, u) ==
    [name    |-> IF u.field = "name" THEN u.to ELSE t.name,
     secret  |-> IF u.field = "secret" THEN u.to ELSE t.secret,
     enabled |-> IF u.field = "enabled" THEN u.to ELSE t.enabled]

Edit(p, i, u) ==
    /\ Editable(p)
    /\ i \in DOMAIN editors[p].rows
    /\ Spend(p, "edit")
    /\ Edited(p, [editors[p].rows EXCEPT ![i] = With(@, u)],
                 [editors[p].typed EXCEPT ![i] = @ \/ u.field \in {"name", "secret"}])

Dropped(s, i) == [j \in 1 .. Len(s) - 1 |-> IF j < i THEN s[j] ELSE s[j + 1]]

Remove(p, i) ==
    /\ Editable(p)
    /\ i \in DOMAIN editors[p].rows
    /\ Spend(p, "remove")
    /\ Edited(p, Dropped(editors[p].rows, i), Dropped(editors[p].typed, i))

(* saveTokens, up to its await.                                            *)
Save(p) ==
    /\ Editable(p)
    /\ editors[p].dirty
    /\ ~editors[p].saving
    /\ Spend(p, "save")
    /\ editors' = [editors EXCEPT ![p].saving = TRUE, ![p].request = "saving",
                                  ![p].saveError = "none", ![p].saved = FALSE]
    /\ requests' = requests \union {Request(p, "save", editors[p])}
    /\ UNCHANGED server
-----------------------------------------------------------------------------
(* The server                                                              *)

(* Mutated: the kept secret is the one at the same place.                  *)
KeptSecretAt(ts, i, existing) ==
    IF ts[i].secret # Blank THEN ts[i].secret
    ELSE IF i \in DOMAIN existing THEN existing[i].secret ELSE Blank

(* A blank secret is the one of the existing token of that name, if any.   *)
KeptSecret(ts, i, existing) ==
    IF ts[i].secret # Blank \/ ts[i].name \notin Named(existing) THEN ts[i].secret
    ELSE existing[CHOOSE j \in DOMAIN existing : existing[j].name = ts[i].name].secret

NextTokens(incoming, existing) ==
    [i \in DOMAIN incoming |-> [incoming[i] EXCEPT !.secret = KeptSecret(incoming, i, existing)]]

Problem(ts, i) ==
    LET sameSecret(j) == j < i /\ ts[j].enabled /\ ts[j].secret = ts[i].secret IN
    IF ts[i].name = NoName THEN "token_name_required"
    ELSE IF \E j \in DOMAIN ts : j < i /\ ts[j].name = ts[i].name THEN "token_name_duplicate"
    ELSE IF ~ts[i].enabled THEN "none"
    ELSE IF ts[i].secret = Blank THEN "token_secret_required"
    ELSE IF ts[i].secret = Legacy THEN "token_secret_matches_legacy"
    ELSE IF \E j \in DOMAIN ts : sameSecret(j) THEN "token_secret_duplicate"
    ELSE "none"

Acceptable(ts) == \A i \in DOMAIN ts : Problem(ts, i) = "none"

(* The first row that has a problem tells.                                 *)
UpdateError(ts) ==
    Problem(ts, CHOOSE i \in DOMAIN ts :
                   /\ Problem(ts, i) # "none"
                   /\ \A j \in DOMAIN ts : j < i => Problem(ts, j) = "none")

(* The answer of a request nobody waits for goes nowhere.                  *)
Becomes(r, next) ==
    requests' = (requests \ {r}) \union
        IF next.page = NoPage /\ next.step = "answered" THEN {} ELSE {next}

(* handleGetWebhookConfig                                                  *)
Read(r) ==
    /\ r.kind = "load" /\ r.step = "sent"
    /\ Becomes(r, [r EXCEPT !.step = "answered", !.config = active])
    /\ UNCHANGED <<server, editors, left>>

(* handleUpdateWebhookTokens: clone the active configuration and prepare   *)
(* the tokens, ...                                                         *)
Prepare(r) ==
    LET ts == NextTokens(r.body, active.tokens) IN
    /\ r.kind = "save" /\ r.step = "sent"
    /\ Becomes(r, IF Acceptable(ts)
                  THEN [r EXCEPT !.step = "cloned", !.base = active,
                                 !.config = [active EXCEPT !.tokens = ts]]
                  ELSE [r EXCEPT !.step = "answered", !.error = UpdateError(ts)])
    /\ UNCHANGED <<server, editors, left>>

(* ... SavePluginConfig of all of it, which causes OnConfigurationChange,  *)
SaveConfig(r) ==
    LET next == [r.config EXCEPT !.version = stored.version + 1] IN
    /\ r.step = "cloned"
    /\ stored' = next
    /\ hook' = [hook EXCEPT !.due = TRUE]
    /\ Becomes(r, [r EXCEPT !.step = "saved", !.config = next])
    /\ UNCHANGED <<active, editors, left>>

SaveConfigFails(r) ==
    /\ r.step = "cloned"
    /\ Spend(NoPage, "fail")
    /\ Becomes(r, [r EXCEPT !.step = "answered", !.error = "save_token_config"])
    /\ UNCHANGED <<server, editors>>

(* ... and setConfiguration.                                               *)
SetConfiguration(r) ==
    /\ r.step = "saved"
    /\ active' = r.config
    /\ Becomes(r, [r EXCEPT !.step = "answered"])
    /\ UNCHANGED <<stored, hook, editors, left>>

(* The page's own Save button.                                             *)
SaveOtherSettings ==
    /\ Spend(NoPage, "other")
    /\ stored' = [stored EXCEPT !.other = @ + 1]
    /\ hook' = [hook EXCEPT !.due = TRUE]
    /\ UNCHANGED <<active, editors, requests>>

(* OnConfigurationChange reads the saved configuration, then sets it.      *)
OnConfigurationChange ==
    \/ /\ hook.due /\ hook.read = {}
       /\ hook' = [due |-> FALSE, read |-> {stored}]
       /\ UNCHANGED <<stored, active, editors, requests, left>>
    \/ \E c \in hook.read :
       /\ active' = c
       /\ hook' = [hook EXCEPT !.read = {}]
       /\ UNCHANGED <<stored, editors, requests, left>>
-----------------------------------------------------------------------------
(* Answers                                                                 *)

(* tokenRowsFromSanitized                                                  *)
TokenRowsFromSanitized(ts) == [i \in DOMAIN ts |-> [ts[i] EXCEPT !.secret = Blank]]

(* The cases loaded and saved of tokenEditorReducer.                       *)
Filled(ed, kind, config) ==
    [ed EXCEPT !.rows = TokenRowsFromSanitized(config.tokens), !.dirty = FALSE,
               !.request = "idle", !.saving = FALSE, !.loadError = "none", !.saveError = "none",
               !.saved = (kind = "save"),
               !.seen = Named(config.tokens), !.at = config.version, !.blind = FALSE,
               !.typed = Untyped(config.tokens)]

(* Mutated: a failed save leaves the editor saving.                        *)
RefusedStaysSaving(ed, kind, error) ==
    IF kind = "load"
    THEN [ed EXCEPT !.request = "idle", !.loadError = error, !.blind = TRUE]
    ELSE [ed EXCEPT !.saving = FALSE, !.saveError = error]

(* The cases loadFailed and saveFailed.                                    *)
Refused(ed, kind, error) ==
    IF kind = "load"
    THEN [ed EXCEPT !.request = "idle", !.loadError = error, !.blind = TRUE]
    ELSE [ed EXCEPT !.request = "idle", !.saving = FALSE, !.saveError = error]

Receive(r) ==
    LET ed == editors[r.page] IN
    /\ r.page # NoPage
    /\ r.step = "answered"
    /\ editors' = [editors EXCEPT ![r.page] =
                     IF r.error = "none" THEN Filled(ed, r.kind, r.config)
                     ELSE Refused(ed, r.kind, r.error)]
    /\ requests' = requests \ {r}
    /\ UNCHANGED <<server, left>>

(* The connection breaks: the server may take the request all the same.    *)
Break(r) ==
    /\ r.page # NoPage
    /\ Spend(r.page, "fail")
    /\ editors' = [editors EXCEPT ![r.page] = Refused(@, r.kind, "failed")]
    /\ requests' = Aborted(requests, r.page)
    /\ UNCHANGED server
-----------------------------------------------------------------------------
Answer(r) == Read(r) \/ Prepare(r) \/ SaveConfig(r) \/ SetConfiguration(r) \/ Receive(r)

Next ==
    \/ \E p \in Pages :
          \/ Open(p) \/ Close(p) \/ Rerender(p) \/ Add(p) \/ Save(p)
          \/ \E i \in DOMAIN editors[p].rows : Remove(p, i) \/ \E u \in Edits : Edit(p, i, u)
    \/ \E r \in requests : Answer(r) \/ SaveConfigFails(r) \/ Break(r)
    \/ SaveOtherSettings
    \/ OnConfigurationChange

(* The server and the browser go on with requests whose page waits.        *)
Fairness == WF_vars(\E r \in requests : r.page # NoPage /\ Answer(r))

Spec == Init /\ [][Next]_vars /\ Fairness
-----------------------------------------------------------------------------
(* Properties                                                              *)

TypeOK ==
    /\ stored \in Configurations /\ active \in Configurations
    /\ hook \in [due : BOOLEAN, read : SUBSET Configurations]
    /\ editors \in [Pages -> EditorStates]
    /\ requests \subseteq Requests
    /\ left \in Budgets

(* A page waits for one request at most, it says what it waits for, and a  *)
(* save sends the rows the page still shows: its answer, which replaces    *)
(* them, overwrites no draft (WebhookTokensEditor controlsDisabled,        *)
(* saveTokens savingRef, the abort on unmount).                            *)
SavesWhatIsShown ==
    \A r \in requests :
        r.page # NoPage =>
            /\ editors[r.page].request = IF r.kind = "load" THEN "loading" ELSE "saving"
            /\ r.kind = "save" => r.body = editors[r.page].rows
            /\ \A q \in requests : q.page = r.page => q = r

(* A save drops no token its administrator was not shown, unless tokens    *)
(* were saved since the list he was given (which is that of the active     *)
(* configuration, so possibly an older one, where he loaded it), or        *)
(* loading it failed (the load disables the controls; PUT webhook-tokens   *)
(* replaces the list).                                                     *)
UnseenTokensSurvive ==
    [][\A r \in requests :
         SaveConfig(r) /\ r.at = stored.version /\ ~r.blind =>
             Named(stored.tokens) \ Named(stored'.tokens) \subseteq r.seen]_vars

(* A save changes the secret of a token that stays only where somebody     *)
(* meant it: never where the field was blank, and elsewhere only if the    *)
(* secret or the name was entered in that row, or the editor was given the *)
(* secret in a list older than the stored tokens.  It excepts tokens saved *)
(* that the handler's copy does not have, because they were saved after it *)
(* took the active configuration or were not active then                   *)
(* (prepareWebhookTokenUpdate, admin_api.go:71).                           *)
UntypedSecretsSurvive ==
    [][\A r \in requests :
         SaveConfig(r) /\ r.base.version = stored.version =>
             \A i \in DOMAIN stored.tokens, j \in DOMAIN stored'.tokens :
                 /\ stored'.tokens[j].name = stored.tokens[i].name
                 /\ r.body[j].secret = Blank \/ (r.at = stored.version /\ ~r.typed[j])
                 => stored'.tokens[j].secret = stored.tokens[i].secret]_vars

(* A page does not load or save for ever (loadFailed, saveFailed).         *)
RequestsEnd ==
    \A p \in Pages : editors[p].mounted /\ editors[p].request # "idle"
                         ~> (~editors[p].mounted \/ editors[p].request = "idle")
=============================================================================
