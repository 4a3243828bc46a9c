------------------------ MODULE WebhookTokensProofs ------------------------
(***************************************************************************)
(* Proofs about WebhookTokens: an answer overwrites no draft, a save drops *)
(* no token its administrator was not shown and changes no secret nobody   *)
(* meant to change, for any number of pages, names, secrets and saves.     *)
(***************************************************************************)
EXTENDS WebhookTokens, TLAPS

-----------------------------------------------------------------------------
(* Lists of tokens                                                         *)

LEMMA SecretType ==
    ASSUME NEW t \in Tokens, NEW s \in Secrets \union {Blank}
    PROVE  [t EXCEPT !.secret = s] \in Tokens
  BY DEF Tokens

LEMMA DroppedType ==
    ASSUME NEW S, NEW s \in Seq(S), NEW i
    PROVE  Dropped(s, i) \in Seq(S)
  <1>1. Len(s) \in Nat /\ DOMAIN s = 1 .. Len(s)
    OBVIOUS
  <1>2. \A j \in 1 .. Len(s) - 1 : s[j] \in S /\ s[j + 1] \in S
    BY <1>1
  <1>3. CASE Len(s) = 0
    <2>1. 1 .. Len(s) - 1 = 1 .. 0
      BY <1>3
    <2> QED
      BY <2>1, <1>2 DEF Dropped
  <1>4. CASE Len(s) # 0
    <2>1. Len(s) - 1 \in Nat
      BY <1>1, <1>4
    <2> QED
      BY <1>2, <2>1 DEF Dropped
  <1> QED
    BY <1>3, <1>4

LEMMA ChangedType ==
    ASSUME NEW S, NEW s \in Seq(S), NEW i, NEW b \in S
    PROVE  [s EXCEPT ![i] = b] \in Seq(S)
  <1>1. Len(s) \in Nat /\ s \in [1 .. Len(s) -> S]
    OBVIOUS
  <1>2. [s EXCEPT ![i] = b] \in [1 .. Len(s) -> S]
    BY <1>1, Zenon
  <1> QED
    BY <1>1, <1>2

LEMMA UntypedType ==
    ASSUME NEW ts \in Seq(Tokens)
    PROVE  Untyped(ts) \in Seq(BOOLEAN)
  <1>1. Len(ts) \in Nat /\ DOMAIN ts = 1 .. Len(ts)
    OBVIOUS
  <1>2. Untyped(ts) = [i \in 1 .. Len(ts) |-> FALSE]
    BY <1>1 DEF Untyped
  <1> QED
    BY <1>1, <1>2

LEMMA SameLength ==
    ASSUME NEW m \in Nat, NEW n \in Nat, 1 .. m = 1 .. n
    PROVE  m = n
  <1>1. CASE m < n
    <2>1. n \in 1 .. n /\ n \notin 1 .. m
      BY <1>1
    <2> QED
      BY <2>1
  <1>2. CASE n < m
    <2>1. m \in 1 .. m /\ m \notin 1 .. n
      BY <1>2
    <2> QED
      BY <2>1
  <1> QED
    BY <1>1, <1>2

LEMMA WithType ==
    ASSUME NEW t \in Tokens, NEW u \in Edits
    PROVE  With(t, u) \in Tokens
  BY EditsAssumption DEF With, Tokens

LEMMA EditType ==
    ASSUME NEW rows \in Seq(Tokens), NEW i \in DOMAIN rows, NEW u \in Edits
    PROVE  [rows EXCEPT ![i] = With(@, u)] \in Seq(Tokens)
  <1>1. rows[i] \in Tokens
    OBVIOUS
  <1> QED
    BY <1>1, WithType

LEMMA EmptyType == EmptyToken \in Tokens
  BY DEF EmptyToken, Tokens

LEMMA FieldTypes ==
    ASSUME NEW t \in Tokens
    PROVE  t.name \in Names \union {NoName} /\ t.secret \in Secrets \union {Blank}
  BY DEF Tokens

LEMMA SanitizedType ==
    ASSUME NEW ts \in Seq(Tokens)
    PROVE  TokenRowsFromSanitized(ts) \in Seq(Tokens)
  <1>1. \A i \in DOMAIN ts : ts[i] \in Tokens
    OBVIOUS
  <1>2. \A i \in DOMAIN ts : [ts[i] EXCEPT !.secret = Blank] \in Tokens
    BY <1>1, SecretType
  <1> QED
    BY <1>2 DEF TokenRowsFromSanitized

LEMMA NamedType ==
    ASSUME NEW ts \in Seq(Tokens)
    PROVE  Named(ts) \subseteq Names \union {NoName}
  <1>1. \A i \in DOMAIN ts : ts[i] \in Tokens
    OBVIOUS
  <1> QED
    BY <1>1, FieldTypes DEF Named

LEMMA KeptSecretType ==
    ASSUME NEW body \in Seq(Tokens), NEW existing \in Seq(Tokens), NEW i \in DOMAIN body
    PROVE  KeptSecret(body, i, existing) \in Secrets \union {Blank}
  <1>1. body[i] \in Tokens
    OBVIOUS
  <1>2. CASE body[i].secret # Blank \/ body[i].name \notin Named(existing)
    BY <1>1, <1>2, FieldTypes DEF KeptSecret
  <1>3. CASE ~(body[i].secret # Blank \/ body[i].name \notin Named(existing))
    <2> DEFINE k == CHOOSE j \in DOMAIN existing : existing[j].name = body[i].name
    <2>1. \E j \in DOMAIN existing : existing[j].name = body[i].name
      BY <1>3 DEF Named
    <2>2. k \in DOMAIN existing
      BY <2>1
    <2>3. existing[k] \in Tokens
      BY <2>2
    <2> QED
      BY <1>3, <2>3, FieldTypes DEF KeptSecret
  <1> QED
    BY <1>2, <1>3

LEMMA NextTokensType ==
    ASSUME NEW body \in Seq(Tokens), NEW existing \in Seq(Tokens)
    PROVE  NextTokens(body, existing) \in Seq(Tokens)
  <1>1. \A i \in DOMAIN body : body[i] \in Tokens
    OBVIOUS
  <1>2. \A i \in DOMAIN body :
          [body[i] EXCEPT !.secret = KeptSecret(body, i, existing)] \in Tokens
    BY <1>1, KeptSecretType, SecretType
  <1> QED
    BY <1>2 DEF NextTokens

(* Every problem is one of the errors.                                     *)
LEMMA UpdateErrorType ==
    ASSUME NEW ts
    PROVE  UpdateError(ts) \in Errors
  BY Zenon DEF UpdateError, Problem, Errors

(* What prepareWebhookTokenUpdate lets through has every name once.        *)
LEMMA AcceptedAreDistinct ==
    ASSUME NEW ts \in Seq(Tokens), Acceptable(ts)
    PROVE  Distinct(ts)
  <1> SUFFICES ASSUME NEW i \in DOMAIN ts, NEW j \in DOMAIN ts, ts[i].name = ts[j].name, i # j
               PROVE  FALSE
    BY DEF Distinct
  <1>1. Problem(ts, i) = "none" /\ Problem(ts, j) = "none"
    BY DEF Acceptable
  <1>2. i \in Nat /\ j \in Nat
    OBVIOUS
  <1>3. CASE i < j
    BY <1>1, <1>3 DEF Problem
  <1>4. CASE j < i
    BY <1>1, <1>4 DEF Problem
  <1> QED
    BY <1>2, <1>3, <1>4

-----------------------------------------------------------------------------
(* Types of what the actions build                                         *)

LEMMA GivenType ==
    ASSUME stored \in Configurations, NEW v \in GivenValues
    PROVE  v \in Values /\ v.version = stored.version
  <1>1. stored.tokens \in Seq(Tokens) /\ stored.version \in Nat /\ << >> \in Seq(Tokens)
    BY DEF Configurations
  <1>2. PICK ts \in {stored.tokens, << >>}, b \in BOOLEAN :
            v = [tokens |-> ts, error |-> b, version |-> stored.version]
    BY DEF GivenValues
  <1>3. ts \in Seq(Tokens)
    BY <1>1
  <1> QED
    BY <1>1, <1>2, <1>3 DEF Values

LEMMA FreshType ==
    ASSUME NEW v \in Values, NEW disabled \in BOOLEAN
    PROVE  Fresh(v, disabled) \in EditorStates
  <1>1. v.tokens \in Seq(Tokens) /\ v.version \in Nat
    BY DEF Values
  <1>2. Named(v.tokens) \in SUBSET (Names \union {NoName})
    BY <1>1, NamedType
  <1>3. Untyped(v.tokens) \in Seq(BOOLEAN)
    BY <1>1, UntypedType
  <1> HIDE DEF Values
  <1> QED
    BY <1>1, <1>2, <1>3 DEF Fresh, EditorStates, Errors

LEMMA UnmountedType == Unmounted \in EditorStates /\ ~Unmounted.mounted /\ Unmounted.at = 0
  <1> DEFINE v == [tokens |-> << >>, error |-> TRUE, version |-> 0]
  <1>1. v \in Values
    BY DEF Values
  <1>2. Fresh(v, TRUE) \in EditorStates
    BY <1>1, FreshType
  <1>3. Unmounted = [Fresh(v, TRUE) EXCEPT !.mounted = FALSE]
    BY DEF Unmounted
  <1>4. Unmounted \in EditorStates /\ ~Unmounted.mounted
    <2> DEFINE ed == Fresh(v, TRUE)
    <2> HIDE DEF ed
    <2>1. ed \in EditorStates => [ed EXCEPT !.mounted = FALSE] \in EditorStates
                                 /\ ~[ed EXCEPT !.mounted = FALSE].mounted
      BY DEF EditorStates
    <2> QED
      BY <1>2, <1>3, <2>1 DEF ed
  <1>5. Unmounted.at = 0
    BY DEF Unmounted, Fresh
  <1> QED
    BY <1>4, <1>5

LEMMA RequestType ==
    ASSUME stored \in Configurations, NEW p \in Pages, NEW kind \in {"load", "save"},
           NEW ed \in EditorStates
    PROVE  Request(p, kind, ed) \in Requests
  BY DEF Request, Requests, EditorStates, Errors

LEMMA AbortedType ==
    ASSUME requests \subseteq Requests, NEW p \in Pages
    PROVE  Aborted(requests, p) \subseteq Requests
  <1>1. \A r \in requests : r \in Requests /\ [r EXCEPT !.page = NoPage] \in Requests
    BY DEF Requests
  <1> QED
    BY <1>1 DEF Aborted

LEMMA FilledType ==
    ASSUME NEW ed \in EditorStates, NEW kind, NEW c \in Configurations
    PROVE  Filled(ed, kind, c) \in EditorStates
  <1>1. c.tokens \in Seq(Tokens) /\ c.version \in Nat
    BY DEF Configurations
  <1>2. TokenRowsFromSanitized(c.tokens) \in Seq(Tokens)
    BY <1>1, SanitizedType
  <1>3. Named(c.tokens) \in SUBSET (Names \union {NoName})
    BY <1>1, NamedType
  <1>4. Untyped(c.tokens) \in Seq(BOOLEAN)
    BY <1>1, UntypedType
  <1> QED
    BY <1>1, <1>2, <1>3, <1>4 DEF Filled, EditorStates, Errors

LEMMA RefusedType ==
    ASSUME NEW ed \in EditorStates, NEW kind, NEW e \in Errors
    PROVE  Refused(ed, kind, e) \in EditorStates
  BY DEF Refused, EditorStates

-----------------------------------------------------------------------------
(* Type correctness                                                        *)

LEMMA BecomesType ==
    ASSUME requests \subseteq Requests, NEW r, NEW next \in Requests, Becomes(r, next)
    PROVE  requests' \subseteq Requests
  BY DEF Becomes

LEMMA BudgetType ==
    ASSUME left \in Budgets, NEW p \in Pages \union {NoPage}, NEW o \in Operations, Spend(p, o)
    PROVE  left' \in Budgets
  BY DEF Spend, Budgets

LEMMA InitTypeOK == Init => TypeOK
  <1> SUFFICES ASSUME Init PROVE TypeOK
    OBVIOUS
  <1>1. PICK s \in Scenarios :
            /\ stored = [tokens |-> s.tokens, other |-> 0, version |-> 0]
            /\ left = s.budget
    BY DEF Init
  <1>2. s.tokens \in Seq(Tokens) /\ s.budget \in Budgets
    BY ScenariosAssumption
  <1>3. stored \in Configurations
    BY <1>1, <1>2 DEF Configurations
  <1>4. active = stored /\ hook = [due |-> FALSE, read |-> {}] /\ requests = {}
        /\ editors = [p \in Pages |-> Unmounted]
    BY DEF Init
  <1> QED
    BY <1>1, <1>2, <1>3, <1>4, UnmountedType DEF TypeOK

LEMMA MountTypeOK ==
    ASSUME TypeOK, NEW p \in Pages, NEW v \in Values, NEW disabled \in BOOLEAN,
           Mount(p, v, disabled)
    PROVE  editors' \in [Pages -> EditorStates] /\ requests' \subseteq Requests
  <1> DEFINE new == Fresh(v, disabled)
  <1>1. new \in EditorStates
    BY FreshType
  <1>2. Request(p, "load", new) \in Requests
    BY <1>1, RequestType DEF TypeOK
  <1>3. Aborted(requests, p) \subseteq Requests
    BY AbortedType DEF TypeOK
  <1> QED
    BY <1>1, <1>2, <1>3 DEF Mount, TypeOK

LEMMA EditedTypeOK ==
    ASSUME TypeOK, NEW p \in Pages, NEW rows \in Seq(Tokens), NEW typed \in Seq(BOOLEAN),
           Edited(p, rows, typed)
    PROVE  editors' \in [Pages -> EditorStates] /\ UNCHANGED <<server, requests>>
  <1>1. editors[p] \in EditorStates
    BY DEF TypeOK
  <1>2. [editors[p] EXCEPT !.rows = rows, !.typed = typed, !.dirty = TRUE,
                           !.saveError = "none", !.saved = FALSE] \in EditorStates
    BY <1>1 DEF EditorStates, Errors
  <1> QED
    BY <1>2 DEF Edited, TypeOK

LEMMA NextRequestTypes ==
    ASSUME NEW r \in Requests, NEW c \in Configurations, NEW b \in Configurations,
           NEW e \in Errors, NEW s \in {"sent", "cloned", "saved", "answered"}
    PROVE  /\ [r EXCEPT !.step = s] \in Requests
           /\ [r EXCEPT !.step = s, !.config = c] \in Requests
           /\ [r EXCEPT !.step = s, !.error = e] \in Requests
           /\ [r EXCEPT !.step = s, !.base = b, !.config = c] \in Requests
  BY DEF Requests

LEMMA NextConfigTypes ==
    ASSUME NEW c \in Configurations, NEW n \in Nat, NEW ts \in Seq(Tokens)
    PROVE  /\ [c EXCEPT !.tokens = ts] \in Configurations
           /\ [c EXCEPT !.version = n] \in Configurations
           /\ [c EXCEPT !.other = n] \in Configurations
  BY DEF Configurations

LEMMA ConfigNumbers ==
    ASSUME NEW c \in Configurations
    PROVE  c.version \in Nat /\ c.other \in Nat /\ c.tokens \in Seq(Tokens)
  BY DEF Configurations

LEMMA StepTypeOK == TypeOK /\ [Next]_vars => TypeOK'
  <1> SUFFICES ASSUME TypeOK, [Next]_vars PROVE TypeOK'
    OBVIOUS
  <1> USE DEF TypeOK
  <1>1. ASSUME NEW p \in Pages, Open(p) PROVE TypeOK'
    <2>1. PICK v \in GivenValues : Mount(p, v, FALSE)
      BY <1>1 DEF Open
    <2>2. v \in Values
      BY <2>1, GivenType
    <2>3. editors' \in [Pages -> EditorStates] /\ requests' \subseteq Requests
      BY <2>1, <2>2, MountTypeOK
    <2>4. left' \in Budgets
      BY <1>1, BudgetType DEF Open, Operations
    <2> QED
      BY <1>1, <2>3, <2>4 DEF Open, server
  <1>2. ASSUME NEW p \in Pages, Close(p) PROVE TypeOK'
    <2>1. left' \in Budgets
      BY <1>2, BudgetType DEF Close, Operations
    <2> QED
      BY <1>2, <2>1, AbortedType, UnmountedType DEF Close, server
  <1>3. ASSUME NEW p \in Pages, Rerender(p) PROVE TypeOK'
    <2>1. left' \in Budgets
      BY <1>3, BudgetType DEF Rerender, Operations
    <2>2. PICK v \in GivenValues, disabled \in BOOLEAN :
              IF SavedValueKey(v) # SavedValueKey(editors[p].value)
              THEN Mount(p, v, disabled)
              ELSE /\ editors' = [editors EXCEPT ![p].disabled = disabled]
                   /\ UNCHANGED requests
      BY <1>3 DEF Rerender
    <2>3. CASE Mount(p, v, disabled)
      BY <1>3, <2>1, <2>3, GivenType, MountTypeOK DEF Rerender, server
    <2>4. CASE editors' = [editors EXCEPT ![p].disabled = disabled] /\ UNCHANGED requests
      <3>1. editors[p] \in EditorStates
        OBVIOUS
      <3>2. [editors[p] EXCEPT !.disabled = disabled] \in EditorStates
        BY <3>1 DEF EditorStates
      <3> QED
        BY <1>3, <2>1, <2>4, <3>2 DEF Rerender, server
    <2> QED
      BY <2>2, <2>3, <2>4
  <1>4. ASSUME NEW p \in Pages, Add(p) PROVE TypeOK'
    <2>1. left' \in Budgets
      BY <1>4, BudgetType DEF Add, Operations
    <2>2. editors[p].rows \in Seq(Tokens) /\ editors[p].typed \in Seq(BOOLEAN)
      BY DEF EditorStates
    <2>3. /\ Append(editors[p].rows, EmptyToken) \in Seq(Tokens)
          /\ Append(editors[p].typed, FALSE) \in Seq(BOOLEAN)
      BY <2>2, EmptyType
    <2> QED
      BY <1>4, <2>1, <2>3, EditedTypeOK DEF Add, server
  <1>5. ASSUME NEW p \in Pages, NEW i \in DOMAIN editors[p].rows, Remove(p, i) PROVE TypeOK'
    <2>1. left' \in Budgets
      BY <1>5, BudgetType DEF Remove, Operations
    <2>2. editors[p].rows \in Seq(Tokens) /\ editors[p].typed \in Seq(BOOLEAN)
      BY DEF EditorStates
    <2>3. Dropped(editors[p].rows, i) \in Seq(Tokens) /\ Dropped(editors[p].typed, i) \in Seq(BOOLEAN)
      BY <2>2, DroppedType
    <2>4. Edited(p, Dropped(editors[p].rows, i), Dropped(editors[p].typed, i))
      BY <1>5 DEF Remove
    <2> QED
      BY <2>1, <2>3, <2>4, EditedTypeOK DEF server
  <1>6. ASSUME NEW p \in Pages, NEW i \in DOMAIN editors[p].rows, NEW u \in Edits, Edit(p, i, u)
        PROVE  TypeOK'
    <2>1. left' \in Budgets
      BY <1>6, BudgetType DEF Edit, Operations
    <2>2. editors[p].rows \in Seq(Tokens) /\ editors[p].typed \in Seq(BOOLEAN)
      BY DEF EditorStates
    <2> DEFINE new == [editors[p].rows EXCEPT ![i] = With(@, u)]
               typed == [editors[p].typed EXCEPT ![i] = @ \/ u.field \in {"name", "secret"}]
    <2>3. new \in Seq(Tokens) /\ typed \in Seq(BOOLEAN)
      <3> DEFINE b == editors[p].typed[i] \/ u.field \in {"name", "secret"}
      <3>1. b \in BOOLEAN
        OBVIOUS
      <3>2. typed = [editors[p].typed EXCEPT ![i] = b]
        OBVIOUS
      <3> HIDE DEF b
      <3>3. [editors[p].typed EXCEPT ![i] = b] \in Seq(BOOLEAN)
        BY ZenonT(20), <2>2, <3>1, ChangedType
      <3> QED
        BY <2>2, <3>2, <3>3, EditType
    <2>4. Edited(p, new, typed)
      BY <1>6 DEF Edit
    <2> HIDE DEF new, typed
    <2> QED
      BY <2>1, <2>3, <2>4, EditedTypeOK DEF server
  <1>7. ASSUME NEW p \in Pages, Save(p) PROVE TypeOK'
    <2>1. left' \in Budgets
      BY <1>7, BudgetType DEF Save, Operations
    <2>2. editors[p] \in EditorStates
      OBVIOUS
    <2>3. [editors[p] EXCEPT !.saving = TRUE, !.request = "saving",
                             !.saveError = "none", !.saved = FALSE] \in EditorStates
      BY <2>2 DEF EditorStates, Errors
    <2>4. Request(p, "save", editors[p]) \in Requests
      BY <2>2, RequestType
    <2> QED
      BY <1>7, <2>1, <2>3, <2>4 DEF Save, server
  <1>8. ASSUME NEW r \in requests, Read(r) PROVE TypeOK'
    BY <1>8, NextRequestTypes, BecomesType DEF Read, server, Errors
  <1>9. ASSUME NEW r \in requests, Prepare(r) PROVE TypeOK'
    <2> DEFINE ts == NextTokens(r.body, active.tokens)
    <2>1. ts \in Seq(Tokens)
      BY NextTokensType, ConfigNumbers DEF Requests
    <2>2. [active EXCEPT !.tokens = ts] \in Configurations
      BY <2>1, NextConfigTypes
    <2>3. UpdateError(ts) \in Errors
      BY UpdateErrorType
    <2> HIDE DEF ts
    <2> DEFINE next == IF Acceptable(ts)
                       THEN [r EXCEPT !.step = "cloned", !.base = active,
                                      !.config = [active EXCEPT !.tokens = ts]]
                       ELSE [r EXCEPT !.step = "answered", !.error = UpdateError(ts)]
    <2>4. next \in Requests
      BY <2>2, <2>3, NextRequestTypes
    <2>5. Becomes(r, next) /\ UNCHANGED <<server, editors, left>>
      BY <1>9 DEF Prepare, ts
    <2> HIDE DEF next
    <2> QED
      BY <2>4, <2>5, BecomesType DEF server
  <1>10. ASSUME NEW r \in requests, SaveConfig(r) PROVE TypeOK'
    <2> DEFINE new == [r.config EXCEPT !.version = stored.version + 1]
    <2>1. /\ r.config \in Configurations /\ stored.version + 1 \in Nat
          /\ r.config.tokens \in Seq(Tokens)
      BY ConfigNumbers DEF Requests
    <2>2. new \in Configurations
      BY <2>1, NextConfigTypes
    <2>3. /\ stored' = new /\ hook' = [hook EXCEPT !.due = TRUE]
          /\ Becomes(r, [r EXCEPT !.step = "saved", !.config = new])
          /\ UNCHANGED <<active, editors, left>>
      BY <1>10 DEF SaveConfig
    <2> HIDE DEF new
    <2>4. [r EXCEPT !.step = "saved", !.config = new] \in Requests
      BY <2>2, NextRequestTypes DEF Errors
    <2> QED
      BY <2>2, <2>3, <2>4, BecomesType
  <1>11. ASSUME NEW r \in requests, SaveConfigFails(r) PROVE TypeOK'
    <2>1. left' \in Budgets
      BY <1>11, BudgetType DEF SaveConfigFails, Operations
    <2>2. [r EXCEPT !.step = "answered", !.error = "save_token_config"] \in Requests
      BY NextRequestTypes DEF Errors
    <2> QED
      BY <1>11, <2>1, <2>2, BecomesType DEF SaveConfigFails, server
  <1>12. ASSUME NEW r \in requests, SetConfiguration(r) PROVE TypeOK'
    <2>1. [r EXCEPT !.step = "answered"] \in Requests /\ r.config \in Configurations
      BY DEF Requests
    <2>2. /\ Becomes(r, [r EXCEPT !.step = "answered"]) /\ active' = r.config
          /\ UNCHANGED <<stored, hook, editors, left>>
      BY <1>12 DEF SetConfiguration
    <2>3. requests' \subseteq Requests
      BY <2>1, <2>2, BecomesType
    <2> QED
      BY <2>1, <2>2, <2>3
  <1>13. CASE SaveOtherSettings
    <2>1. left' \in Budgets
      BY <1>13, BudgetType DEF SaveOtherSettings, Operations
    <2>2. [stored EXCEPT !.other = @ + 1] \in Configurations
      BY DEF Configurations
    <2> QED
      BY <1>13, <2>1, <2>2 DEF SaveOtherSettings
  <1>14. CASE OnConfigurationChange
    <2>1. CASE hook' = [due |-> FALSE, read |-> {stored}] /\ UNCHANGED <<stored, active, editors, requests, left>>
      BY <2>1
    <2>2. ASSUME NEW c \in hook.read, active' = c, hook' = [hook EXCEPT !.read = {}],
                 UNCHANGED <<stored, editors, requests, left>>
          PROVE  TypeOK'
      <3>1. c \in Configurations
        OBVIOUS
      <3> QED
        BY <2>2, <3>1
    <2> QED
      BY <1>14, <2>1, <2>2 DEF OnConfigurationChange
  <1>15. ASSUME NEW r \in requests, Receive(r) PROVE TypeOK'
    <2>1. r \in Requests /\ r.page \in Pages
      BY <1>15 DEF Receive, Requests
    <2>2. r.config \in Configurations /\ r.error \in Errors /\ editors[r.page] \in EditorStates
      BY <2>1 DEF Requests
    <2>3. /\ Filled(editors[r.page], r.kind, r.config) \in EditorStates
          /\ Refused(editors[r.page], r.kind, r.error) \in EditorStates
      BY <2>2, FilledType, RefusedType
    <2> QED
      BY <1>15, <2>1, <2>3 DEF Receive, server
  <1>16. ASSUME NEW r \in requests, Break(r) PROVE TypeOK'
    <2>1. r.page \in Pages
      BY <1>16 DEF Break, Requests
    <2>2. left' \in Budgets
      BY <1>16, <2>1, BudgetType DEF Break, Operations
    <2>3. Refused(editors[r.page], r.kind, "failed") \in EditorStates
      BY <2>1, RefusedType DEF Errors
    <2> QED
      BY <1>16, <2>1, <2>2, <2>3, AbortedType DEF Break, server
  <1>17. CASE UNCHANGED vars
    BY <1>17 DEF vars
  <1> QED
    BY <1>1, <1>2, <1>3, <1>4, <1>5, <1>6, <1>7, <1>8, <1>9, <1>10, <1>11, <1>12, <1>13,
       <1>14, <1>15, <1>16, <1>17 DEF Next, Answer

(* Every configuration, editor and request has the shape the code gives it *)
(* (admin_settings.tsx TokenEditorState, admin_api.go).                    *)
THEOREM TypeCorrect == Spec => []TypeOK
  BY InitTypeOK, StepTypeOK, PTL DEF Spec

-----------------------------------------------------------------------------
(* A page waits for one request, and a save sends what it shows            *)

LEMMA AbortedFacts ==
    ASSUME requests \subseteq Requests, NEW p \in Pages, NEW q \in Aborted(requests, p)
    PROVE  q.page # p /\ (q.page # NoPage => q \in requests)
  <1>1. CASE q \in {r \in requests : r.page # p}
    BY <1>1
  <1>2. ASSUME NEW r \in requests, q = [r EXCEPT !.page = NoPage] PROVE q.page = NoPage
    <2>1. r \in Requests
      OBVIOUS
    <2> QED
      BY <2>1, <1>2 DEF Requests
  <1> QED
    BY <1>1, <1>2, PagesAssumption DEF Aborted

(* Requests of other pages stay, and their editors as they are: what they  *)
(* wait for is the same.                                                   *)
LEMMA OthersStay ==
    ASSUME TypeOK, SavesWhatIsShown, NEW p \in Pages,
           \A q \in requests' : q.page \notin {p, NoPage} => q \in requests,
           \A o \in Pages \ {p} : editors'[o] = editors[o],
           \A q \in requests' : q.page = p =>
               /\ editors'[p].request = IF q.kind = "load" THEN "loading" ELSE "saving"
               /\ q.kind = "save" => q.body = editors'[p].rows
               /\ \A r \in requests' : r.page = p => r = q
    PROVE  SavesWhatIsShown'
  <1> SUFFICES ASSUME NEW q \in requests', q.page # NoPage
               PROVE  /\ editors'[q.page].request = IF q.kind = "load" THEN "loading" ELSE "saving"
                      /\ q.kind = "save" => q.body = editors'[q.page].rows
                      /\ \A r \in requests' : r.page = q.page => r = q
    BY DEF SavesWhatIsShown
  <1>1. CASE q.page = p
    BY <1>1
  <1>2. CASE q.page # p
    <2>1. q \in requests /\ q.page \in Pages \ {p}
      BY <1>2 DEF TypeOK, Requests
    <2>2. editors'[q.page] = editors[q.page]
      BY <2>1
    <2> QED
      BY <2>1, <2>2, <1>2 DEF SavesWhatIsShown
  <1> QED
    BY <1>1, <1>2

LEMMA MountSaves ==
    ASSUME TypeOK, SavesWhatIsShown, NEW p \in Pages, NEW v, NEW disabled,
           Mount(p, v, disabled)
    PROVE  SavesWhatIsShown'
  <1> DEFINE new == Request(p, "load", Fresh(v, disabled))
  <1>1. new.page = p /\ new.kind = "load"
    BY DEF Request
  <1>2. editors'[p] = Fresh(v, disabled) /\ \A o \in Pages \ {p} : editors'[o] = editors[o]
    BY DEF Mount, TypeOK
  <1>3. ShouldLoadTokens(v) => editors'[p].request = "loading"
    BY <1>2 DEF Fresh
  <1>4. requests' = Aborted(requests, p) \union IF ShouldLoadTokens(v) THEN {new} ELSE {}
    BY DEF Mount
  <1> HIDE DEF new
  <1>5. \A q \in requests' : q \in Aborted(requests, p) \/ (q = new /\ ShouldLoadTokens(v))
    BY <1>4
  <1>6. \A q \in Aborted(requests, p) : q.page # p /\ (q.page # NoPage => q \in requests)
    BY AbortedFacts DEF TypeOK
  <1>7. \A q \in requests' : q.page = p => q = new /\ ShouldLoadTokens(v)
    BY <1>5, <1>6
  <1>8. \A q \in requests' : q.page \notin {p, NoPage} => q \in requests
    BY <1>1, <1>5, <1>6
  <1> QED
    BY <1>1, <1>2, <1>3, <1>7, <1>8, OthersStay

(* A page whose editor may be used waits for nothing.                      *)
LEMMA EditableWaitsForNone ==
    ASSUME TypeOK, SavesWhatIsShown, NEW p \in Pages, Editable(p)
    PROVE  \A q \in requests : q.page # p
  <1>1. editors[p].request \notin {"loading", "saving"}
    BY DEF Editable, ControlsDisabled
  <1> QED
    BY <1>1, PagesAssumption DEF SavesWhatIsShown

LEMMA EditedSaves ==
    ASSUME TypeOK, SavesWhatIsShown, NEW p \in Pages, NEW rows, NEW typed, Editable(p),
           Edited(p, rows, typed)
    PROVE  SavesWhatIsShown'
  <1>1. \A q \in requests : q.page # p
    BY EditableWaitsForNone
  <1>2. \A o \in Pages \ {p} : editors'[o] = editors[o]
    BY DEF Edited, TypeOK
  <1> QED
    BY <1>1, <1>2, OthersStay DEF Edited

(* The server's steps leave page, kind and body of a request alone.        *)
LEMMA BecomesSaves ==
    ASSUME TypeOK, SavesWhatIsShown, NEW r \in requests, NEW next, Becomes(r, next),
           next.page = r.page, next.kind = r.kind, next.body = r.body, UNCHANGED editors
    PROVE  SavesWhatIsShown'
  <1>1. CASE r.page = NoPage
    <2>1. \A q \in requests' : q.page # NoPage => q \in requests
      BY <1>1 DEF Becomes
    <2> QED
      BY <2>1 DEF SavesWhatIsShown
  <1>2. CASE r.page # NoPage
    <2>1. r.page \in Pages
      BY <1>2 DEF TypeOK, Requests
    <2>2. \A q \in requests' : q = next \/ (q \in requests /\ q # r)
      BY DEF Becomes
    <2>3. \A q \in requests : q.page = r.page => q = r
      BY <1>2 DEF SavesWhatIsShown
    <2>4. \A q \in requests' : q.page = r.page => q = next
      BY <2>2, <2>3
    <2>5. \A q \in requests' : q.page \notin {r.page, NoPage} => q \in requests
      BY <2>2
    <2>6. /\ editors'[r.page].request = IF next.kind = "load" THEN "loading" ELSE "saving"
          /\ next.kind = "save" => next.body = editors'[r.page].rows
      BY <1>2 DEF SavesWhatIsShown
    <2> QED
      BY <2>1, <2>4, <2>5, <2>6, OthersStay
  <1> QED
    BY <1>1, <1>2

LEMMA StepSaves == TypeOK /\ SavesWhatIsShown /\ [Next]_vars => SavesWhatIsShown'
  <1> SUFFICES ASSUME TypeOK, SavesWhatIsShown, [Next]_vars PROVE SavesWhatIsShown'
    OBVIOUS
  <1>1. ASSUME NEW p \in Pages, Open(p) PROVE SavesWhatIsShown'
    BY <1>1, MountSaves DEF Open
  <1>2. ASSUME NEW p \in Pages, Close(p) PROVE SavesWhatIsShown'
    <2>1. \A q \in requests' : q.page # p /\ (q.page # NoPage => q \in requests)
      BY <1>2, AbortedFacts DEF Close, TypeOK
    <2>2. \A o \in Pages \ {p} : editors'[o] = editors[o]
      BY <1>2 DEF Close, TypeOK
    <2> QED
      BY <2>1, <2>2, OthersStay
  <1>3. ASSUME NEW p \in Pages, Rerender(p) PROVE SavesWhatIsShown'
    <2>1. PICK v \in GivenValues, disabled \in BOOLEAN :
              \/ Mount(p, v, disabled)
              \/ editors' = [editors EXCEPT ![p].disabled = disabled] /\ UNCHANGED requests
      BY <1>3 DEF Rerender
    <2>2. CASE Mount(p, v, disabled)
      BY <2>2, MountSaves
    <2>3. CASE editors' = [editors EXCEPT ![p].disabled = disabled] /\ UNCHANGED requests
      <3>1. editors[p] \in EditorStates
        BY DEF TypeOK
      <3>2. /\ editors'[p].request = editors[p].request
            /\ editors'[p].rows = editors[p].rows
            /\ \A o \in Pages \ {p} : editors'[o] = editors[o]
        BY <2>3, <3>1 DEF TypeOK, EditorStates
      <3> QED
        BY <2>3, <3>2, OthersStay, PagesAssumption DEF SavesWhatIsShown
    <2> QED
      BY <2>1, <2>2, <2>3
  <1>4. ASSUME NEW p \in Pages, Add(p) PROVE SavesWhatIsShown'
    BY <1>4, EditedSaves DEF Add
  <1>5. ASSUME NEW p \in Pages, NEW i \in DOMAIN editors[p].rows, Remove(p, i)
        PROVE  SavesWhatIsShown'
    BY <1>5, EditedSaves DEF Remove
  <1>6. ASSUME NEW p \in Pages, NEW i \in DOMAIN editors[p].rows, NEW u \in Edits, Edit(p, i, u)
        PROVE  SavesWhatIsShown'
    BY <1>6, EditedSaves DEF Edit
  <1>7. ASSUME NEW p \in Pages, Save(p) PROVE SavesWhatIsShown'
    <2> DEFINE new == Request(p, "save", editors[p])
    <2>1. new.page = p /\ new.kind = "save" /\ new.body = editors[p].rows
      BY DEF Request
    <2>2. requests' = requests \union {new} /\ editors[p] \in EditorStates
      BY <1>7 DEF Save, TypeOK
    <2>3. \A q \in requests : q.page # p
      BY <1>7, EditableWaitsForNone DEF Save
    <2>4. /\ editors'[p].request = "saving" /\ editors'[p].rows = editors[p].rows
          /\ \A o \in Pages \ {p} : editors'[o] = editors[o]
      BY <1>7, <2>2 DEF Save, TypeOK, EditorStates
    <2> HIDE DEF new
    <2> QED
      BY <2>1, <2>2, <2>3, <2>4, OthersStay
  <1>8. ASSUME NEW r \in requests, Answer(r) \/ SaveConfigFails(r), ~Receive(r)
        PROVE  SavesWhatIsShown'
    <2>1. r \in Requests
      BY DEF TypeOK
    <2>2. CASE Read(r)
      <3> DEFINE next == [r EXCEPT !.step = "answered", !.config = active]
      <3>1. next.page = r.page /\ next.kind = r.kind /\ next.body = r.body
        BY <2>1 DEF Requests
      <3>2. Becomes(r, next) /\ UNCHANGED editors
        BY <2>2 DEF Read, server
      <3> HIDE DEF next
      <3> QED
        BY <3>1, <3>2, BecomesSaves
    <2>3. CASE Prepare(r)
      <3> DEFINE ts == NextTokens(r.body, active.tokens)
                 next == IF Acceptable(ts)
                         THEN [r EXCEPT !.step = "cloned", !.base = active,
                                        !.config = [active EXCEPT !.tokens = ts]]
                         ELSE [r EXCEPT !.step = "answered", !.error = UpdateError(ts)]
      <3>1. next.page = r.page /\ next.kind = r.kind /\ next.body = r.body
        BY <2>1 DEF Requests
      <3>2. Becomes(r, next) /\ UNCHANGED editors
        BY <2>3 DEF Prepare
      <3> HIDE DEF next
      <3> QED
        BY <3>1, <3>2, BecomesSaves
    <2>4. CASE SaveConfig(r)
      <3> DEFINE next == [r EXCEPT !.step = "saved",
                                 !.config = [r.config EXCEPT !.version = stored.version + 1]]
      <3>1. next.page = r.page /\ next.kind = r.kind /\ next.body = r.body
        BY <2>1 DEF Requests
      <3>2. Becomes(r, next) /\ UNCHANGED editors
        BY <2>4 DEF SaveConfig
      <3> HIDE DEF next
      <3> QED
        BY <3>1, <3>2, BecomesSaves
    <2>5. CASE SetConfiguration(r)
      <3> DEFINE next == [r EXCEPT !.step = "answered"]
      <3>1. next.page = r.page /\ next.kind = r.kind /\ next.body = r.body
        BY <2>1 DEF Requests
      <3>2. Becomes(r, next) /\ UNCHANGED editors
        BY <2>5 DEF SetConfiguration
      <3> HIDE DEF next
      <3> QED
        BY <3>1, <3>2, BecomesSaves
    <2>6. CASE SaveConfigFails(r)
      <3> DEFINE next == [r EXCEPT !.step = "answered", !.error = "save_token_config"]
      <3>1. next.page = r.page /\ next.kind = r.kind /\ next.body = r.body
        BY <2>1 DEF Requests
      <3>2. Becomes(r, next) /\ UNCHANGED editors
        BY <2>6 DEF SaveConfigFails, server
      <3> HIDE DEF next
      <3> QED
        BY <3>1, <3>2, BecomesSaves
    <2> QED
      BY <1>8, <2>2, <2>3, <2>4, <2>5, <2>6 DEF Answer
  <1>9. ASSUME NEW r \in requests, Receive(r) PROVE SavesWhatIsShown'
    <2>1. r.page \in Pages /\ r.page # NoPage
      BY <1>9 DEF Receive, TypeOK, Requests
    <2>2. \A q \in requests' : q \in requests /\ q.page # r.page
      BY <1>9, <2>1 DEF Receive, SavesWhatIsShown
    <2>3. \A o \in Pages \ {r.page} : editors'[o] = editors[o]
      BY <1>9, <2>1 DEF Receive, TypeOK
    <2> QED
      BY <2>1, <2>2, <2>3, OthersStay
  <1>10. ASSUME NEW r \in requests, Break(r) PROVE SavesWhatIsShown'
    <2>1. r.page \in Pages
      BY <1>10 DEF Break, TypeOK, Requests
    <2>2. \A q \in requests' : q.page # r.page /\ (q.page # NoPage => q \in requests)
      BY <1>10, <2>1, AbortedFacts DEF Break, TypeOK
    <2>3. \A o \in Pages \ {r.page} : editors'[o] = editors[o]
      BY <1>10, <2>1 DEF Break, TypeOK
    <2> QED
      BY <2>1, <2>2, <2>3, OthersStay
  <1>11. CASE SaveOtherSettings \/ OnConfigurationChange \/ UNCHANGED vars
    <2>1. UNCHANGED <<editors, requests>>
      BY <1>11 DEF SaveOtherSettings, OnConfigurationChange, vars
    <2> QED
      BY <2>1 DEF SavesWhatIsShown
  <1> QED
    BY <1>1, <1>2, <1>3, <1>4, <1>5, <1>6, <1>7, <1>8, <1>9, <1>10, <1>11 DEF Next

(* The answer to a save overwrites no draft, for any number of pages and   *)
(* however requests and failures cross (WebhookTokensEditor                *)
(* controlsDisabled, saveTokens, the abort on unmount).                    *)
THEOREM AnswersOverwriteNoDraft == Spec => []SavesWhatIsShown
  <1>1. Init => SavesWhatIsShown
    BY DEF Init, SavesWhatIsShown
  <1> QED
    BY <1>1, InitTypeOK, StepTypeOK, StepSaves, PTL DEF Spec

-----------------------------------------------------------------------------
(* Which list a save was made from                                         *)

(* A copy of the configuration is older, or has the same tokens.           *)
Behind(c) ==
    /\ c.version <= stored.version
    /\ c.version = stored.version => c.tokens = stored.tokens

(* Whoever was given the newest list saw every name in it.                 *)
Knows(x) ==
    /\ x.at <= stored.version
    /\ x.at = stored.version /\ ~x.blind => Named(stored.tokens) \subseteq x.seen

(* A secret in the newest list that nobody typed is the one of its token.  *)
Given(rows, typed, at) ==
    /\ DOMAIN typed = DOMAIN rows
    /\ at = stored.version =>
           \A j \in DOMAIN rows : rows[j].secret # Blank /\ ~typed[j] =>
               \E i \in DOMAIN stored.tokens : /\ stored.tokens[i].name = rows[j].name
                                               /\ stored.tokens[i].secret = rows[j].secret

(* Where a save stands.                                                    *)
Prepared(r) ==
    /\ r.config = [r.base EXCEPT !.tokens = NextTokens(r.body, r.base.tokens)]
    /\ Distinct(r.config.tokens)

Fit(r) ==
    /\ r.step # "cloned" /\ r.error = "none" => Behind(r.config)
    /\ r.kind = "save" => Knows(r) /\ Given(r.body, r.typed, r.at)
    /\ r.step = "cloned" => r.kind = "save" /\ Prepared(r) /\ Behind(r.base)
    /\ r.step # "answered" => r.error = "none"

Informed(ed) ==
    /\ ed.at <= stored.version
    /\ Given(ed.rows, ed.typed, ed.at)
    /\ ed.mounted /\ ~ed.value.error /\ ed.request # "loading" => Knows(ed)

IInv ==
    /\ TypeOK
    /\ SavesWhatIsShown
    /\ Distinct(stored.tokens)
    /\ Behind(active)
    /\ \A c \in hook.read : Behind(c)
    /\ \A r \in requests : Fit(r)
    /\ \A p \in Pages : Informed(editors[p])

(* None of it is lost when the tokens change: every copy is older then,    *)
(* and every list.                                                         *)
LEMMA OlderThanChanged ==
    ASSUME TypeOK, stored' \in Configurations, stored'.version = stored.version + 1
    PROVE  /\ \A c \in Configurations : Behind(c) => Behind(c)'
           /\ \A r \in Requests : Fit(r) => Fit(r)'
           /\ \A e \in EditorStates : Informed(e) => Informed(e)'
  <1>1. stored.version \in Nat
    BY ConfigNumbers DEF TypeOK
  <1>2. \A c \in Configurations : c.version \in Nat
    BY ConfigNumbers
  <1>3. \A r \in Requests :
          r.at \in Nat /\ r.config \in Configurations /\ r.base \in Configurations
    BY DEF Requests
  <1>4. \A e \in EditorStates : e.at \in Nat
    BY DEF EditorStates
  <1>5. \A c \in Configurations : Behind(c) => Behind(c)'
    BY <1>1, <1>2 DEF Behind
  <1>6. \A r \in Requests : Knows(r) => Knows(r)'
    BY <1>1, <1>3 DEF Knows
  <1>7. \A e \in EditorStates : Knows(e) => Knows(e)'
    BY <1>1, <1>4 DEF Knows
  <1>8. \A rows, typed : \A at \in Nat :
          at <= stored.version /\ Given(rows, typed, at) => Given(rows, typed, at)'
    BY <1>1 DEF Given
  <1>9. \A e \in EditorStates : Informed(e) => Informed(e)'
    BY <1>1, <1>4, <1>7, <1>8 DEF Informed
  <1>10. \A r \in Requests : Fit(r) => Fit(r)'
    BY <1>3, <1>5, <1>6, <1>8 DEF Fit, Prepared, Knows
  <1> QED
    BY <1>5, <1>9, <1>10

LEMMA SameStored ==
    ASSUME stored'.tokens = stored.tokens, stored'.version = stored.version
    PROVE  /\ \A c : Behind(c) => Behind(c)'
           /\ \A r : Fit(r) => Fit(r)'
           /\ \A e : Informed(e) => Informed(e)'
  <1>1. \A c : Behind(c) => Behind(c)'
    BY DEF Behind
  <1>2. \A x : Knows(x) => Knows(x)'
    BY DEF Knows
  <1>3. \A rows, typed, at : Given(rows, typed, at) => Given(rows, typed, at)'
    BY DEF Given
  <1> QED
    BY <1>1, <1>2, <1>3 DEF Fit, Informed, Prepared

(* What the steps of an editor make of a list that was given.              *)
LEMMA GivenAppended ==
    ASSUME NEW rows \in Seq(Tokens), NEW typed \in Seq(BOOLEAN), NEW at, Given(rows, typed, at)
    PROVE  Given(Append(rows, EmptyToken), Append(typed, FALSE), at)
  <1> DEFINE rs == Append(rows, EmptyToken)
             ys == Append(typed, FALSE)
  <1>1. /\ Len(rows) \in Nat /\ DOMAIN rows = 1 .. Len(rows) /\ DOMAIN typed = 1 .. Len(typed)
        /\ Len(typed) \in Nat /\ DOMAIN typed = DOMAIN rows
    BY DEF Given
  <1>2. Len(typed) = Len(rows)
    <2>1. 1 .. Len(typed) = 1 .. Len(rows)
      BY <1>1
    <2> QED
      BY <1>1, <2>1, SameLength
  <1>3. DOMAIN rs = 1 .. Len(rows) + 1 /\ DOMAIN ys = DOMAIN rs
    BY <1>1, <1>2, EmptyType
  <1>4. /\ \A j \in DOMAIN rows : rs[j] = rows[j] /\ ys[j] = typed[j]
        /\ rs[Len(rows) + 1] = EmptyToken
    <2>1. \A j \in DOMAIN rows : j # Len(rows) + 1 /\ j # Len(typed) + 1
      BY <1>1, <1>2
    <2>2. \A j \in DOMAIN rows : rs[j] = rows[j]
      BY <1>1, <2>1, EmptyType
    <2>3. \A j \in DOMAIN typed : ys[j] = typed[j]
      BY <1>1, <2>1
    <2>4. rs[Len(rows) + 1] = EmptyToken
      BY <1>1, EmptyType
    <2>5. DOMAIN typed = DOMAIN rows
      BY <1>1
    <2> HIDE DEF rs, ys
    <2> QED
      BY <2>2, <2>3, <2>4, <2>5
  <1>5. \A j \in DOMAIN rs : j \in DOMAIN rows \/ j = Len(rows) + 1
    BY <1>1, <1>3
  <1>6. EmptyToken.secret = Blank
    BY DEF EmptyToken
  <1> HIDE DEF rs, ys
  <1> QED
    BY <1>3, <1>4, <1>5, <1>6 DEF Given

LEMMA GivenDropped ==
    ASSUME NEW rows \in Seq(Tokens), NEW typed \in Seq(BOOLEAN), NEW at, Given(rows, typed, at),
           NEW i \in DOMAIN rows
    PROVE  Given(Dropped(rows, i), Dropped(typed, i), at)
  <1> DEFINE rs == Dropped(rows, i)
             ys == Dropped(typed, i)
  <1>1. /\ Len(rows) \in Nat /\ DOMAIN rows = 1 .. Len(rows) /\ DOMAIN typed = 1 .. Len(typed)
        /\ Len(typed) \in Nat /\ DOMAIN typed = DOMAIN rows
    BY DEF Given
  <1>2. Len(typed) = Len(rows)
    <2>1. 1 .. Len(typed) = 1 .. Len(rows)
      BY <1>1
    <2> QED
      BY <1>1, <2>1, SameLength
  <1>3. DOMAIN rs = 1 .. Len(rows) - 1 /\ DOMAIN ys = DOMAIN rs
    BY <1>2 DEF Dropped
  <1>4. \A j \in DOMAIN rs : \E k \in DOMAIN rows : rs[j] = rows[k] /\ ys[j] = typed[k]
    <2> SUFFICES ASSUME NEW j \in 1 .. Len(rows) - 1
                 PROVE  \E k \in DOMAIN rows : rs[j] = rows[k] /\ ys[j] = typed[k]
      BY <1>3
    <2>1. j \in DOMAIN rows /\ j + 1 \in DOMAIN rows
      BY <1>1
    <2>2. CASE j < i
      BY <1>2, <2>1, <2>2 DEF Dropped
    <2>3. CASE ~(j < i)
      BY <1>2, <2>1, <2>3 DEF Dropped
    <2> QED
      BY <2>2, <2>3
  <1> HIDE DEF rs, ys
  <1> SUFFICES ASSUME at = stored.version, NEW j \in DOMAIN rs, rs[j].secret # Blank, ~ys[j]
               PROVE  \E m \in DOMAIN stored.tokens :
                          /\ stored.tokens[m].name = rs[j].name
                          /\ stored.tokens[m].secret = rs[j].secret
    BY <1>3 DEF Given, rs, ys
  <1>5. PICK k \in DOMAIN rows : rs[j] = rows[k] /\ ys[j] = typed[k]
    BY <1>4
  <1> QED
    BY <1>5 DEF Given

LEMMA GivenEdited ==
    ASSUME NEW rows \in Seq(Tokens), NEW typed \in Seq(BOOLEAN), NEW at, Given(rows, typed, at),
           NEW i \in DOMAIN rows, NEW u \in Edits
    PROVE  Given([rows EXCEPT ![i] = With(@, u)],
                 [typed EXCEPT ![i] = @ \/ u.field \in {"name", "secret"}], at)
  <1> DEFINE rs == [rows EXCEPT ![i] = With(@, u)]
             ys == [typed EXCEPT ![i] = @ \/ u.field \in {"name", "secret"}]
  <1>1. i \in DOMAIN typed /\ rows[i] \in Tokens /\ typed[i] \in BOOLEAN
    BY DEF Given
  <1>2. DOMAIN rs = DOMAIN rows /\ DOMAIN ys = DOMAIN rs
    BY DEF Given
  <1>3. \A j \in DOMAIN rows \ {i} : rs[j] = rows[j] /\ ys[j] = typed[j]
    BY DEF Given
  <1>4. rs[i] = With(rows[i], u) /\ ys[i] = (typed[i] \/ u.field \in {"name", "secret"})
    BY <1>1
  <1>5. u.field \notin {"name", "secret"} =>
            With(rows[i], u).name = rows[i].name /\ With(rows[i], u).secret = rows[i].secret
    BY DEF With
  <1> HIDE DEF rs, ys
  <1>6. ~ys[i] => ~typed[i] /\ rs[i].name = rows[i].name /\ rs[i].secret = rows[i].secret
    BY <1>1, <1>4, <1>5
  <1> SUFFICES ASSUME at = stored.version, NEW j \in DOMAIN rs, rs[j].secret # Blank, ~ys[j]
               PROVE  \E m \in DOMAIN stored.tokens :
                          /\ stored.tokens[m].name = rs[j].name
                          /\ stored.tokens[m].secret = rs[j].secret
    BY <1>2 DEF Given, rs, ys
  <1>7. rs[j].name = rows[j].name /\ rs[j].secret = rows[j].secret /\ ~typed[j]
    BY <1>2, <1>3, <1>6
  <1> QED
    BY <1>2, <1>7 DEF Given

LEMMA GivenSanitized ==
    ASSUME NEW ts \in Seq(Tokens), NEW at
    PROVE  Given(TokenRowsFromSanitized(ts), Untyped(ts), at)
  <1>1. \A j \in DOMAIN ts : ts[j] \in Tokens
    OBVIOUS
  <1>2. \A j \in DOMAIN ts : [ts[j] EXCEPT !.secret = Blank].secret = Blank
    BY <1>1 DEF Tokens
  <1> QED
    BY <1>2 DEF Given, TokenRowsFromSanitized, Untyped

(* A list made of stored tokens, or of none.                               *)
LEMMA GivenStored ==
    ASSUME NEW ts, ts = stored.tokens \/ DOMAIN ts = {}, NEW at
    PROVE  Given(ts, Untyped(ts), at)
  BY DEF Given, Untyped

LEMMA UnmountedInformed ==
    ASSUME stored.version \in Nat
    PROVE  Informed(Unmounted)
  <1> DEFINE v == [tokens |-> << >>, error |-> TRUE, version |-> 0]
  <1>1. Unmounted.rows = << >> /\ Unmounted.typed = Untyped(<< >>) /\ Unmounted.at = 0
    BY DEF Unmounted, Fresh
  <1>2. ~Unmounted.mounted
    BY UnmountedType
  <1>3. Given(<< >>, Untyped(<< >>), 0)
    BY GivenStored
  <1> QED
    BY <1>1, <1>2, <1>3 DEF Informed

LEMMA InitIInv == Init => IInv
  <1> SUFFICES ASSUME Init PROVE IInv
    OBVIOUS
  <1>1. TypeOK
    BY InitTypeOK
  <1>2. PICK s \in Scenarios : stored = [tokens |-> s.tokens, other |-> 0, version |-> 0]
    BY DEF Init
  <1>3. Distinct(stored.tokens)
    BY <1>2, ScenariosAssumption
  <1>4. requests = {} /\ hook.read = {} /\ active = stored
    BY DEF Init
  <1>5. stored.version \in Nat
    BY <1>2
  <1>6. \A p \in Pages : Informed(editors[p])
    BY <1>5, UnmountedInformed DEF Init
  <1> QED
    BY <1>1, <1>3, <1>4, <1>5, <1>6 DEF IInv, SavesWhatIsShown, Behind

LEMMA AbortedFit ==
    ASSUME IInv, NEW p \in Pages, NEW q \in Aborted(requests, p)
    PROVE  Fit(q)
  <1>1. CASE q \in requests
    BY <1>1 DEF IInv
  <1>2. ASSUME NEW r \in requests, q = [r EXCEPT !.page = NoPage] PROVE Fit(q)
    <2>1. r \in Requests /\ Fit(r)
      BY DEF IInv, TypeOK
    <2>2. /\ q.kind = r.kind /\ q.step = r.step /\ q.body = r.body /\ q.base = r.base
          /\ q.config = r.config /\ q.error = r.error
          /\ q.seen = r.seen /\ q.at = r.at /\ q.blind = r.blind /\ q.typed = r.typed
      BY <2>1, <1>2 DEF Requests
    <2> QED
      BY <2>1, <2>2 DEF Fit, Knows, Prepared
  <1> QED
    BY <1>1, <1>2 DEF Aborted

(* A request as it is sent, from an editor that was given a list.          *)
LEMMA RequestFit ==
    ASSUME IInv, NEW p \in Pages, NEW kind \in {"load", "save"}, NEW ed \in EditorStates,
           kind = "save" => Knows(ed) /\ Given(ed.rows, ed.typed, ed.at)
    PROVE  Fit(Request(p, kind, ed))
  <1> DEFINE q == Request(p, kind, ed)
  <1>1. /\ q.kind = kind /\ q.step = "sent" /\ q.error = "none" /\ q.config = stored
        /\ q.seen = ed.seen /\ q.at = ed.at /\ q.blind = ed.blind
        /\ q.body = ed.rows /\ q.typed = ed.typed
    BY DEF Request
  <1>2. Behind(stored)
    BY ConfigNumbers DEF Behind, IInv, TypeOK
  <1> HIDE DEF q
  <1>3. kind = "save" => Knows(q) /\ Given(q.body, q.typed, q.at)
    BY <1>1 DEF Knows
  <1>4. Behind(q.config) /\ q.step # "cloned"
    BY <1>1, <1>2
  <1>5. Fit(q)
    BY <1>1, <1>3, <1>4 DEF Fit
  <1> QED
    BY <1>5 DEF q

(* A step of a page keeps all of it, when what it adds fits.               *)
LEMMA PageStep ==
    ASSUME IInv, TypeOK', SavesWhatIsShown', UNCHANGED server, NEW p \in Pages,
           \A o \in Pages \ {p} : editors'[o] = editors[o],
           Informed(editors'[p]),
           \A q \in requests' : Fit(q)
    PROVE  IInv'
  <1>1. stored' = stored /\ active' = active /\ hook' = hook
    BY DEF server
  <1>2. \A o \in Pages : Informed(editors'[o])
    BY DEF IInv
  <1>3. \A o \in Pages : Informed(editors[o])'
    BY <1>1, <1>2 DEF Informed, Knows, Given
  <1>4. (\A r \in requests : Fit(r))'
    BY <1>1 DEF Fit, Behind, Knows, Given, Prepared
  <1> QED
    BY <1>1, <1>3, <1>4 DEF IInv, Behind

(* An editor that did not load was given the list, or may not be used.     *)
LEMMA FreshInformed ==
    ASSUME IInv, NEW v \in GivenValues, NEW disabled \in BOOLEAN
    PROVE  Informed(Fresh(v, disabled))
  <1> DEFINE ed == Fresh(v, disabled)
  <1>1. /\ ed.value = v /\ ed.seen = Named(v.tokens) /\ ed.at = v.version
        /\ ed.request = (IF ShouldLoadTokens(v) THEN "loading" ELSE "idle")
        /\ ed.rows = v.tokens /\ ed.typed = Untyped(v.tokens)
    BY DEF Fresh
  <1>2. v.version = stored.version /\ stored.version \in Nat
    BY GivenType, ConfigNumbers DEF IInv, TypeOK
  <1>3. v.tokens = stored.tokens \/ v.tokens = << >>
    BY DEF GivenValues
  <1> HIDE DEF ed
  <1>4. Given(ed.rows, ed.typed, ed.at)
    BY <1>1, <1>3, GivenStored
  <1>5. ASSUME v.error \/ ShouldLoadTokens(v) PROVE Informed(ed)
    <2>1. ed.value.error \/ ed.request = "loading"
      BY <1>1, <1>5
    <2>2. ed.at <= stored.version
      BY <1>1, <1>2
    <2> QED
      BY <1>4, <2>1, <2>2 DEF Informed
  <1>6. ASSUME ~v.error, ~ShouldLoadTokens(v) PROVE Informed(ed)
    <2>1. v.tokens = stored.tokens
      BY <1>3, <1>6 DEF ShouldLoadTokens
    <2>2. Knows(ed)
      BY <1>1, <1>2, <2>1 DEF Knows
    <2> QED
      BY <1>4, <2>2 DEF Informed, Knows
  <1> QED
    BY <1>5, <1>6 DEF ed

LEMMA MountIInv ==
    ASSUME IInv, TypeOK', SavesWhatIsShown', UNCHANGED server, NEW p \in Pages,
           NEW v \in GivenValues, NEW disabled \in BOOLEAN, Mount(p, v, disabled)
    PROVE  IInv'
  <1> DEFINE ed == Fresh(v, disabled)
  <1>1. editors'[p] = ed /\ \A o \in Pages \ {p} : editors'[o] = editors[o]
    BY DEF Mount, IInv, TypeOK
  <1>2. Informed(ed)
    BY FreshInformed
  <1>3. ed \in EditorStates
    BY FreshType, GivenType DEF IInv, TypeOK
  <1>4. requests' = Aborted(requests, p) \union
                    IF ShouldLoadTokens(v) THEN {Request(p, "load", ed)} ELSE {}
    BY DEF Mount
  <1> HIDE DEF ed
  <1>5. \A q \in Aborted(requests, p) : Fit(q)
    BY AbortedFit
  <1>6. Fit(Request(p, "load", ed))
    BY <1>3, RequestFit
  <1> DEFINE new == Request(p, "load", ed)
  <1> HIDE DEF new
  <1>7. requests' = Aborted(requests, p) \union IF ShouldLoadTokens(v) THEN {new} ELSE {}
    BY <1>4 DEF new
  <1>8. \A q \in requests' : q \in Aborted(requests, p) \/ q = new
    BY <1>7
  <1>9. \A q \in requests' : Fit(q)
    BY <1>5, <1>6, <1>8 DEF new
  <1> QED
    BY <1>1, <1>2, <1>9, PageStep

LEMMA EditedIInv ==
    ASSUME IInv, TypeOK', SavesWhatIsShown', NEW p \in Pages, NEW rows, NEW typed,
           Editable(p), Edited(p, rows, typed), Given(rows, typed, editors[p].at)
    PROVE  IInv'
  <1>1. editors[p] \in EditorStates /\ Informed(editors[p])
    BY DEF IInv, TypeOK
  <1>2. UNCHANGED <<server, requests>> /\ \A o \in Pages \ {p} : editors'[o] = editors[o]
    BY DEF Edited, IInv, TypeOK
  <1>3. editors'[p] = [editors[p] EXCEPT !.rows = rows, !.typed = typed, !.dirty = TRUE,
                                         !.saveError = "none", !.saved = FALSE]
    BY DEF Edited, IInv, TypeOK
  <1>4. Knows(editors[p])
    BY <1>1 DEF Informed, Editable, ControlsDisabled
  <1>5. /\ editors'[p].seen = editors[p].seen /\ editors'[p].at = editors[p].at
        /\ editors'[p].blind = editors[p].blind
        /\ editors'[p].rows = rows /\ editors'[p].typed = typed
    BY <1>1, <1>3 DEF EditorStates
  <1>6. Informed(editors'[p])
    BY <1>4, <1>5 DEF Informed, Knows
  <1> QED
    BY <1>2, <1>6, PageStep DEF IInv

(* A step of the server that keeps the saved configuration.                *)
LEMMA ServerStep ==
    ASSUME IInv, TypeOK', SavesWhatIsShown', UNCHANGED <<stored, hook, editors>>, Behind(active'),
           NEW r \in requests, NEW next, Becomes(r, next), Fit(next)
    PROVE  IInv'
  <1>1. \A q \in requests' : Fit(q)
    BY DEF Becomes, IInv
  <1>2. (\A q \in requests : Fit(q))'
    BY <1>1 DEF Fit, Behind, Knows, Given, Prepared
  <1>3. (\A p \in Pages : Informed(editors[p]))'
    BY DEF Informed, Knows, Given, IInv
  <1> QED
    BY <1>2, <1>3 DEF IInv, Behind

(* The editor after an answer, or after none.                              *)
LEMMA FilledInformed ==
    ASSUME NEW ed \in EditorStates, NEW kind, NEW c \in Configurations, Behind(c)
    PROVE  Informed(Filled(ed, kind, c))
  <1> DEFINE new == Filled(ed, kind, c)
  <1>1. /\ new.seen = Named(c.tokens) /\ new.at = c.version
        /\ new.rows = TokenRowsFromSanitized(c.tokens) /\ new.typed = Untyped(c.tokens)
    BY DEF Filled, EditorStates
  <1> HIDE DEF new
  <1>2. Knows(new)
    BY <1>1 DEF Knows, Behind
  <1>3. Given(new.rows, new.typed, new.at)
    BY <1>1, GivenSanitized, ConfigNumbers
  <1> QED
    BY <1>2, <1>3 DEF Informed, Knows, new

LEMMA RefusedInformed ==
    ASSUME IInv, NEW p \in Pages, NEW kind \in {"load", "save"}, NEW e,
           editors[p].request = IF kind = "load" THEN "loading" ELSE "saving"
    PROVE  Informed(Refused(editors[p], kind, e))
  <1> DEFINE ed == editors[p]
             new == Refused(ed, kind, e)
  <1>1. ed \in EditorStates /\ Informed(ed)
    BY DEF IInv, TypeOK
  <1>2. CASE kind = "load"
    <2>1. new.blind = TRUE /\ new.at = ed.at /\ new.rows = ed.rows /\ new.typed = ed.typed
      BY <1>1, <1>2 DEF Refused, EditorStates
    <2> HIDE DEF new
    <2>2. Knows(new)
      BY <1>1, <1>2, <2>1 DEF Knows, Informed
    <2> QED
      BY <1>1, <2>1, <2>2 DEF Informed, new
  <1>3. CASE kind = "save"
    <2>1. /\ new.seen = ed.seen /\ new.at = ed.at /\ new.blind = ed.blind
          /\ new.mounted = ed.mounted /\ new.value = ed.value
          /\ new.rows = ed.rows /\ new.typed = ed.typed
      BY <1>1, <1>3 DEF Refused, EditorStates
    <2> HIDE DEF new
    <2>2. Informed(new)
      BY <1>1, <1>3, <2>1 DEF Informed, Knows
    <2> QED
      BY <2>2 DEF new
  <1> QED
    BY <1>2, <1>3

LEMMA StepIInv == IInv /\ [Next]_vars => IInv'
  <1> SUFFICES ASSUME IInv, [Next]_vars PROVE IInv'
    OBVIOUS
  <1>0. TypeOK /\ TypeOK' /\ SavesWhatIsShown'
    BY StepTypeOK, StepSaves DEF IInv
  <1>1. ASSUME NEW p \in Pages, Open(p) PROVE IInv'
    BY <1>0, <1>1, MountIInv DEF Open
  <1>2. ASSUME NEW p \in Pages, Close(p) PROVE IInv'
    <2>1. editors'[p] = Unmounted /\ \A o \in Pages \ {p} : editors'[o] = editors[o]
      BY <1>0, <1>2 DEF Close, TypeOK
    <2>2. Informed(editors'[p])
      BY <1>0, <2>1, UnmountedInformed, ConfigNumbers DEF TypeOK
    <2>3. \A q \in requests' : Fit(q)
      BY <1>2, AbortedFit DEF Close
    <2> QED
      BY <1>0, <1>2, <2>1, <2>2, <2>3, PageStep DEF Close
  <1>3. ASSUME NEW p \in Pages, Rerender(p) PROVE IInv'
    <2>1. PICK v \in GivenValues, disabled \in BOOLEAN :
              \/ Mount(p, v, disabled)
              \/ editors' = [editors EXCEPT ![p].disabled = disabled] /\ UNCHANGED requests
      BY <1>3 DEF Rerender
    <2>2. UNCHANGED server
      BY <1>3 DEF Rerender
    <2>3. CASE Mount(p, v, disabled)
      BY <1>0, <2>2, <2>3, MountIInv
    <2>4. CASE editors' = [editors EXCEPT ![p].disabled = disabled] /\ UNCHANGED requests
      <3>1. editors[p] \in EditorStates /\ Informed(editors[p])
        BY <1>0 DEF TypeOK, IInv
      <3>2. /\ editors'[p] = [editors[p] EXCEPT !.disabled = disabled]
            /\ \A o \in Pages \ {p} : editors'[o] = editors[o]
        BY <1>0, <2>4 DEF TypeOK
      <3>3. Informed(editors'[p])
        BY <3>1, <3>2 DEF Informed, Knows, EditorStates
      <3> QED
        BY <1>0, <2>2, <2>4, <3>2, <3>3, PageStep DEF IInv
    <2> QED
      BY <2>1, <2>3, <2>4
  <1>4. ASSUME NEW p \in Pages, Add(p) PROVE IInv'
    <2>1. editors[p] \in EditorStates /\ Informed(editors[p])
      BY <1>0 DEF TypeOK, IInv
    <2>2. Given(Append(editors[p].rows, EmptyToken), Append(editors[p].typed, FALSE), editors[p].at)
      BY <2>1, GivenAppended DEF Informed, EditorStates
    <2> QED
      BY <1>0, <1>4, <2>2, EditedIInv DEF Add
  <1>5. ASSUME NEW p \in Pages, NEW i \in DOMAIN editors[p].rows, Remove(p, i) PROVE IInv'
    <2>1. editors[p] \in EditorStates /\ Informed(editors[p])
      BY <1>0 DEF TypeOK, IInv
    <2>2. Given(Dropped(editors[p].rows, i), Dropped(editors[p].typed, i), editors[p].at)
      BY <2>1, GivenDropped DEF Informed, EditorStates
    <2> QED
      BY <1>0, <1>5, <2>2, EditedIInv DEF Remove
  <1>6. ASSUME NEW p \in Pages, NEW i \in DOMAIN editors[p].rows, NEW u \in Edits, Edit(p, i, u)
        PROVE  IInv'
    <2>1. editors[p] \in EditorStates /\ Informed(editors[p])
      BY <1>0 DEF TypeOK, IInv
    <2>2. Given([editors[p].rows EXCEPT ![i] = With(@, u)],
                [editors[p].typed EXCEPT ![i] = @ \/ u.field \in {"name", "secret"}],
                editors[p].at)
      BY <2>1, GivenEdited DEF Informed, EditorStates
    <2> QED
      BY <1>0, <1>6, <2>2, EditedIInv DEF Edit
  <1>7. ASSUME NEW p \in Pages, Save(p) PROVE IInv'
    <2>1. editors[p] \in EditorStates /\ Informed(editors[p])
      BY <1>0 DEF TypeOK, IInv
    <2>2. Knows(editors[p])
      BY <1>7, <2>1 DEF Save, Informed, Editable, ControlsDisabled
    <2>3. Fit(Request(p, "save", editors[p]))
      BY <2>1, <2>2, RequestFit DEF Informed
    <2>4. \A q \in requests' : Fit(q)
      BY <1>7, <2>3 DEF Save, IInv
    <2>5. /\ editors'[p] = [editors[p] EXCEPT !.saving = TRUE, !.request = "saving",
                                             !.saveError = "none", !.saved = FALSE]
          /\ \A o \in Pages \ {p} : editors'[o] = editors[o]
      BY <1>0, <1>7 DEF Save, TypeOK
    <2>6. Informed(editors'[p])
      BY <2>1, <2>2, <2>5 DEF Informed, Knows, EditorStates
    <2> QED
      BY <1>0, <1>7, <2>4, <2>5, <2>6, PageStep DEF Save
  <1>8. ASSUME NEW r \in requests, Read(r) PROVE IInv'
    <2> DEFINE next == [r EXCEPT !.step = "answered", !.config = active]
    <2>1. r \in Requests /\ Fit(r)
      BY <1>0 DEF TypeOK, IInv
    <2>2. Fit(next)
      BY <1>8, <2>1 DEF Read, Fit, Requests, IInv
    <2>3. Becomes(r, next) /\ UNCHANGED <<server, editors>>
      BY <1>8 DEF Read
    <2> HIDE DEF next
    <2> QED
      BY <1>0, <2>2, <2>3, ServerStep DEF server, IInv
  <1>9. ASSUME NEW r \in requests, Prepare(r) PROVE IInv'
    <2> DEFINE ts == NextTokens(r.body, active.tokens)
    <2>1. r \in Requests /\ Fit(r) /\ active \in Configurations
      BY <1>0 DEF TypeOK, IInv
    <2>2. ts \in Seq(Tokens)
      BY <2>1, NextTokensType, ConfigNumbers DEF Requests
    <2>3. UNCHANGED <<server, editors>> /\ r.kind = "save" /\ r.step = "sent"
      BY <1>9 DEF Prepare
    <2>4. CASE Acceptable(ts)
      <3> DEFINE next == [r EXCEPT !.step = "cloned", !.base = active,
                                   !.config = [active EXCEPT !.tokens = ts]]
      <3>1. Becomes(r, next)
        BY <1>9, <2>4 DEF Prepare
      <3>2. Distinct(ts)
        BY <2>2, <2>4, AcceptedAreDistinct
      <3>3. /\ next.step = "cloned" /\ next.kind = "save" /\ next.error = "none"
            /\ next.base = active /\ next.config = [active EXCEPT !.tokens = ts]
            /\ next.body = r.body /\ next.typed = r.typed
            /\ next.seen = r.seen /\ next.at = r.at /\ next.blind = r.blind
        BY <2>1, <2>3 DEF Requests, Fit
      <3>4. next.config.tokens = ts
        BY <2>1, <3>3 DEF Configurations
      <3> HIDE DEF next
      <3>5. Prepared(next)
        BY <3>2, <3>3, <3>4 DEF Prepared
      <3>6. Knows(next) /\ Given(next.body, next.typed, next.at)
        BY <2>1, <2>3, <3>3 DEF Knows, Fit
      <3>7. Fit(next)
        BY <3>3, <3>5, <3>6 DEF Fit, IInv
      <3> QED
        BY <1>0, <2>3, <3>1, <3>7, ServerStep DEF server, IInv
    <2>5. CASE ~Acceptable(ts)
      <3> DEFINE next == [r EXCEPT !.step = "answered", !.error = UpdateError(ts)]
      <3>1. Becomes(r, next)
        BY <1>9, <2>5 DEF Prepare
      <3>2. /\ next.step = "answered" /\ next.kind = "save" /\ next.config = r.config
            /\ next.body = r.body /\ next.typed = r.typed
            /\ next.seen = r.seen /\ next.at = r.at /\ next.blind = r.blind
        BY <2>1, <2>3 DEF Requests
      <3> HIDE DEF next, ts
      <3>3. Fit(next)
        BY <2>1, <2>3, <3>2 DEF Fit, Knows
      <3> QED
        BY <1>0, <2>3, <3>1, <3>3, ServerStep DEF server, IInv
    <2> QED
      BY <2>4, <2>5
  <1>10. ASSUME NEW r \in requests, SaveConfig(r) PROVE IInv'
    <2>a. PICK new : new = [r.config EXCEPT !.version = stored.version + 1]
      BY Zenon
    <2>b. PICK next : next = [r EXCEPT !.step = "saved", !.config = new]
      BY Zenon
    <2>1. r \in Requests /\ Fit(r) /\ r.config \in Configurations
      BY <1>0 DEF TypeOK, IInv, Requests
    <2>2. /\ stored' = new /\ hook' = [hook EXCEPT !.due = TRUE]
          /\ Becomes(r, next) /\ UNCHANGED <<active, editors, left>> /\ r.step = "cloned"
      BY <1>10, <2>a, <2>b DEF SaveConfig
    <2>3. new.version = stored.version + 1 /\ new.tokens = r.config.tokens
      BY <2>a, <2>1 DEF Configurations
    <2>4. /\ next.step = "saved" /\ next.kind = r.kind /\ next.config = new /\ next.error = r.error
          /\ next.seen = r.seen /\ next.at = r.at /\ next.blind = r.blind
          /\ next.body = r.body /\ next.typed = r.typed
      BY <2>b, <2>1 DEF Requests
    <2>5. /\ r.error = "none" /\ r.kind = "save" /\ Knows(r) /\ Distinct(new.tokens)
          /\ Given(r.body, r.typed, r.at)
      BY <2>1, <2>2, <2>3 DEF Fit, Prepared
    <2>6. stored' \in Configurations /\ stored'.version = stored.version + 1
      BY <1>0, <2>2, <2>3 DEF TypeOK
    <2>7. Behind(active)' /\ (\A c \in hook.read : Behind(c))'
      <3>1. hook'.read = hook.read /\ hook.read \subseteq Configurations
        BY <1>0, <2>2 DEF TypeOK
      <3>2. \A c \in hook.read : Behind(c)'
        BY <1>0, <2>6, <3>1, OlderThanChanged DEF IInv
      <3>3. Behind(active)'
        BY <1>0, <2>2, <2>6, OlderThanChanged DEF IInv, TypeOK, Behind
      <3> QED
        BY <3>1, <3>2, <3>3 DEF Behind
    <2>8. \A q \in requests : Fit(q)'
      BY <1>0, <2>6, OlderThanChanged DEF IInv, TypeOK
    <2>9. Fit(next)'
      <3>1. stored.version \in Nat /\ r.at \in Nat
        BY <1>0, <2>1, ConfigNumbers DEF TypeOK, Requests
      <3>2. Knows(next)' /\ Given(next.body, next.typed, next.at)'
        BY <2>4, <2>5, <2>6, <3>1 DEF Knows, Given
      <3>3. Behind(next.config)'
        BY <2>2, <2>4, <2>6, <3>1 DEF Behind
      <3> QED
        BY <2>4, <2>5, <3>2, <3>3 DEF Fit
    <2>10. (\A q \in requests : Fit(q))'
      <3>1. \A q \in requests' : q \in requests \/ q = next
        BY <2>2 DEF Becomes
      <3>2. \A q \in requests' : Fit(q)'
        BY <2>8, <2>9, <3>1
      <3> QED
        BY <3>2 DEF Fit, Behind, Knows, Given, Prepared
    <2>11. (\A p \in Pages : Informed(editors[p]))'
      BY <1>0, <2>2, <2>6, OlderThanChanged DEF IInv, TypeOK, Informed, Knows, Given
    <2> QED
      BY <1>0, <2>2, <2>5, <2>7, <2>10, <2>11 DEF IInv
  <1>11. ASSUME NEW r \in requests, SaveConfigFails(r) PROVE IInv'
    <2> DEFINE next == [r EXCEPT !.step = "answered", !.error = "save_token_config"]
    <2>1. r \in Requests /\ Fit(r)
      BY <1>0 DEF TypeOK, IInv
    <2>2. Fit(next)
      BY <2>1 DEF Fit, Knows, Requests
    <2>3. Becomes(r, next) /\ UNCHANGED <<server, editors>>
      BY <1>11 DEF SaveConfigFails
    <2> HIDE DEF next
    <2> QED
      BY <1>0, <2>2, <2>3, ServerStep DEF server, IInv
  <1>12. ASSUME NEW r \in requests, SetConfiguration(r) PROVE IInv'
    <2> DEFINE next == [r EXCEPT !.step = "answered"]
    <2>1. r \in Requests /\ Fit(r)
      BY <1>0 DEF TypeOK, IInv
    <2>2. Behind(r.config)
      BY <1>12, <2>1 DEF SetConfiguration, Fit
    <2>3. Fit(next)
      BY <2>1, <2>2 DEF Fit, Knows, Requests
    <2>4. Becomes(r, next) /\ active' = r.config /\ UNCHANGED <<stored, hook, editors>>
      BY <1>12 DEF SetConfiguration
    <2> HIDE DEF next
    <2> QED
      BY <1>0, <2>2, <2>3, <2>4, ServerStep
  <1>13. CASE SaveOtherSettings
    <2>1. /\ stored' = [stored EXCEPT !.other = @ + 1] /\ hook' = [hook EXCEPT !.due = TRUE]
          /\ UNCHANGED <<active, editors, requests>>
      BY <1>13 DEF SaveOtherSettings
    <2>2. stored'.tokens = stored.tokens /\ stored'.version = stored.version
      BY <1>0, <2>1 DEF TypeOK, Configurations
    <2>3. hook'.read = hook.read
      BY <1>0, <2>1 DEF TypeOK
    <2>4. /\ \A c : Behind(c) => Behind(c)'
          /\ \A q : Fit(q) => Fit(q)'
          /\ \A e : Informed(e) => Informed(e)'
      BY <2>2, SameStored
    <2>5. Behind(active)' /\ (\A c \in hook.read : Behind(c))'
      BY <2>1, <2>3, <2>2 DEF IInv, Behind
    <2>6. (\A q \in requests : Fit(q))'
      BY <2>1, <2>2 DEF IInv, Fit, Behind, Knows, Given, Prepared
    <2>7. (\A p \in Pages : Informed(editors[p]))'
      BY <2>1, <2>2 DEF IInv, Informed, Knows, Given
    <2> QED
      BY <1>0, <2>2, <2>5, <2>6, <2>7 DEF IInv
  <1>14. CASE OnConfigurationChange
    <2>1. UNCHANGED <<stored, editors, requests>>
      BY <1>14 DEF OnConfigurationChange
    <2>2. Behind(active') /\ \A c \in hook'.read : Behind(c)
      <3>1. CASE hook' = [due |-> FALSE, read |-> {stored}] /\ UNCHANGED active
        BY <1>0, <3>1, ConfigNumbers DEF IInv, TypeOK, Behind
      <3>2. ASSUME NEW c \in hook.read, active' = c, hook' = [hook EXCEPT !.read = {}]
            PROVE  Behind(active') /\ \A d \in hook'.read : Behind(d)
        <4>1. hook'.read = {}
          BY <1>0, <3>2 DEF TypeOK
        <4> QED
          BY <3>2, <4>1 DEF IInv
      <3> QED
        BY <1>14, <3>1, <3>2 DEF OnConfigurationChange
    <2>3. Behind(active)' /\ (\A c \in hook.read : Behind(c))'
      BY <2>1, <2>2 DEF Behind
    <2>4. (\A q \in requests : Fit(q))' /\ (\A p \in Pages : Informed(editors[p]))'
      BY <2>1 DEF IInv, Fit, Behind, Knows, Given, Prepared, Informed
    <2> QED
      BY <1>0, <2>1, <2>3, <2>4 DEF IInv
  <1>15. ASSUME NEW r \in requests, Receive(r) PROVE IInv'
    <2>1. r \in Requests /\ Fit(r) /\ r.page \in Pages
      BY <1>0, <1>15 DEF TypeOK, IInv, Receive, Requests
    <2>2. /\ editors'[r.page] = IF r.error = "none" THEN Filled(editors[r.page], r.kind, r.config)
                               ELSE Refused(editors[r.page], r.kind, r.error)
          /\ \A o \in Pages \ {r.page} : editors'[o] = editors[o]
          /\ requests' = requests \ {r} /\ UNCHANGED server
      BY <1>0, <1>15, <2>1 DEF Receive, TypeOK
    <2>3. CASE r.error = "none"
      <3>1. Behind(r.config) /\ r.config \in Configurations /\ editors[r.page] \in EditorStates
        BY <1>0, <1>15, <2>1, <2>3 DEF Receive, Fit, Requests, TypeOK
      <3>2. Informed(editors'[r.page])
        BY <2>2, <2>3, <3>1, FilledInformed
      <3> QED
        BY <1>0, <2>1, <2>2, <3>2, PageStep DEF IInv
    <2>4. CASE r.error # "none"
      <3>1. /\ r.kind \in {"load", "save"}
            /\ editors[r.page].request = IF r.kind = "load" THEN "loading" ELSE "saving"
        BY <1>15, <2>1 DEF Receive, Requests, IInv, SavesWhatIsShown
      <3>2. Informed(editors'[r.page])
        BY <2>1, <2>2, <2>4, <3>1, RefusedInformed
      <3> QED
        BY <1>0, <2>1, <2>2, <3>2, PageStep DEF IInv
    <2> QED
      BY <2>3, <2>4
  <1>16. ASSUME NEW r \in requests, Break(r) PROVE IInv'
    <2>1. r.page \in Pages /\ r.kind \in {"load", "save"}
      BY <1>0, <1>16 DEF Break, TypeOK, Requests
    <2>2. editors[r.page].request = IF r.kind = "load" THEN "loading" ELSE "saving"
      BY <1>16 DEF Break, IInv, SavesWhatIsShown
    <2>3. /\ editors'[r.page] = Refused(editors[r.page], r.kind, "failed")
          /\ \A o \in Pages \ {r.page} : editors'[o] = editors[o]
      BY <1>0, <1>16, <2>1 DEF Break, TypeOK
    <2>4. Informed(editors'[r.page])
      BY <2>1, <2>2, <2>3, RefusedInformed
    <2>5. \A q \in requests' : Fit(q)
      BY <1>16, <2>1, AbortedFit DEF Break
    <2> QED
      BY <1>0, <1>16, <2>1, <2>3, <2>4, <2>5, PageStep DEF Break
  <1>17. CASE UNCHANGED vars
    BY <1>0, <1>17 DEF vars, IInv, Fit, Behind, Knows, Given, Prepared, Informed
  <1> QED
    BY <1>1, <1>2, <1>3, <1>4, <1>5, <1>6, <1>7, <1>8, <1>9, <1>10, <1>11, <1>12, <1>13,
       <1>14, <1>15, <1>16, <1>17 DEF Next, Answer

-----------------------------------------------------------------------------
(* What a save keeps                                                       *)

(* No save drops a token its administrator was not shown, unless tokens    *)
(* were saved since he was given his list or loading it failed (PUT        *)
(* webhook-tokens of admin_api.go, useWebhookTokenEditor).                 *)
THEOREM UnseenAreKept == Spec => UnseenTokensSurvive
  <1>1. IInv /\ [Next]_vars =>
          [\A r \in requests :
             SaveConfig(r) /\ r.at = stored.version /\ ~r.blind =>
                 Named(stored.tokens) \ Named(stored'.tokens) \subseteq r.seen]_vars
    <2> SUFFICES ASSUME IInv, NEW r \in requests, SaveConfig(r), r.at = stored.version, ~r.blind
                 PROVE  Named(stored.tokens) \subseteq r.seen
      OBVIOUS
    <2>1. Fit(r) /\ r.step = "cloned"
      BY DEF IInv, SaveConfig
    <2>2. Knows(r)
      BY <2>1 DEF Fit
    <2> QED
      BY <2>2 DEF Knows, Given
  <1> QED
    BY <1>1, InitIInv, StepIInv, PTL DEF Spec, UnseenTokensSurvive

LEMMA NamesStay ==
    ASSUME NEW body \in Seq(Tokens), NEW existing, NEW j \in DOMAIN body
    PROVE  /\ NextTokens(body, existing)[j].name = body[j].name
           /\ NextTokens(body, existing)[j].secret = KeptSecret(body, j, existing)
  <1> DEFINE t == body[j]
             k == KeptSecret(body, j, existing)
  <1>1. t \in Tokens /\ NextTokens(body, existing)[j] = [t EXCEPT !.secret = k]
    BY DEF NextTokens
  <1> HIDE DEF t, k
  <1>2. [t EXCEPT !.secret = k].secret = k /\ [t EXCEPT !.secret = k].name = t.name
    BY <1>1 DEF Tokens
  <1> QED
    BY <1>1, <1>2 DEF t, k

LEMMA KeptSecrets ==
    ASSUME NEW body \in Seq(Tokens), NEW existing \in Seq(Tokens), Distinct(existing),
           NEW i \in DOMAIN existing, NEW j \in DOMAIN NextTokens(body, existing),
           NextTokens(body, existing)[j].name = existing[i].name
    PROVE  \/ NextTokens(body, existing)[j].secret = existing[i].secret
           \/ /\ body[j].secret = NextTokens(body, existing)[j].secret
              /\ body[j].secret # Blank
  <1>1. j \in DOMAIN body
    BY DEF NextTokens
  <1>3. /\ NextTokens(body, existing)[j].secret = KeptSecret(body, j, existing)
        /\ body[j].name = existing[i].name
    BY <1>1, NamesStay
  <1>4. CASE body[j].secret # Blank
    BY <1>3, <1>4 DEF KeptSecret
  <1>5. CASE body[j].secret = Blank
    <2> DEFINE k == CHOOSE m \in DOMAIN existing : existing[m].name = body[j].name
    <2>1. k \in DOMAIN existing /\ existing[k].name = body[j].name
      BY <1>3
    <2>2. k = i
      BY <1>3, <2>1 DEF Distinct
    <2>3. body[j].name \in Named(existing)
      BY <1>3 DEF Named
    <2>4. KeptSecret(body, j, existing) = existing[k].secret
      BY <1>5, <2>3 DEF KeptSecret
    <2> QED
      BY <1>3, <2>2, <2>4
  <1> QED
    BY <1>4, <1>5

(* A save changes the secret of a token that stays only where the secret   *)
(* or the name was entered in its row, or the editor was given the secret  *)
(* in a list older than the stored tokens, and never where the field was   *)
(* blank; it excepts tokens saved that the handler's copy of the active    *)
(* configuration does not have (prepareWebhookTokenUpdate).                *)
THEOREM UntypedAreKept == Spec => UntypedSecretsSurvive
  <1>1. IInv /\ [Next]_vars =>
          [\A r \in requests :
             SaveConfig(r) /\ r.base.version = stored.version =>
                 \A i \in DOMAIN stored.tokens, j \in DOMAIN stored'.tokens :
                     /\ stored'.tokens[j].name = stored.tokens[i].name
                     /\ r.body[j].secret = Blank \/ (r.at = stored.version /\ ~r.typed[j])
                     => stored'.tokens[j].secret = stored.tokens[i].secret]_vars
    <2> SUFFICES ASSUME IInv, NEW r \in requests, SaveConfig(r), r.base.version = stored.version,
                        NEW i \in DOMAIN stored.tokens, NEW j \in DOMAIN stored'.tokens,
                        stored'.tokens[j].name = stored.tokens[i].name,
                        r.body[j].secret = Blank \/ (r.at = stored.version /\ ~r.typed[j])
                 PROVE  stored'.tokens[j].secret = stored.tokens[i].secret
      OBVIOUS
    <2> DEFINE ts == NextTokens(r.body, stored.tokens)
    <2>1. /\ Fit(r) /\ r.step = "cloned" /\ stored' = [r.config EXCEPT !.version = stored.version + 1]
          /\ stored \in Configurations /\ r.config \in Configurations /\ r.base \in Configurations
          /\ r.body \in Seq(Tokens) /\ Distinct(stored.tokens)
      BY DEF IInv, SaveConfig, TypeOK, Requests
    <2>2. r.base.tokens = stored.tokens /\ Given(r.body, r.typed, r.at)
      BY <2>1 DEF Fit, Behind
    <2>3. stored.tokens \in Seq(Tokens)
      BY <2>1, ConfigNumbers
    <2>4. r.config = [r.base EXCEPT !.tokens = ts]
      BY <2>1, <2>2 DEF Fit, Prepared
    <2> HIDE DEF ts
    <2>5. stored'.tokens = ts
      BY <2>1, <2>4 DEF Configurations
    <2>6. j \in DOMAIN r.body /\ j \in DOMAIN ts
      BY <2>5 DEF ts, NextTokens
    <2>7. \/ ts[j].secret = stored.tokens[i].secret
          \/ r.body[j].secret = ts[j].secret /\ r.body[j].secret # Blank
      BY <2>1, <2>3, <2>5, <2>6, KeptSecrets DEF ts
    <2>8. CASE r.body[j].secret = ts[j].secret /\ r.body[j].secret # Blank
      <3>1. PICK k \in DOMAIN stored.tokens : /\ stored.tokens[k].name = r.body[j].name
                                              /\ stored.tokens[k].secret = r.body[j].secret
        BY <2>2, <2>6, <2>8 DEF Given
      <3>2. ts[j].name = r.body[j].name
        BY <2>1, <2>6, NamesStay DEF ts
      <3>3. k = i
        BY <2>1, <2>5, <3>1, <3>2 DEF Distinct
      <3> QED
        BY <2>5, <2>8, <3>1, <3>3
    <2> QED
      BY <2>5, <2>7, <2>8
  <1> QED
    BY <1>1, InitIInv, StepIInv, PTL DEF Spec, UntypedSecretsSurvive
=============================================================================
