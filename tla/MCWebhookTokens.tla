-------------------------- MODULE MCWebhookTokens --------------------------
(* Instances of WebhookTokens for TLC.                                     *)
EXTENDS WebhookTokens

CONSTANTS p1, p2, ci, deploy, s1, s2, shared

None == [o \in Operations |-> 0]

Token(name, secret, enabled) == [name |-> name, secret |-> secret, enabled |-> enabled]

Two == <<Token(ci, s1, TRUE), Token(deploy, s2, FALSE)>>
One == <<Token(ci, s1, TRUE)>>

Entered(field, to) == [field |-> field, to |-> to]

MCEdits == {Entered("name", ci), Entered("secret", s2), Entered("secret", shared),
            Entered("enabled", FALSE)}

At(first, second, srv) ==
    [p \in {p1, p2, NoPage} |-> IF p = p1 THEN first ELSE IF p = p2 THEN second ELSE srv]

(* One administrator, everything he can do.                                *)
Editing ==
    [tokens |-> Two,
     budget |-> At([None EXCEPT !["open"] = 1, !["add"] = 1, !["edit"] = 2, !["remove"] = 1,
                                !["save"] = 2, !["fail"] = 1],
                   None, [None EXCEPT !["fail"] = 1])]

(* The page goes, comes back and is given other values.                    *)
Reopening ==
    [tokens |-> One,
     budget |-> At([None EXCEPT !["open"] = 2, !["close"] = 1, !["page"] = 1, !["edit"] = 1,
                                !["save"] = 2],
                   None, None)]

(* Two administrators, and the page's own Save button.                     *)
Competing ==
    [tokens |-> One,
     budget |-> At([None EXCEPT !["open"] = 1, !["edit"] = 1, !["remove"] = 1, !["save"] = 1],
                   [None EXCEPT !["open"] = 1, !["edit"] = 1, !["save"] = 1],
                   [None EXCEPT !["other"] = 1])]

MCScenarios == {Editing, Reopening, Competing}
=============================================================================
