------------------------------- MODULE Portal -------------------------------
(***************************************************************************)
(* The customer portal (apps/portal-api/app.py): the requests that change  *)
(* accounts, a licence, its instances and its HMAC secret, and replays,    *)
(* with the licence table ingress works from.                              *)
(*                                                                         *)
(* Requests are coroutines of one process over a connection pool without   *)
(* transactions: a step is one SQL statement or one publish. Ingress never *)
(* reads the licence from the database. An operator pastes the exported    *)
(* configuration into its environment or file, and ingress loads that at   *)
(* start or on SIGHUP.                                                     *)
(*                                                                         *)
(* Secrets are numbered in the order they are issued, 0 standing for none. *)
(***************************************************************************)
EXTENDS Integers, Sequences, Functions, FiniteSets

CONSTANTS
    Requests,    \* requests in progress
    Emails,      \* addresses that register
    Instances,   \* instance keys of the licence
    Raw,         \* Raw[s]: the wire message stored for signal s, NoRaw when there is none
    MaxSecrets,  \* how many secrets may be issued
    MaxTrades,   \* how often one signal may be executed
    MaxFaults    \* how many statements or publishes may fail

Signals == DOMAIN Raw

NoRaw == [fields |-> << >>, params |-> << >>]

ASSUME PortalAssumption ==
    /\ Requests # {}
    /\ MaxSecrets \in Nat \ {0}
    /\ MaxTrades \in Nat
    /\ MaxFaults \in Nat

VARIABLES
    account,    \* account[e]: "none", "user" (a row without a role) or "member"
    tokens,     \* tokens[e]: how many registrations of e were answered with a token
    lic,        \* the licence: whether it is active, its secret (0 before it exists), the pending one
    issued,     \* secrets issued so far
    inst,       \* inst[i]: "none", "active" or "inactive"
    audited,    \* "active" or "inactive" in the last patch_license row of the audit log
    mixed,      \* TRUE once two patches of the licence ran at the same time
    config,     \* the configuration last answered by an export
    gate,       \* the licence record ingress holds
    stream,     \* replayed messages the bridge has still to deliver
    executed,   \* executed[s]: how often the order of signal s was sent to the broker
    req,        \* req[r]: place and locals of request r
    faults      \* failed calls so far

accounts == <<account, tokens>>
licence == <<lic, issued, inst, audited, mixed>>
ingress == <<config, gate>>
trades == <<stream, executed>>
vars == <<accounts, licence, ingress, trades, req, faults>>

Free == [pc |-> "free"]
NoRecord == [cur |-> 0, pend |-> 0, inst |-> "none", upto |-> 0]

Init ==
    /\ account = [e \in Emails |-> "none"]
    /\ tokens = [e \in Emails |-> 0]
    /\ lic = [active |-> FALSE, cur |-> 0, pend |-> 0]
    /\ issued = 0
    /\ inst = [i \in Instances |-> "none"]
    /\ audited = "none"
    /\ mixed = FALSE
    /\ config = {}
    /\ gate = NoRecord
    /\ stream = {}
    /\ executed = [s \in Signals |-> 1]
    /\ req = [r \in Requests |-> Free]
    /\ faults = 0

Fault ==
    /\ faults < MaxFaults
    /\ faults' = faults + 1

Begin(r, locals) ==
    /\ req[r].pc = "free"
    /\ req' = [req EXCEPT ![r] = locals]

Goto(r, locals) == req' = [req EXCEPT ![r] = locals]

Reply(r) == req' = [req EXCEPT ![r] = Free]

Word(active) == IF active THEN "active" ELSE "inactive"

-----------------------------------------------------------------------------
(* POST /auth/register *)

\* An acceptable registration of an address that is not in use.
RegisterChecks(r) ==
    \E e \in Emails :
        /\ account[e] = "none"
        /\ Begin(r, [pc |-> "register", email |-> e])
        /\ UNCHANGED <<accounts, licence, ingress, trades, faults>>

\* Mutant: the address is not unique in the table.
RegisterInserts_twice(r) ==
    /\ req[r].pc = "register"
    /\ account' = [account EXCEPT ![req[r].email] = "user"]
    /\ Goto(r, [pc |-> "role", email |-> req[r].email])
    /\ UNCHANGED <<tokens, licence, ingress, trades, faults>>

\* The address is unique: the loser of a race, like a failed statement, answers 500.
RegisterInserts(r) ==
    /\ req[r].pc = "register"
    /\ \/ /\ account[req[r].email] = "none"
          /\ account' = [account EXCEPT ![req[r].email] = "user"]
          /\ Goto(r, [pc |-> "role", email |-> req[r].email])
          /\ UNCHANGED faults
       \/ /\ IF account[req[r].email] = "none" THEN Fault ELSE UNCHANGED faults
          /\ Reply(r)
          /\ UNCHANGED account
    /\ UNCHANGED <<tokens, licence, ingress, trades>>

\* The role is a second statement; the token is answered after it.
RegisterGivesRole(r) ==
    /\ req[r].pc = "role"
    /\ \/ /\ account' = [account EXCEPT ![req[r].email] = "member"]
          /\ tokens' = [tokens EXCEPT ![req[r].email] = @ + 1]
          /\ UNCHANGED faults
       \/ Fault /\ UNCHANGED accounts
    /\ Reply(r)
    /\ UNCHANGED <<licence, ingress, trades>>

-----------------------------------------------------------------------------
(* The licence and its instances. Ownership is checked first (_own_license); a *)
(* licence is never deleted and never changes hands, so that read is part of   *)
(* the statement after it, except where its secrets are used.                  *)

\* _audit: the row is inserted after the change; a failure is only logged.
Audit(r) ==
    /\ req[r].pc = "audit"
    /\ \/ /\ audited' = IF req[r].active = "none" THEN audited ELSE req[r].active
          /\ UNCHANGED faults
       \/ Fault /\ UNCHANGED audited
    /\ Reply(r)
    /\ UNCHANGED <<accounts, lic, issued, inst, mixed, ingress, trades>>

Made == lic.cur # 0

AuditNext(r, active) == Begin(r, [pc |-> "audit", active |-> active])

create_license(r) ==
    /\ ~ Made
    /\ issued < MaxSecrets
    /\ issued' = issued + 1
    /\ lic' = [active |-> TRUE, cur |-> issued + 1, pend |-> 0]
    /\ AuditNext(r, "none")
    /\ UNCHANGED <<accounts, inst, audited, mixed, ingress, trades, faults>>

Patching == {r \in Requests : req[r].pc = "audit" /\ req[r].active # "none"}

patch_license(r) ==
    \E active \in BOOLEAN :
        /\ Made
        /\ lic' = [lic EXCEPT !.active = active]
        /\ mixed' = (mixed \/ Patching # {})
        /\ AuditNext(r, Word(active))
        /\ UNCHANGED <<accounts, issued, inst, audited, ingress, trades, faults>>

\* A key that exists answers 409.
create_instance(r) ==
    \E i \in Instances :
        /\ Made
        /\ inst[i] = "none"
        /\ inst' = [inst EXCEPT ![i] = "active"]
        /\ AuditNext(r, "none")
        /\ UNCHANGED <<accounts, lic, issued, audited, mixed, ingress, trades, faults>>

patch_instance(r) ==
    \E i \in Instances, active \in BOOLEAN :
        /\ Made
        /\ inst[i] # "none"
        /\ inst' = [inst EXCEPT ![i] = Word(active)]
        /\ AuditNext(r, "none")
        /\ UNCHANGED <<accounts, lic, issued, audited, mixed, ingress, trades, faults>>

rotate_hmac(r) ==
    /\ Made
    /\ issued < MaxSecrets
    /\ issued' = issued + 1
    /\ lic' = [lic EXCEPT !.pend = issued + 1]
    /\ AuditNext(r, "none")
    /\ UNCHANGED <<accounts, inst, audited, mixed, ingress, trades, faults>>

\* confirm_rotation reads the row, and answers 400 when nothing is pending.
ConfirmChecks(r) ==
    /\ lic.pend # 0
    /\ Begin(r, [pc |-> "confirm", pend |-> lic.pend])
    /\ UNCHANGED <<accounts, licence, ingress, trades, faults>>

\* Mutant: the secret that was read is written.
ConfirmWrites_read(r) ==
    /\ req[r].pc = "confirm"
    /\ lic' = [lic EXCEPT !.cur = req[r].pend, !.pend = 0]
    /\ Goto(r, [pc |-> "audit", active |-> "none"])
    /\ UNCHANGED <<accounts, issued, inst, audited, mixed, ingress, trades, faults>>

\* The statement promotes what is pending by now. When that is nothing, because
\* another confirmation came first, the NOT NULL column refuses it and 500 is answered.
ConfirmWrites(r) ==
    /\ req[r].pc = "confirm"
    /\ \/ /\ lic.pend # 0
          /\ lic' = [lic EXCEPT !.cur = lic.pend, !.pend = 0]
          /\ Goto(r, [pc |-> "audit", active |-> "none"])
       \/ lic.pend = 0 /\ Reply(r) /\ UNCHANGED lic
    /\ UNCHANGED <<accounts, issued, inst, audited, mixed, ingress, trades, faults>>

-----------------------------------------------------------------------------
(* GET /licenses/{id}/config, and ingress *)

\* The licence row, with the number of secrets issued by then.
ExportReads(r) ==
    /\ Made
    /\ Begin(r, [pc |-> "export", cur |-> lic.cur, pend |-> lic.pend, upto |-> issued])
    /\ UNCHANGED <<accounts, licence, ingress, trades, faults>>

\* Mutant: the pending secret is left out.
ExportReplies_primary(r) ==
    /\ req[r].pc = "export"
    /\ config' = {[cur |-> req[r].cur, pend |-> 0, inst |-> i, upto |-> req[r].upto] :
                    i \in {i \in Instances : inst[i] = "active"}}
    /\ Reply(r)
    /\ UNCHANGED <<accounts, licence, gate, trades, faults>>

\* One entry for each active instance, all with the secrets read before.
ExportReplies(r) ==
    /\ req[r].pc = "export"
    /\ config' = {[cur |-> req[r].cur, pend |-> req[r].pend, inst |-> i, upto |-> req[r].upto] :
                    i \in {i \in Instances : inst[i] = "active"}}
    /\ Reply(r)
    /\ UNCHANGED <<accounts, licence, gate, trades, faults>>

\* Ingress loads the configuration. Its table is keyed by the licence: of several
\* entries the last stays, and the query gives them in any order.
Reload ==
    /\ gate' \in IF config = {} THEN {NoRecord} ELSE config
    /\ UNCHANGED <<accounts, licence, config, trades, req, faults>>

\* authenticate: a signature with the primary or with the pending secret will do.
Accepts(secret) == gate # NoRecord /\ secret \in {gate.cur, gate.pend} \ {0}

-----------------------------------------------------------------------------
(* POST /signals/{id}/replay *)

\* Field 8 is an integer, 10 the repeated parameters, the others are strings.
FieldNumbers == 1 .. 9
TraceField == 1
TimeField == 8

\* decode_signal_proto: a field that is absent has no value, a parameter may lack its
\* key or its value.
decode_signal_proto(wire) ==
    [field |-> [n \in FieldNumbers |-> IF n \in DOMAIN wire.fields THEN wire.fields[n] ELSE ""],
     params |-> wire.params]

\* encode_signal_proto: an empty field is left out, a parameter is written whole.
encode_signal_proto(sig) ==
    [fields |-> Restrict(sig.field, {n \in FieldNumbers : sig.field[n] # ""}),
     params |-> [k \in DOMAIN sig.params |->
                    [x \in {"key", "value"} |->
                        IF x \in DOMAIN sig.params[k] THEN sig.params[k][x] ELSE ""]]]

\* A signal without a stored message answers 422.
ReplayReads(r) ==
    \E s \in Signals :
        /\ Raw[s] # NoRaw
        /\ Begin(r, [pc |-> "replay", signal |-> s])
        /\ UNCHANGED <<accounts, licence, ingress, trades, faults>>

\* The message with a new trace and time goes to the subject of the signal's instance.
ReplayPublishes(r) ==
    /\ req[r].pc = "replay"
    /\ \/ LET original == decode_signal_proto(Raw[req[r].signal])
              again == [original EXCEPT !.field[TraceField] = @ \o "-r",
                                        !.field[TimeField] = "now"]
          IN /\ stream' = stream \cup {[signal |-> req[r].signal, wire |-> encode_signal_proto(again)]}
             /\ Goto(r, [pc |-> "audit", active |-> "none"])
             /\ UNCHANGED faults
       \/ Fault /\ Reply(r) /\ UNCHANGED stream
    /\ UNCHANGED <<accounts, licence, ingress, executed>>

\* The executor takes the message like any other: neither the bridge nor the executor
\* remembers which signals it has seen (run_session, execute).
Execute ==
    \E m \in stream :
        /\ executed[m.signal] < MaxTrades
        /\ stream' = stream \ {m}
        /\ executed' = [executed EXCEPT ![m.signal] = @ + 1]
        /\ UNCHANGED <<accounts, licence, ingress, req, faults>>

-----------------------------------------------------------------------------
Handle(r) ==
    \/ RegisterChecks(r) \/ RegisterInserts(r) \/ RegisterGivesRole(r)
    \/ create_license(r) \/ patch_license(r) \/ create_instance(r) \/ patch_instance(r)
    \/ rotate_hmac(r) \/ ConfirmChecks(r) \/ ConfirmWrites(r)
    \/ ExportReads(r) \/ ExportReplies(r)
    \/ ReplayReads(r) \/ ReplayPublishes(r)
    \/ Audit(r)

Next == (\E r \in Requests : Handle(r)) \/ Reload \/ Execute

Spec == Init /\ [][Next]_vars

-----------------------------------------------------------------------------
(* Properties. *)

\* However registrations of one address race, one of them at most is answered with a
\* token, and only once the account has its role. An account is left without a role
\* only by a failure (register): it can then neither be registered again nor repaired.
RegistrationIsWhole ==
    \A e \in Emails :
        /\ tokens[e] <= 1
        /\ tokens[e] = 1 => account[e] = "member"
        /\ account[e] = "user" /\ faults = 0 =>
            \E r \in Requests : req[r].pc = "role" /\ req[r].email = e

\* As long as no secret was issued after the configuration ingress holds was read, a
\* signature with the current secret is accepted, and so is one with the secret the
\* last rotation announced: neither the confirmation nor another export breaks this,
\* in whatever order their statements interleave (rotate_hmac, confirm_rotation,
\* export_config, authenticate).
RotationKeepsAccess ==
    gate # NoRecord /\ gate.upto = issued => Accepts(lic.cur) /\ Accepts(issued)

\* The current secret only ever moves to a younger one, the one pending at that moment:
\* a confirmation that was overtaken by others brings no retired secret back
\* (confirm_rotation).
SecretsMoveForward ==
    [][lic'.cur # lic.cur /\ Made => lic'.cur = lic.pend /\ lic'.cur > lic.cur]_vars

\* Unless two patches overlapped or a call failed, the audit log ends with the state
\* the licence is in, once no patch is in progress (patch_license, _audit).
AuditTellsActive ==
    ~ mixed /\ faults = 0 /\ Patching = {} /\ audited # "none" => audited = Word(lic.active)

\* What a handler does in two statements is whole whatever runs between them: an account and
\* its role, a licence's switch and its audit row (register, patch_license).
TwoStatementsAreWhole == RegistrationIsWhole /\ AuditTellsActive

\* A replay does not trade again, as docs/runbooks/fills-not-arriving.md:149 has it: the
\* executor "will see it's a duplicate and either return the cached fill or reject".
ReplayIsNotATrade ==
    \A s \in Signals : executed[s] <= 1
=============================================================================
