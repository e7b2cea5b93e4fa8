---------------------------- MODULE PortalProofs ----------------------------
(***************************************************************************)
(* The portal for any number of requests, addresses, instances and         *)
(* rotations, RotationKeepsAccess, SecretsMoveForward and                  *)
(* TwoStatementsAreWhole; and for any connections, TablesFollowEvents.     *)
(*                                                                         *)
(* The first two follow from where the youngest secret is: it is pending,  *)
(* or it is current and nothing is pending. So every copy of the licence   *)
(* row that was read since it was issued, in an export in progress, in the *)
(* exported configuration or in ingress, holds the youngest secret and the *)
(* current one.                                                            *)
(*                                                                         *)
(* The third one is about two handlers that change something and complete   *)
(* it in a statement of its own. It rests on who is between the two: an    *)
(* account without a role has one request that will give it, and a licence *)
(* that was patched has one that will write the audit row.                 *)
(*                                                                         *)
(* The tables of connections follow the events because, while nothing has  *)
(* failed, each end of a connection closes at most one open row: open rows *)
(* and ended connections together are no fewer than the connections that   *)
(* have a row, and as many if the events were handled in order.            *)
(***************************************************************************)
EXTENDS Sessions, FiniteSetTheorems, TLAPS

\* The youngest secret is pending, or current with nothing pending.
Youngest ==
    /\ issued \in Nat
    /\ lic \in [active : BOOLEAN, cur : Nat, pend : Nat]
    /\ lic.pend = 0 => lic.cur = issued
    /\ lic.pend # 0 => lic.pend = issued /\ lic.cur < lic.pend
    /\ issued # 0 => Made

\* A copy of the row: taken before the youngest secret was issued, or it has the
\* youngest and the current one.
Copy(c) ==
    /\ c.upto \in Nat
    /\ c.upto # 0
    /\ c.upto <= issued
    /\ c.upto = issued => issued \in {c.cur, c.pend} /\ lic.cur \in {c.cur, c.pend}

Copies ==
    /\ DOMAIN req = Requests
    /\ \A r \in Requests : req[r].pc = "export" => Copy(req[r])
    /\ \A c \in config : Copy(c)
    /\ gate # NoRecord => Copy(gate)

SecretsInv == Youngest /\ Copies

\* A step that leaves the licence's secrets and the configuration alone, and puts no
\* request where an export has read the row, keeps the copies sound.
LEMMA OtherStep ==
    ASSUME SecretsInv, UNCHANGED <<issued, ingress>>,
           lic' \in [active : BOOLEAN, cur : Nat, pend : Nat],
           lic'.cur = lic.cur, lic'.pend = lic.pend,
           DOMAIN req' = Requests,
           \A q \in Requests : req'[q] = req[q] \/ req'[q].pc # "export"
    PROVE  SecretsInv'
BY DEF SecretsInv, Youngest, Copies, Copy, Made, ingress

\* Where a request goes on: its own entry changes and no other.
LEMMA Moves ==
    ASSUME NEW r \in Requests, NEW x, DOMAIN req = Requests,
           req' = [req EXCEPT ![r] = x]
    PROVE  /\ DOMAIN req' = Requests
           /\ req'[r] = x
           /\ \A q \in Requests \ {r} : req'[q] = req[q]
OBVIOUS

\* The requests that have nothing to do with the licence's secrets (register,
\* replay_signal, _audit, patch_instance, create_instance).
LEMMA QuietStep ==
    ASSUME SecretsInv, NEW r \in Requests,
           \/ RegisterChecks(r) \/ RegisterInserts(r) \/ RegisterGivesRole(r)
           \/ create_instance(r) \/ patch_instance(r) \/ ConfirmChecks(r)
           \/ ReplayReads(r) \/ ReplayPublishes(r) \/ Audit(r)
    PROVE  SecretsInv' /\ lic' = lic
<1>1. UNCHANGED <<issued, lic, ingress>>
  BY Zenon DEF RegisterChecks, RegisterInserts, RegisterGivesRole, create_instance, patch_instance,
         ConfirmChecks, ReplayReads, ReplayPublishes, Audit, licence
<1>2. \E x : req' = [req EXCEPT ![r] = x] /\ x.pc # "export"
  <2>1. CASE RegisterChecks(r) \/ ConfirmChecks(r) \/ ReplayReads(r)
    BY <2>1, Zenon DEF RegisterChecks, ConfirmChecks, ReplayReads, Begin
  <2>2. CASE RegisterInserts(r)
    BY <2>2, Zenon DEF RegisterInserts, Goto, Reply, Free
  <2>3. CASE RegisterGivesRole(r) \/ Audit(r)
    BY <2>3, Zenon DEF RegisterGivesRole, Audit, Reply, Free
  <2>4. CASE create_instance(r) \/ patch_instance(r)
    BY <2>4, Zenon DEF create_instance, patch_instance, AuditNext, Begin
  <2>5. CASE ReplayPublishes(r)
    BY <2>5, Zenon DEF ReplayPublishes, Goto, Reply, Free
  <2> QED
    BY <2>1, <2>2, <2>3, <2>4, <2>5, Zenon
<1>3. PICK x : req' = [req EXCEPT ![r] = x] /\ x.pc # "export"
  BY <1>2, Zenon
<1>4. DOMAIN req = Requests
  BY Zenon DEF SecretsInv, Copies
<1>5. DOMAIN req' = Requests /\ \A q \in Requests : req'[q] = req[q] \/ req'[q].pc # "export"
  BY <1>3, <1>4, Moves, Zenon
<1> QED
  BY <1>1, <1>5, OtherStep, Zenon DEF SecretsInv, Youngest

\* The statements that change the row's secrets or copy them (create_license,
\* patch_license, rotate_hmac, confirm_rotation, export_config), and ingress loading
\* the configuration.
LEMMA LicenceStep ==
    ASSUME SecretsInv, NEW r \in Requests,
           \/ create_license(r) \/ patch_license(r) \/ rotate_hmac(r) \/ ConfirmWrites(r)
           \/ ExportReads(r) \/ ExportReplies(r)
    PROVE  /\ SecretsInv'
           /\ lic'.cur # lic.cur /\ Made => lic'.cur = lic.pend /\ lic'.cur > lic.cur
<1> USE DEF SecretsInv
<1>0. DOMAIN req = Requests
  BY Zenon DEF Copies
<1>1. CASE create_license(r)
  <2>0. lic' = [active |-> TRUE, cur |-> issued + 1, pend |-> 0] /\ issued' = issued + 1 /\ ~ Made
    BY <1>1, Zenon DEF create_license
  <2>1. /\ issued = 0 /\ issued' = 1
        /\ lic' \in [active : BOOLEAN, cur : Nat, pend : Nat]
        /\ lic'.cur = 1 /\ lic'.pend = 0
    BY <2>0 DEF Youngest, Made
  <2>2. /\ DOMAIN req' = Requests
        /\ \A q \in Requests : req'[q] = req[q] \/ req'[q].pc # "export"
    BY <1>0, <1>1, Moves, Zenon DEF create_license, AuditNext, Begin
  <2>3. UNCHANGED ingress
    BY <1>1, Zenon DEF create_license
  <2> QED
    BY <2>1, <2>2, <2>3 DEF Youngest, Copies, Copy, Made, ingress
<1>2. CASE patch_license(r)
  <2>1. PICK active \in BOOLEAN : lic' = [lic EXCEPT !.active = active]
    BY <1>2, Zenon DEF patch_license
  <2>2. /\ DOMAIN req' = Requests
        /\ \A q \in Requests : req'[q] = req[q] \/ req'[q].pc # "export"
    BY <1>0, <1>2, Moves DEF patch_license, AuditNext, Begin
  <2>3. /\ lic' \in [active : BOOLEAN, cur : Nat, pend : Nat]
        /\ lic'.cur = lic.cur /\ lic'.pend = lic.pend
    BY <2>1, Zenon DEF Youngest
  <2>4. UNCHANGED <<issued, ingress>>
    BY <1>2, Zenon DEF patch_license
  <2> QED
    BY <2>2, <2>3, <2>4, OtherStep, Zenon
<1>3. CASE rotate_hmac(r)
  <2>1. /\ issued' = issued + 1
        /\ lic' \in [active : BOOLEAN, cur : Nat, pend : Nat]
        /\ lic'.cur = lic.cur /\ lic'.pend = issued + 1
    BY <1>3 DEF rotate_hmac, Youngest
  <2>2. /\ DOMAIN req' = Requests
        /\ \A q \in Requests : req'[q] = req[q] \/ req'[q].pc # "export"
    BY <1>0, <1>3, Moves, Zenon DEF rotate_hmac, AuditNext, Begin
  <2>3. UNCHANGED ingress /\ Made
    BY <1>3, Zenon DEF rotate_hmac
  <2> QED
    BY <2>1, <2>2, <2>3 DEF Youngest, Copies, Copy, Made, ingress
<1>4. CASE ConfirmWrites(r)
  <2>1. UNCHANGED <<issued, ingress>>
    BY <1>4, Zenon DEF ConfirmWrites
  <2>2. /\ DOMAIN req' = Requests
        /\ \A q \in Requests : req'[q] = req[q] \/ req'[q].pc # "export"
    BY <1>0, <1>4, Moves DEF ConfirmWrites, Goto, Reply, Free
  <2>3. CASE lic.pend = 0
    BY <1>4, <2>1, <2>2, <2>3, OtherStep, Zenon DEF ConfirmWrites, Youngest
  <2>4. CASE lic.pend # 0
    <3>0. lic' = [lic EXCEPT !.cur = lic.pend, !.pend = 0]
      BY <1>4, <2>4, Zenon DEF ConfirmWrites
    <3>1. /\ lic' \in [active : BOOLEAN, cur : Nat, pend : Nat]
          /\ lic'.cur = issued /\ lic'.pend = 0
          /\ lic.pend = issued /\ lic.cur < issued
      BY <2>4, <3>0, Zenon DEF Youngest
    <3> QED
      BY <2>1, <2>2, <3>1, Zenon DEF Youngest, Copies, Copy, Made, ingress
  <2> QED
    BY <2>3, <2>4, Zenon
<1>5. CASE ExportReads(r)
  <2>1. UNCHANGED <<lic, issued, ingress>> /\ Made
    BY <1>5, Zenon DEF ExportReads, licence
  <2>2. PICK x : /\ x = [pc |-> "export", cur |-> lic.cur, pend |-> lic.pend, upto |-> issued]
                 /\ req' = [req EXCEPT ![r] = x]
    BY <1>5, Zenon DEF ExportReads, Begin
  <2>3. /\ DOMAIN req' = Requests
        /\ req'[r] = x
        /\ \A q \in Requests \ {r} : req'[q] = req[q]
    BY <1>0, <2>2, Moves, Zenon
  <2>4. Copy(x)
    BY <2>1, <2>2 DEF Youngest, Copy, Made
  <2> QED
    BY <2>1, <2>3, <2>4, ZenonT(40) DEF Youngest, Copies, Copy, Made, ingress
<1>6. CASE ExportReplies(r)
  <2>1. UNCHANGED <<lic, issued, gate>>
    BY <1>6, Zenon DEF ExportReplies, licence
  <2>2. /\ DOMAIN req' = Requests
        /\ \A q \in Requests : req'[q] = req[q] \/ req'[q].pc # "export"
    BY <1>0, <1>6, Moves, Zenon DEF ExportReplies, Reply, Free
  <2>3. Copy(req[r])
    BY <1>6, Zenon DEF ExportReplies, Copies
  <2>4. \A c \in config' : Copy(c)
    BY <1>6, <2>3 DEF ExportReplies, Copy
  <2> QED
    BY <2>1, <2>2, <2>4, Zenon DEF Youngest, Copies, Copy, Made
<1> QED
  BY <1>1, <1>2, <1>3, <1>4, <1>5, <1>6, Zenon

\* The same for every step of the portal, of ingress and of the executor.
LEMMA SecretsStep ==
    ASSUME SecretsInv, [Next]_vars
    PROVE  /\ SecretsInv'
           /\ lic'.cur # lic.cur /\ Made => lic'.cur = lic.pend /\ lic'.cur > lic.cur
<1>1. ASSUME NEW r \in Requests, Handle(r)
      PROVE  /\ SecretsInv'
             /\ lic'.cur # lic.cur /\ Made => lic'.cur = lic.pend /\ lic'.cur > lic.cur
  BY <1>1, QuietStep, LicenceStep, Zenon DEF Handle
<1>2. CASE Reload
  BY <1>2, Zenon DEF Reload, SecretsInv, Youngest, Copies, Copy, Made, licence
<1>3. CASE Execute
  BY <1>3 DEF Execute, SecretsInv, Youngest, Copies, Copy, Made, licence, ingress
<1>4. CASE UNCHANGED vars
  BY <1>4, Zenon DEF vars, SecretsInv, Youngest, Copies, Copy, Made, licence, ingress
<1> QED
  BY <1>1, <1>2, <1>3, <1>4, Zenon DEF Next

\* The inductive invariant holds of every behaviour.
LEMMA SecretsHold == Spec => []SecretsInv
<1>1. Init => SecretsInv
  BY DEF Init, SecretsInv, Youngest, Copies, Made, Free
<1>2. SecretsInv /\ [Next]_vars => SecretsInv'
  BY SecretsStep, Zenon
<1> QED
  BY <1>1, <1>2, PTL DEF Spec

\* With any number of requests, rotations and exports in progress, ingress accepts the
\* current and the newest secret as long as its configuration was read after the last
\* rotation (rotate_hmac, confirm_rotation, export_config, authenticate).
THEOREM AccessIsKept == Spec => []RotationKeepsAccess
<1>1. SecretsInv => RotationKeepsAccess
  BY Zenon DEF SecretsInv, Youngest, Copies, Copy, RotationKeepsAccess, Accepts, Made
<1> QED
  BY <1>1, SecretsHold, PTL

\* A retired secret never becomes current again, however confirmations and rotations
\* interleave (confirm_rotation).
THEOREM SecretsNeverReturn == Spec => SecretsMoveForward
<1>1. SecretsInv /\ [Next]_vars =>
        [lic'.cur # lic.cur /\ Made => lic'.cur = lic.pend /\ lic'.cur > lic.cur]_vars
  BY SecretsStep, Zenon
<1> QED
  BY <1>1, SecretsHold, PTL DEF Spec, SecretsMoveForward

-----------------------------------------------------------------------------
(* Changes of two statements. *)

Role(r) == req[r].pc = "role"

\* Whoever is about to give a role has inserted the account, and is alone with it; an
\* account is answered for when it has its role.
Registering ==
    /\ DOMAIN req = Requests /\ faults \in Nat
    /\ account \in [Emails -> {"none", "user", "member"}]
    /\ tokens \in [Emails -> Nat]
    /\ \A r \in Requests : req[r].pc \in {"register", "role"} => req[r].email \in Emails
    /\ \A r \in Requests : Role(r) => account[req[r].email] = "user"
    /\ \A r, q \in Requests : Role(r) /\ Role(q) /\ req[r].email = req[q].email => r = q
    /\ \A e \in Emails : tokens[e] = IF account[e] = "member" THEN 1 ELSE 0
    /\ \A e \in Emails :
        account[e] = "user" /\ faults = 0 => \E r \in Requests : Role(r) /\ req[r].email = e

\* While patches did not overlap, the one under way will write the state the licence is in;
\* when none is, the last row has it. Before there is a licence there is no row.
Auditing ==
    /\ ~ Made => audited = "none" /\ Patching = {}
    /\ ~ mixed =>
        /\ \A r, q \in Patching : r = q
        /\ \A r \in Patching : req[r].active = Word(lic.active)
    /\ AuditTellsActive

\* Faults are counted and never forgotten (Fault).
LEMMA FaultsGrow ==
    ASSUME faults \in Nat, Next
    PROVE  faults' \in Nat /\ (faults' = 0 => faults = 0)
<1>1. Fault \/ faults' = faults
  <2>1. ASSUME NEW r \in Requests, Handle(r)
        PROVE  Fault \/ faults' = faults
    BY <2>1, Zenon
    DEF Handle, RegisterChecks, RegisterInserts, RegisterGivesRole, create_license, patch_license,
        create_instance, patch_instance, rotate_hmac, ConfirmChecks, ConfirmWrites, ExportReads,
        ExportReplies, ReplayReads, ReplayPublishes, Audit
  <2> QED
    BY <2>1, Zenon DEF Next, Reload, Execute
<1> QED
  BY <1>1 DEF Fault

\* What the other requests do to a registration: nothing (app.py).
LEMMA RegisteringKept ==
    ASSUME Registering, UNCHANGED accounts, faults' \in Nat, faults' = 0 => faults = 0,
           DOMAIN req' = Requests,
           \A q \in Requests : \/ req'[q] = req[q]
                               \/ ~ Role(q) /\ req'[q].pc \notin {"register", "role"}
    PROVE  Registering'
<1>1. account' = account /\ tokens' = tokens
  BY Zenon DEF accounts
<1>2. \A q \in Requests : Role(q)' <=> Role(q)
  BY Zenon DEF Role
<1>3. \A q \in Requests : Role(q) => req'[q] = req[q]
  BY Zenon
<1>4. \A q \in Requests : req'[q].pc \in {"register", "role"} => req'[q] = req[q]
  BY Zenon
<1> QED
  BY <1>1, <1>2, <1>3, <1>4 DEF Registering

\* The statements of a registration: the insertion is won by one request only, which
\* gives the role (register).
LEMMA RegisteringStep ==
    ASSUME Registering, faults' \in Nat, faults' = 0 => faults = 0, NEW r \in Requests,
           RegisterChecks(r) \/ RegisterInserts(r) \/ RegisterGivesRole(r)
    PROVE  Registering'
<1>0. DOMAIN req = Requests
  BY Zenon DEF Registering
<1>1. CASE RegisterChecks(r)
  <2>1. PICK e \in Emails : req' = [req EXCEPT ![r] = [pc |-> "register", email |-> e]]
    BY <1>1, Zenon DEF RegisterChecks, Begin
  <2>2. req'[r] = [pc |-> "register", email |-> e] /\ DOMAIN req' = Requests
        /\ \A q \in Requests \ {r} : req'[q] = req[q]
    BY <1>0, <2>1, Moves, Zenon
  <2>3. account' = account /\ tokens' = tokens /\ faults' = faults /\ req[r].pc = "free"
    BY <1>1, Zenon DEF RegisterChecks, Begin, accounts
  <2>4. \A q \in Requests : (Role(q)' <=> Role(q)) /\ (Role(q) => q # r)
    BY <2>2, <2>3 DEF Role
  <2> QED
    BY <2>2, <2>3, <2>4 DEF Registering
<1>2. CASE RegisterInserts(r)
  <2> DEFINE e == req[r].email
  <2>1. req[r].pc = "register" /\ e \in Emails /\ tokens' = tokens
    BY <1>2, Zenon DEF RegisterInserts, Registering
  <2>2. CASE account[e] = "none" /\ account' = [account EXCEPT ![e] = "user"]
             /\ Goto(r, [pc |-> "role", email |-> e]) /\ UNCHANGED faults
    <3>1. req'[r] = [pc |-> "role", email |-> e] /\ DOMAIN req' = Requests
          /\ \A q \in Requests \ {r} : req'[q] = req[q]
      BY <1>0, <2>2, Moves, Zenon DEF Goto
    <3>2. \A q \in Requests \ {r} : Role(q)' <=> Role(q)
      BY <3>1, Zenon DEF Role
    <3>3. Role(r)' /\ req'[r].email = e
      BY <3>1 DEF Role
    <3>4. \A q \in Requests \ {r} : Role(q) => req[q].email # e
      BY <2>2, Zenon DEF Registering
    <3>5. /\ account' \in [Emails -> {"none", "user", "member"}]
          /\ account'[e] = "user" /\ \A f \in Emails \ {e} : account'[f] = account[f]
      BY <2>1, <2>2, ZenonT(40) DEF Registering
    <3> QED
      BY <2>1, <2>2, <3>1, <3>2, <3>3, <3>4, <3>5 DEF Registering
  <2>3. CASE Reply(r) /\ UNCHANGED account
    <3>1. req'[r].pc = "free" /\ DOMAIN req' = Requests
          /\ \A q \in Requests \ {r} : req'[q] = req[q]
      BY <1>0, <2>3, Moves, Zenon DEF Reply, Free
    <3> QED
      BY <2>1, <2>3, <3>1, RegisteringKept, Zenon DEF accounts, Role
  <2> QED
    BY <1>2, <2>2, <2>3, Zenon DEF RegisterInserts
<1>3. CASE RegisterGivesRole(r)
  <2> DEFINE e == req[r].email
  <2>1. Role(r) /\ e \in Emails /\ account[e] = "user"
    BY <1>3, Zenon DEF RegisterGivesRole, Registering, Role
  <2>2. req'[r].pc = "free" /\ DOMAIN req' = Requests
        /\ \A q \in Requests \ {r} : req'[q] = req[q]
    BY <1>0, <1>3, Moves, Zenon DEF RegisterGivesRole, Reply, Free
  <2>3. \A q \in Requests : Role(q)' <=> Role(q) /\ q # r
    BY <2>2, Zenon DEF Role
  <2>4. \A q \in Requests \ {r} : Role(q) => req[q].email # e
    BY <2>1, Zenon DEF Registering
  <2>5. CASE /\ account' = [account EXCEPT ![e] = "member"]
             /\ tokens' = [tokens EXCEPT ![e] = @ + 1]
    <3>1. /\ account' \in [Emails -> {"none", "user", "member"}]
          /\ account'[e] = "member" /\ \A f \in Emails \ {e} : account'[f] = account[f]
      BY <2>1, <2>5, ZenonT(40) DEF Registering
    <3>2. /\ tokens' \in [Emails -> Nat]
          /\ tokens'[e] = 1 /\ \A f \in Emails \ {e} : tokens'[f] = tokens[f]
      BY <2>1, <2>5 DEF Registering
    <3>3. /\ \A q \in Requests : req'[q].pc \in {"register", "role"} => req'[q].email \in Emails
          /\ \A q \in Requests : Role(q)' => req'[q] = req[q] /\ req[q].email # e
      BY <2>2, <2>3, <2>4, Zenon DEF Registering
    <3>4. \A q \in Requests : Role(q)' => account'[req'[q].email] = "user"
      BY <2>3, <3>1, <3>3 DEF Registering, Role
    <3>5. \A f \in Emails : tokens'[f] = IF account'[f] = "member" THEN 1 ELSE 0
      BY <3>1, <3>2 DEF Registering
    <3>6. ASSUME NEW f \in Emails, account'[f] = "user", faults' = 0
          PROVE  \E q \in Requests : Role(q)' /\ req'[q].email = f
      <4>1. f # e /\ account[f] = "user" /\ faults = 0
        BY <3>1, <3>6, Zenon
      <4>2. PICK q \in Requests : Role(q) /\ req[q].email = f
        BY <4>1, Zenon DEF Registering
      <4> QED
        BY <2>2, <2>3, <4>1, <4>2, Zenon
    <3>7. \A x, q \in Requests : Role(x)' /\ Role(q)' /\ req'[x].email = req'[q].email => x = q
      BY <2>3, <3>3 DEF Registering
    <3> QED
      BY <2>2, <3>1, <3>2, <3>3, <3>4, <3>5, <3>6, <3>7, Zenon DEF Registering
  <2>6. CASE Fault /\ UNCHANGED accounts
    <3>1. account' = account /\ tokens' = tokens /\ faults' # 0
      BY <2>6, SMTT(30) DEF accounts, Fault, Registering
    <3> QED
      BY <2>2, <2>3, <3>1 DEF Registering
  <2> QED
    BY <1>3, <2>5, <2>6, Zenon DEF RegisterGivesRole
<1> QED
  BY <1>1, <1>2, <1>3, Zenon

\* x is where a request can be that has no second statement to come.
Plain(x) == x.pc \notin {"register", "role"} /\ (x.pc = "audit" => x.active = "none")

\* What the statements of the other handlers leave alone.
Apart(r) ==
    /\ DOMAIN req' = Requests /\ \A q \in Requests \ {r} : req'[q] = req[q]
    /\ req[r].pc \notin {"role", "audit"} /\ Plain(req'[r])
    /\ UNCHANGED <<accounts, audited, mixed>>
    /\ lic'.active = lic.active /\ (Made => Made')

\* The handlers that neither register an account nor patch the licence go on by
\* themselves (create_instance, patch_instance, rotate_hmac, confirm_rotation,
\* export_config, replay_signal).
LEMMA ApartStep ==
    ASSUME SecretsInv, NEW r \in Requests,
           \/ create_instance(r) \/ patch_instance(r) \/ rotate_hmac(r)
           \/ ConfirmChecks(r) \/ ConfirmWrites(r) \/ ExportReads(r) \/ ExportReplies(r)
           \/ ReplayReads(r) \/ ReplayPublishes(r)
    PROVE  Apart(r)
<1>0. DOMAIN req = Requests /\ lic \in [active : BOOLEAN, cur : Nat, pend : Nat]
  BY Zenon DEF SecretsInv, Copies, Youngest
<1>1. UNCHANGED <<accounts, audited, mixed>>
  BY Zenon
  DEF create_instance, patch_instance, rotate_hmac, ConfirmChecks, ConfirmWrites,
      ExportReads, ExportReplies, ReplayReads, ReplayPublishes, licence
<1>2. \E x : req' = [req EXCEPT ![r] = x] /\ Plain(x)
  <2>1. CASE ConfirmChecks(r) \/ ReplayReads(r) \/ ExportReads(r)
    BY <2>1, Zenon DEF ConfirmChecks, ReplayReads, ExportReads, Begin, Plain
  <2>2. CASE create_instance(r) \/ patch_instance(r) \/ rotate_hmac(r)
    BY <2>2, ZenonT(40) DEF create_instance, patch_instance, rotate_hmac, AuditNext, Begin, Plain
  <2>3. CASE ConfirmWrites(r) \/ ExportReplies(r)
    BY <2>3, SMTT(30) DEF ConfirmWrites, ExportReplies, Goto, Reply, Free, Plain
  <2>4. CASE ReplayPublishes(r)
    BY <2>4, ZenonT(40) DEF ReplayPublishes, Goto, Reply, Free, Plain
  <2> QED
    BY <2>1, <2>2, <2>3, <2>4, Zenon
<1>3. PICK x : req' = [req EXCEPT ![r] = x] /\ Plain(x)
  BY <1>2, Zenon
<1>4. DOMAIN req' = Requests /\ req'[r] = x /\ \A q \in Requests \ {r} : req'[q] = req[q]
  BY <1>0, <1>3, Moves, Zenon
<1>5. req[r].pc \in {"free", "confirm", "export", "replay"}
  BY Zenon
  DEF create_instance, patch_instance, rotate_hmac, ConfirmChecks, ConfirmWrites, ExportReads,
      ExportReplies, ReplayReads, ReplayPublishes, AuditNext, Begin
<1>6. lic'.active = lic.active /\ (Made => Made')
  <2>1. CASE UNCHANGED lic
    BY <2>1, Zenon DEF Made
  <2>2. CASE rotate_hmac(r)
    BY <1>0, <2>2, Zenon DEF rotate_hmac, Made
  <2>3. CASE ConfirmWrites(r)
    BY <1>0, <2>3, Zenon DEF ConfirmWrites, Made
  <2> QED
    BY <2>1, <2>2, <2>3, Zenon
    DEF create_instance, patch_instance, ConfirmChecks, ExportReads, ExportReplies, ReplayReads,
        ReplayPublishes, licence
<1> QED
  BY <1>1, <1>3, <1>4, <1>5, <1>6, Zenon DEF Apart

\* A step that leaves the patches under way, the last row and the licence's switch alone
\* keeps what the audit log tells (_audit).
LEMMA AuditingKept ==
    ASSUME Auditing, UNCHANGED <<audited, mixed>>, lic'.active = lic.active, Made => Made',
           faults' = 0 => faults = 0, Patching' = Patching,
           \A q \in Patching : req'[q] = req[q]
    PROVE  Auditing'
<1>1. Word(lic'.active) = Word(lic.active)
  BY Zenon DEF Word
<1> QED
  BY <1>1, Zenon DEF Auditing, AuditTellsActive

\* The statements that patch the licence or write a row (create_license, patch_license,
\* _audit).
LEMMA AuditingStep ==
    ASSUME SecretsInv, Auditing, faults \in Nat, NEW r \in Requests,
           create_license(r) \/ patch_license(r) \/ Audit(r)
    PROVE  Auditing'
<1>0. DOMAIN req = Requests /\ lic \in [active : BOOLEAN, cur : Nat, pend : Nat] /\ issued \in Nat
  BY Zenon DEF SecretsInv, Copies, Youngest
<1>1. CASE create_license(r)
  <2>1. audited = "none" /\ Patching = {} /\ audited' = audited /\ lic'.cur = issued + 1
    BY <1>1, Zenon DEF create_license, Auditing
  <2>2. req'[r] = [pc |-> "audit", active |-> "none"]
        /\ \A q \in Requests \ {r} : req'[q] = req[q]
    BY <1>0, <1>1, Moves, Zenon DEF create_license, AuditNext, Begin
  <2>3. Patching' = {}
    BY <2>1, <2>2 DEF Patching
  <2>4. Made'
    BY <1>0, <2>1 DEF Made
  <2> QED
    BY <2>1, <2>3, <2>4, Zenon DEF Auditing, AuditTellsActive
<1>2. CASE patch_license(r)
  <2>1. PICK active \in BOOLEAN : /\ lic' = [lic EXCEPT !.active = active]
                                  /\ AuditNext(r, Word(active))
    BY <1>2, Zenon DEF patch_license
  <2>2. Made /\ mixed' = (mixed \/ Patching # {}) /\ req[r].pc = "free"
    BY <1>2, <2>1, Zenon DEF patch_license, AuditNext, Begin
  <2>3. req'[r] = [pc |-> "audit", active |-> Word(active)]
        /\ \A q \in Requests \ {r} : req'[q] = req[q]
    BY <1>0, <2>1, Moves, Zenon DEF AuditNext, Begin
  <2>4. Made' /\ lic'.active = active
    BY <1>0, <2>1, <2>2, Zenon DEF Made
  <2>5. Word(active) # "none"
    BY Zenon DEF Word
  <2>6. Patching' = Patching \cup {r}
    BY <2>2, <2>3, <2>5 DEF Patching
  <2>7. ASSUME ~ mixed'
        PROVE  Patching' = {r} /\ req'[r].active = Word(lic'.active)
    <3>1. Patching' = {r}
      BY <2>2, <2>6, <2>7, Zenon
    <3>2. Word(lic'.active) = Word(active)
      BY <2>4, Zenon DEF Word
    <3> QED
      BY <2>3, <3>1, <3>2
  <2> QED
    BY <2>4, <2>6, <2>7, Zenon DEF Auditing, AuditTellsActive
<1>3. CASE Audit(r)
  <2>1. req'[r].pc = "free" /\ \A q \in Requests \ {r} : req'[q] = req[q]
    BY <1>0, <1>3, Moves, Zenon DEF Audit, Reply, Free
  <2>2. UNCHANGED <<lic, mixed>> /\ req[r].pc = "audit"
    BY <1>3, Zenon DEF Audit
  <2>3. Patching' = Patching \ {r}
    BY <2>1, Zenon DEF Patching
  <2>4. Made' = Made
    BY <2>2, Zenon DEF Made
  <2>5. ASSUME ~ mixed
        PROVE  /\ \A x, q \in Patching' : x = q
               /\ \A q \in Patching' : req'[q].active = Word(lic'.active)
    BY <2>1, <2>2, <2>3, <2>5, Zenon DEF Auditing, Patching
  <2>6. faults' = 0 => /\ faults = 0
                       /\ audited' = IF req[r].active = "none" THEN audited ELSE req[r].active
    BY <1>3, SMTT(30) DEF Audit, Fault
  <2>7. audited' # audited => r \in Patching
    BY <1>3, <2>2, Zenon DEF Audit, Patching
  <2>8. AuditTellsActive'
    <3> SUFFICES ASSUME ~ mixed, faults' = 0, Patching' = {}, audited' # "none"
                 PROVE  audited' = Word(lic.active)
      BY <2>2, Zenon DEF AuditTellsActive, Word
    <3>1. CASE r \in Patching
      BY <2>6, <3>1, Zenon DEF Auditing, Patching
    <3>2. CASE r \notin Patching
      BY <2>3, <2>6, <2>7, <3>2, Zenon DEF Auditing, AuditTellsActive
    <3> QED
      BY <3>1, <3>2, Zenon
  <2>9. ~ Made => audited' = "none" /\ Patching' = {}
    BY <2>3, <2>7, Zenon DEF Auditing
  <2> QED
    BY <2>2, <2>4, <2>5, <2>8, <2>9, Zenon DEF Auditing
<1> QED
  BY <1>1, <1>2, <1>3, Zenon

\* Both handlers of two statements, for every step (app.py).
LEMMA TwoStatementsStep ==
    ASSUME SecretsInv, Registering, Auditing, [Next]_vars
    PROVE  Registering' /\ Auditing'
<1>0. faults \in Nat /\ DOMAIN req = Requests
  BY Zenon DEF Registering
<1>1. CASE UNCHANGED vars
  <2>1. UNCHANGED <<account, tokens, lic, audited, mixed, req, faults>>
    BY <1>1, Zenon DEF vars, accounts, licence
  <2> QED
    BY <2>1 DEF Registering, Role, Auditing, AuditTellsActive, Patching, Made, Word
<1>2. CASE Next
  <2>0. faults' \in Nat /\ (faults' = 0 => faults = 0)
    BY <1>0, <1>2, FaultsGrow, Zenon
  <2>1. ASSUME NEW r \in Requests, RegisterChecks(r) \/ RegisterInserts(r) \/ RegisterGivesRole(r)
        PROVE  Registering' /\ Auditing'
    <3>1. UNCHANGED <<lic, audited, mixed>>
      BY <2>1, Zenon DEF RegisterChecks, RegisterInserts, RegisterGivesRole, licence
    <3>2. \E x : req' = [req EXCEPT ![r] = x] /\ x.pc # "audit"
      BY <2>1, Zenon DEF RegisterChecks, RegisterInserts, RegisterGivesRole, Begin, Goto, Reply, Free
    <3>3. \A q \in Requests \ {r} : req'[q] = req[q]
      BY <1>0, <3>2, Moves, Zenon
    <3>4. req'[r].pc # "audit" /\ req[r].pc # "audit"
      BY <1>0, <2>1, <3>2, Moves, Zenon DEF RegisterChecks, RegisterInserts, RegisterGivesRole, Begin
    <3>5. Patching' = Patching /\ \A q \in Patching : req'[q] = req[q]
      BY <3>3, <3>4, Zenon DEF Patching
    <3>6. lic'.active = lic.active /\ (Made => Made')
      BY <3>1, Zenon DEF Made
    <3> QED
      BY <2>0, <2>1, <3>1, <3>5, <3>6, RegisteringStep, AuditingKept, Zenon
  <2>2. ASSUME NEW r \in Requests, create_license(r) \/ patch_license(r) \/ Audit(r)
        PROVE  Registering' /\ Auditing'
    <3>1. UNCHANGED accounts
      BY <2>2, Zenon DEF create_license, patch_license, Audit
    <3>2. \E x : req' = [req EXCEPT ![r] = x] /\ x.pc \in {"audit", "free"}
      BY <2>2, Zenon DEF create_license, patch_license, Audit, AuditNext, Begin, Reply, Free
    <3>3. DOMAIN req' = Requests /\ \A q \in Requests \ {r} : req'[q] = req[q]
      BY <1>0, <3>2, Moves, Zenon
    <3>4. req'[r].pc \in {"audit", "free"} /\ req[r].pc \in {"audit", "free"}
      <4>1. req[r].pc \in {"audit", "free"}
        BY <2>2, Zenon DEF create_license, patch_license, Audit, AuditNext, Begin
      <4> QED
        BY <1>0, <3>2, <4>1, Moves, Zenon
    <3>5. \A q \in Requests : \/ req'[q] = req[q]
                              \/ ~ Role(q) /\ req'[q].pc \notin {"register", "role"}
      BY <3>3, <3>4, Zenon DEF Role
    <3> QED
      BY <1>0, <2>0, <2>2, <3>1, <3>3, <3>5, RegisteringKept, AuditingStep, Zenon
  <2>3. ASSUME NEW r \in Requests, Apart(r)
        PROVE  Registering' /\ Auditing'
    <3>1. \A q \in Requests : \/ req'[q] = req[q]
                              \/ ~ Role(q) /\ req'[q].pc \notin {"register", "role"}
      BY <2>3, Zenon DEF Apart, Plain, Role
    <3>2. Patching' = Patching /\ \A q \in Patching : req'[q] = req[q]
      BY <2>3, ZenonT(40) DEF Apart, Plain, Patching
    <3> QED
      BY <2>0, <2>3, <3>1, <3>2, RegisteringKept, AuditingKept, Zenon DEF Apart
  <2>4. ASSUME Reload \/ Execute
        PROVE  Registering' /\ Auditing'
    <3>1. UNCHANGED <<accounts, lic, audited, mixed, req>>
      BY <2>4, Zenon DEF Reload, Execute, licence
    <3>2. Patching' = Patching /\ lic'.active = lic.active /\ (Made => Made')
      BY <3>1, Zenon DEF Patching, Made
    <3> QED
      BY <1>0, <2>0, <3>1, <3>2, RegisteringKept, AuditingKept, Zenon
  <2> QED
    BY <1>2, <2>1, <2>2, <2>3, <2>4, ApartStep, Zenon DEF Next, Handle
<1> QED
  BY <1>1, <1>2, Zenon

\* With any number of requests at once: a registration gives one token at most, only with
\* the role, and leaves an account without one only when a statement fails; and the audit
\* log ends with the state of the licence, unless patches overlapped or a statement failed
\* (register, patch_license, _audit).
THEOREM HandlersAreWhole == Spec => []TwoStatementsAreWhole
<1>1. Init => Registering /\ Auditing
  <2>1. Init => Registering
    BY DEF Init, Registering, Role, Free
  <2>2. Init => Auditing
    BY DEF Init, Auditing, AuditTellsActive, Patching, Free
  <2> QED
    BY <2>1, <2>2, Zenon
<1>2. SecretsInv /\ Registering /\ Auditing /\ [Next]_vars => Registering' /\ Auditing'
  BY TwoStatementsStep, Zenon
<1>3. Registering /\ Auditing => TwoStatementsAreWhole
  BY DEF Registering, Role, Auditing, TwoStatementsAreWhole, RegistrationIsWhole
<1> QED
  BY <1>1, <1>2, <1>3, SecretsHold, PTL DEF Spec

-----------------------------------------------------------------------------
(* The event log of connections. *)

\* A set of numbers that is bounded has a greatest one.
LEMMA GreatestOf ==
    ASSUME NEW n \in Nat, NEW S \in SUBSET (1 .. n), S # {}
    PROVE  \E k \in S : \A l \in S : l <= k
<1> DEFINE T == {m \in Nat : \E k \in S : k + m = n}
           R == OpToRel(<, Nat)
<1>1. T # {}
  <2>1. PICK k \in S : TRUE
    BY Zenon
  <2>2. n - k \in Nat /\ k + (n - k) = n
    OBVIOUS
  <2> QED
    BY <2>1, <2>2, Zenon
<1>2. \A x, y \in Nat : x < y => <<x, y>> \in R
  BY Zenon DEF OpToRel
<1>3. IsWellFoundedOn(R, Nat)
  BY NatLessThanWellFounded, Zenon
<1> HIDE DEF R
<1>4. PICK m \in T : \A y \in T : ~ (<<y, m>> \in R)
  <2>1. T \subseteq Nat
    BY Zenon
  <2> HIDE DEF T
  <2> QED
    BY <1>1, <1>3, <2>1, WFMin, Zenon
<1>5. PICK k \in S : k + m = n
  BY <1>4, Zenon
<1>6. ASSUME NEW l \in S PROVE l <= k
  <2>1. n - l \in T
    OBVIOUS
  <2>2. ~ (n - l < m)
    BY <1>2, <1>4, <2>1, Zenon
  <2> QED
    BY <2>2, <1>5
<1> QED
  BY <1>5, <1>6, Zenon

-----------------------------------------------------------------------------
(* The event log. *)

Kinds == {"connected", "disconnected", "attempt"}
Event == [kind : Kinds, of : Conns \cup Attempts]
Places == {"stream", "select", "write", "ack", "done"}
Begins(k, c) == events[k].kind = "connected" /\ events[k].of = c
Ends(k, c) == events[k].kind = "disconnected" /\ events[k].of = c
Handled(k) == task[k] \in {"ack", "done"}

LogType ==
    /\ socket \in [Conns -> {"new", "open", "closed"}]
    /\ events \in Seq(Event)
    /\ \A k \in DOMAIN events :
        events[k].of \in IF events[k].kind = "attempt" THEN Attempts ELSE Conns
    /\ task \in Seq(Places)
    /\ Len(task) = Len(events)
    /\ \A k \in DOMAIN task : task[k] = "select" => events[k].kind # "attempt"
    /\ rows \in Seq([of : Conns, open : BOOLEAN])
    /\ logged \in [Attempts -> Nat]
    /\ overlapped \in BOOLEAN
    /\ faults \in Nat

\* What was acknowledged, or is about to be, took effect or failed; an attempt that took
\* effect has its row.
Stored ==
    /\ \A k \in DOMAIN task : Handled(k) => events[k] \in applied \cup failed
    /\ \A a \in Attempts : [kind |-> "attempt", of |-> a] \in applied => logged[a] > 0

\* What the stream says of a connection is so, ...
Truthful ==
    \A k \in DOMAIN events, c \in Conns :
        /\ Begins(k, c) => socket[c] # "new"
        /\ Ends(k, c) => socket[c] = "closed"

\* ... is said once, ...
Once ==
    \A k, l \in DOMAIN events, c \in Conns :
        (Begins(k, c) /\ Begins(l, c)) \/ (Ends(k, c) /\ Ends(l, c)) => k = l

\* ... and, without a fault, is all there is to say, in its order.
Complete ==
    faults = 0 =>
        /\ \A c \in Conns : socket[c] # "new" => \E k \in DOMAIN events : Begins(k, c)
        /\ \A c \in Conns : socket[c] = "closed" => \E k \in DOMAIN events : Ends(k, c)
        /\ \A k \in DOMAIN events, c \in Conns :
            Ends(k, c) => \E l \in DOMAIN events : l < k /\ Begins(l, c)

Announced == Truthful /\ Once /\ Complete

\* While handlers do not overlap, events are handled one after the other.
InOrder ==
    ~ overlapped =>
        \A k, l \in DOMAIN task : k < l /\ task[l] # "stream" => task[k] = "done"

RowConns == {c \in Conns : \E l \in DOMAIN rows : rows[l].of = c}
Ended == {c \in Conns : \E k \in DOMAIN events : Ends(k, c) /\ Handled(k)}

\* No connection whose event was handled lacks its row.
NoneSkipped ==
    \A k \in DOMAIN events, c \in Conns : Begins(k, c) /\ Handled(k) => c \in RowConns

\* Each end closed at most one row, and exactly one if events were handled in order and
\* none was skipped.
Counted ==
    faults = 0 =>
        /\ IsFiniteSet(RowConns) /\ IsFiniteSet(Ended)
        /\ \A c \in RowConns : \E k \in DOMAIN events : Begins(k, c) /\ Handled(k)
        /\ Cardinality(OpenRows) + Cardinality(Ended) >= Cardinality(RowConns)
        /\ ~ overlapped /\ NoneSkipped =>
            Cardinality(OpenRows) + Cardinality(Ended) = Cardinality(RowConns)

LogInv == LogType /\ Stored /\ Announced /\ InOrder /\ Counted

LEMMA OpenRowsFinite ==
    ASSUME rows \in Seq([of : Conns, open : BOOLEAN])
    PROVE  IsFiniteSet(OpenRows) /\ Cardinality(OpenRows) \in Nat
<1>1. IsFiniteSet(1 .. Len(rows))
  BY FS_Interval
<1>2. OpenRows \in SUBSET (1 .. Len(rows))
  BY DEF OpenRows
<1> QED
  BY <1>1, <1>2, FS_Subset, FS_CardinalityType, Zenon

\* The invariant says what the properties need.
LEMMA LogInvGives ==
    ASSUME LogInv
    PROVE  TablesFollowEvents
<1> USE DEF LogInv
<1>1. AckedWasApplied
  <2> SUFFICES ASSUME NEW k \in DOMAIN task
               PROVE  /\ task[k] = "done" => events[k] \in applied \cup failed
                      /\ events[k].kind = "attempt" /\ events[k] \in applied
                         => logged[events[k].of] > 0
    BY Zenon DEF AckedWasApplied
  <2>1. task[k] = "done" => events[k] \in applied \cup failed
    BY Zenon DEF Stored, Handled
  <2>2. ASSUME events[k].kind = "attempt", events[k] \in applied
        PROVE  logged[events[k].of] > 0
    <3>1. k \in DOMAIN events
      BY DEF LogType
    <3>2. events[k].of \in Attempts
      BY <3>1, <2>2, Zenon DEF LogType
    <3>4. events[k] \in Event
      <4>1. events \in Seq(Event)
        BY Zenon DEF LogType
      <4> QED
        BY <3>1, <4>1
    <3>3. events[k] = [kind |-> "attempt", of |-> events[k].of]
      BY <3>4, <2>2, Zenon DEF Event
    <3> QED
      BY <3>2, <3>3, <2>2, Zenon DEF Stored
  <2> QED
    BY <2>1, <2>2, Zenon
<1>2. ASSUME faults = 0, AllStored
      PROVE  /\ Cardinality(OpenRows) >= Cardinality(OpenConns)
             /\ Quiet /\ ~ overlapped => Cardinality(OpenRows) = Cardinality(OpenConns)
  <2> DEFINE up == {c \in Conns : socket[c] # "new"}
             down == {c \in Conns : socket[c] = "closed"}
  <2>1. up = RowConns
    <3>1. ASSUME NEW c \in up PROVE c \in RowConns
      BY <1>2, <3>1 DEF Announced, Complete, Begins, AllStored, RowConns
    <3>2. ASSUME NEW c \in RowConns PROVE c \in up
      <4>1. c \in Conns
        BY Zenon DEF RowConns
      <4>2. PICK k \in DOMAIN events : Begins(k, c)
        BY <1>2, Zenon DEF Counted
      <4> QED
        BY <4>1, <4>2, Zenon DEF Announced, Truthful
    <3> QED
      BY <3>1, <3>2, Zenon
  <2>2. IsFiniteSet(up) /\ OpenConns \in SUBSET up /\ down \in SUBSET up
    BY <1>2, <2>1, Zenon DEF Counted, OpenConns, LogType
  <2>3. IsFiniteSet(OpenConns) /\ IsFiniteSet(down)
    BY <2>2, FS_Subset, Zenon
  <2>4. OpenConns \cup down = up /\ OpenConns \cap down = {}
    BY Zenon DEF OpenConns, LogType
  <2>5. Cardinality(up) = Cardinality(OpenConns) + Cardinality(down)
    <3>1. Cardinality(OpenConns \cap down) = 0
      BY <2>4, FS_EmptySet, Zenon
    <3>2. Cardinality(up) = Cardinality(OpenConns) + Cardinality(down) - Cardinality(OpenConns \cap down)
      BY <2>3, <2>4, FS_Union, Zenon
    <3>3. Cardinality(OpenConns) \in Nat /\ Cardinality(down) \in Nat
      BY <2>3, FS_CardinalityType, Zenon
    <3> QED
      BY <3>1, <3>2, <3>3
  <2>6. Ended \in SUBSET down
    BY Zenon DEF Ended, Announced, Truthful
  <2>7. Cardinality(Ended) <= Cardinality(down) /\ IsFiniteSet(Ended)
    BY <2>6, <2>3, FS_Subset, Zenon
  <2>8. /\ Cardinality(OpenRows) \in Nat /\ Cardinality(Ended) \in Nat
        /\ Cardinality(OpenConns) \in Nat /\ Cardinality(down) \in Nat
    BY <2>3, <2>7, OpenRowsFinite, FS_CardinalityType, Zenon DEF LogType
  <2>9. Cardinality(OpenRows) + Cardinality(Ended) >= Cardinality(up)
    BY <1>2, <2>1, Zenon DEF Counted
  <2>10. ASSUME Quiet, ~ overlapped
         PROVE  Cardinality(OpenRows) = Cardinality(OpenConns)
    <3>1. NoneSkipped
      BY <1>2, Zenon DEF AllStored, NoneSkipped, Begins, RowConns
    <3>2. ASSUME NEW c \in down PROVE c \in Ended
      <4>1. PICK k \in DOMAIN events : Ends(k, c)
        BY <1>2, Zenon DEF Announced, Complete
      <4>2. k \in DOMAIN task
        BY DEF LogType
      <4> QED
        BY <4>1, <4>2, <2>10, Zenon DEF Quiet, Ended, Handled
    <3>3. Ended = down
      BY <3>2, <2>6, Zenon
    <3>4. Cardinality(OpenRows) + Cardinality(Ended) = Cardinality(up)
      BY <3>1, <1>2, <2>1, <2>10, Zenon DEF Counted
    <3> QED
      BY <3>3, <3>4, <2>5, <2>8, SMTT(30)
  <2> HIDE DEF up, down
  <2> QED
    BY <2>5, <2>7, <2>8, <2>9, <2>10
<1> QED
  BY <1>1, <1>2, Zenon DEF TablesFollowEvents, LiveEAHasOpenSession, NumbersAgree

\* A step that stores no row, and leaves what was handled handled, keeps the count
\* (on_event).
LEMMA CountedKept ==
    ASSUME Counted, rows' = rows, faults' = faults, ~ overlapped' => ~ overlapped,
           \A k \in DOMAIN events : k \in DOMAIN events' /\ events'[k] = events[k],
           \A k \in DOMAIN events : Handled(k) => Handled(k)',
           \A k \in DOMAIN events' :
               Handled(k)' => /\ k \in DOMAIN events
                              /\ Handled(k) \/ events[k].kind = "connected"
    PROVE  Counted'
<1>1. RowConns' = RowConns /\ OpenRows' = OpenRows
  BY Zenon DEF RowConns, OpenRows
<1>2. Ended' = Ended
  <2>1. ASSUME NEW c \in Ended PROVE c \in Ended'
    BY <2>1, Zenon DEF Ended, Ends
  <2>2. ASSUME NEW c \in Ended' PROVE c \in Ended
    <3>1. PICK k \in DOMAIN events' : Ends(k, c)' /\ Handled(k)'
      BY <2>2, Zenon DEF Ended
    <3>2. k \in DOMAIN events /\ events'[k] = events[k]
      BY <3>1, Zenon
    <3>3. events[k].kind = "disconnected"
      BY <3>1, <3>2, Zenon DEF Ends
    <3>4. Handled(k)
      BY <3>1, <3>3, Zenon
    <3>5. Ends(k, c)
      BY <3>1, <3>2, Zenon DEF Ends
    <3>6. c \in Conns
      BY <2>2, Zenon DEF Ended
    <3> QED
      BY <3>2, <3>4, <3>5, <3>6, Zenon DEF Ended
  <2> QED
    BY <2>1, <2>2, Zenon
<1>3. NoneSkipped' => NoneSkipped
  BY <1>1, Zenon DEF NoneSkipped, Begins
<1>4. faults = 0 => \A c \in RowConns : (\E k \in DOMAIN events : Begins(k, c) /\ Handled(k))'
  BY Zenon DEF Counted, Begins
<1> QED
  BY <1>1, <1>2, <1>3, <1>4, Zenon DEF Counted

\* After a fault there is nothing to count.
LEMMA CountedAfterFault ==
    ASSUME faults \in Nat, Fault
    PROVE  faults' \in Nat /\ faults' # 0 /\ Counted'
BY DEF Fault, Counted

\* An event is published (_publish_event of the bridge, PublishEvent of ingress).
LEMMA PublishStep ==
    ASSUME LogInv, NEW e \in Event, Publish(e),
           e.of \in IF e.kind = "attempt" THEN Attempts ELSE Conns,
           UNCHANGED <<stored, overlapped, faults>>,
           socket' \in [Conns -> {"new", "open", "closed"}]
    PROVE  LogType' /\ Stored' /\ InOrder' /\ Counted'
<1> USE DEF LogInv
<1> DEFINE n == Len(events)
<1>1. /\ n \in Nat /\ DOMAIN events = 1 .. n /\ DOMAIN task = 1 .. n
      /\ events \in Seq(Event) /\ task \in Seq(Places)
  BY DEF LogType
<1>2. events' \in Seq(Event) /\ DOMAIN events' = 1 .. n + 1 /\ Len(events') = n + 1
  BY <1>1, SMTT(30) DEF Publish
<1>3. task' \in Seq(Places) /\ DOMAIN task' = 1 .. n + 1 /\ Len(task') = n + 1
  BY <1>1 DEF Publish, Places, LogType
<1>4. \A k \in 1 .. n : events'[k] = events[k] /\ task'[k] = task[k]
  BY <1>1 DEF Publish, LogType
<1>5. events'[n + 1] = e /\ task'[n + 1] = "stream"
  BY <1>1 DEF Publish, LogType
<1> HIDE DEF n
<1>6. \A k \in 1 .. n + 1 : k \in 1 .. n \/ k = n + 1
  BY <1>1
<1>7. UNCHANGED <<rows, logged, applied, failed, overlapped, faults>>
  BY Zenon DEF stored
<1>8. LogType'
  <2>1. \A k \in 1 .. n + 1 :
            events'[k].of \in IF events'[k].kind = "attempt" THEN Attempts ELSE Conns
    <3>1. \A k \in 1 .. n :
            events[k].of \in IF events[k].kind = "attempt" THEN Attempts ELSE Conns
      BY <1>1, Zenon DEF LogType
    <3> QED
      BY <3>1, <1>4, <1>5, <1>6, Zenon
  <2>2. \A k \in 1 .. n + 1 : task'[k] = "select" => events'[k].kind # "attempt"
    <3>1. \A k \in 1 .. n : task[k] = "select" => events[k].kind # "attempt"
      BY <1>1, Zenon DEF LogType
    <3> QED
      BY <3>1, <1>4, <1>5, <1>6, Zenon
  <2> QED
    BY <2>1, <2>2, <1>2, <1>3, <1>7, Zenon DEF LogType
<1>9. Stored'
  <2>1. \A k \in 1 .. n + 1 : Handled(k)' => k \in 1 .. n /\ Handled(k)
    BY <1>4, <1>5, <1>6, Zenon DEF Handled
  <2>2. \A k \in 1 .. n + 1 : Handled(k)' => events'[k] \in applied \cup failed
    BY <2>1, <1>1, <1>4, Zenon DEF Stored
  <2> QED
    BY <2>2, <1>3, <1>7, Zenon DEF Stored
<1>10. InOrder'
  <2>1. ASSUME ~ overlapped, NEW k \in 1 .. n + 1, NEW l \in 1 .. n + 1,
               k < l, task'[l] # "stream"
        PROVE  task'[k] = "done"
    <3>1. l \in 1 .. n
      BY <2>1, <1>5, <1>6, Zenon
    <3>2. k \in 1 .. n
      BY <2>1, <3>1, <1>1
    <3> QED
      BY <2>1, <3>1, <3>2, <1>1, <1>4, Zenon DEF InOrder
  <2>2. ~ overlapped' => ~ overlapped
    BY <1>7, SMTT(30)
  <2> QED
    BY <2>1, <2>2, <1>3, Zenon DEF InOrder
<1>11. Counted'
  <2>1. \A k \in 1 .. n : Handled(k) => Handled(k)'
    BY <1>4, Zenon DEF Handled
  <2>2. \A k \in 1 .. n + 1 : Handled(k)' => k \in 1 .. n /\ Handled(k)
    BY <1>4, <1>5, <1>6, Zenon DEF Handled
  <2>3. \A k \in 1 .. n : k \in 1 .. n + 1
    BY <1>1
  <2> QED
    BY <2>1, <2>2, <2>3, <1>1, <1>2, <1>4, <1>7, CountedKept, SMTT(30)
<1> QED
  BY <1>8, <1>9, <1>10, <1>11, Zenon

\* The event of a connection that changes its state is the first of its kind.
LEMMA AnnouncedPublish ==
    ASSUME LogType, Announced, NEW e \in Event, Publish(e), faults' = faults,
           e.kind # "attempt" => e.of \in Conns,
           \A d \in Conns :
               IF e.kind # "attempt" /\ e.of = d
               THEN \/ e.kind = "connected" /\ socket[d] = "new" /\ socket'[d] = "open"
                    \/ e.kind = "disconnected" /\ socket[d] = "open" /\ socket'[d] = "closed"
               ELSE socket'[d] = socket[d]
    PROVE  Announced'
<1>1. PICK n \in Nat : n = Len(events) /\ DOMAIN events = 1 .. n /\ events \in Seq(Event)
  BY DEF LogType
<1>2. DOMAIN events' = 1 .. n + 1 /\ n + 1 \in 1 .. n + 1
  BY <1>1 DEF Publish
<1>3. \A k \in 1 .. n : events'[k] = events[k]
  BY <1>1 DEF Publish
<1>4. events'[n + 1] = e
  BY <1>1 DEF Publish
<1>5. \A k \in 1 .. n + 1 : k \in 1 .. n \/ k = n + 1
  BY <1>1
<1>6. \A k \in 1 .. n, d \in Conns :
          (Begins(k, d)' <=> Begins(k, d)) /\ (Ends(k, d)' <=> Ends(k, d))
  BY <1>3, Zenon DEF Begins, Ends
<1>7. \A d \in Conns : /\ Begins(n + 1, d)' <=> e.kind = "connected" /\ e.of = d
                       /\ Ends(n + 1, d)' <=> e.kind = "disconnected" /\ e.of = d
  BY <1>4, Zenon DEF Begins, Ends
<1>8. \A k \in 1 .. n, d \in Conns : /\ Begins(k, d) => socket[d] # "new"
                                     /\ Ends(k, d) => socket[d] = "closed"
  BY <1>1, Zenon DEF Announced, Truthful
<1>9. \A k \in 1 .. n + 1, d \in Conns : /\ Begins(k, d)' => socket'[d] # "new"
                                         /\ Ends(k, d)' => socket'[d] = "closed"
  <2> SUFFICES ASSUME NEW k \in 1 .. n + 1, NEW d \in Conns
               PROVE  /\ Begins(k, d)' => socket'[d] # "new"
                      /\ Ends(k, d)' => socket'[d] = "closed"
    BY Zenon
  <2>1. CASE k = n + 1
    BY <2>1, <1>7, Zenon
  <2>2. CASE k \in 1 .. n
    BY <2>2, <1>6, <1>8, Zenon
  <2> QED
    BY <2>1, <2>2, <1>5, Zenon
<1>10. ASSUME NEW k \in 1 .. n + 1, NEW l \in 1 .. n + 1, NEW d \in Conns,
              (Begins(k, d)' /\ Begins(l, d)') \/ (Ends(k, d)' /\ Ends(l, d)')
       PROVE  k = l
  <2>1. CASE k \in 1 .. n /\ l \in 1 .. n
    BY <2>1, <1>1, <1>6, <1>10, Zenon DEF Announced, Once
  <2>2. CASE k = n + 1 /\ l = n + 1
    BY <2>2, Zenon
  <2>3. ASSUME NEW j \in 1 .. n,
               (Begins(j, d) /\ Begins(n + 1, d)') \/ (Ends(j, d) /\ Ends(n + 1, d)')
        PROVE  FALSE
    <3>1. e.kind # "attempt" /\ e.of = d
      BY <2>3, <1>7, Zenon
    <3> QED
      BY <2>3, <3>1, <1>7, <1>8, Zenon
  <2>4. CASE k \in 1 .. n /\ l = n + 1
    BY <2>3, <2>4, <1>6, <1>10, Zenon
  <2>5. CASE l \in 1 .. n /\ k = n + 1
    <3>1. (Begins(l, d) /\ Begins(n + 1, d)') \/ (Ends(l, d) /\ Ends(n + 1, d)')
      BY <2>5, <1>3, <1>10, Zenon DEF Begins, Ends
    <3> QED
      BY <3>1, <2>3, <2>5, Zenon
  <2> QED
    BY <2>1, <2>2, <2>4, <2>5, <1>5, Zenon
<1>11. ASSUME faults = 0
       PROVE  /\ \A c \in Conns : socket'[c] # "new" => \E k \in 1 .. n + 1 : Begins(k, c)'
              /\ \A c \in Conns : socket'[c] = "closed" => \E k \in 1 .. n + 1 : Ends(k, c)'
              /\ \A k \in 1 .. n + 1, c \in Conns :
                     Ends(k, c)' => \E l \in 1 .. n + 1 : l < k /\ Begins(l, c)'
  <2>1. /\ \A c \in Conns : socket[c] # "new" => \E k \in 1 .. n : Begins(k, c)
        /\ \A c \in Conns : socket[c] = "closed" => \E k \in 1 .. n : Ends(k, c)
        /\ \A k \in 1 .. n, c \in Conns :
               Ends(k, c) => \E l \in 1 .. n : l < k /\ Begins(l, c)
    BY <1>11, <1>1, Zenon DEF Announced, Complete
  <2>2. \A k \in 1 .. n : k \in 1 .. n + 1 /\ k < n + 1
    BY <1>1, SMTT(30)
  <2>3. ASSUME NEW c \in Conns, socket'[c] # "new" PROVE \E k \in 1 .. n + 1 : Begins(k, c)'
    <3>1. CASE socket[c] # "new"
      BY <3>1, <2>1, <2>2, <1>6, Zenon
    <3>2. CASE socket[c] = "new"
      <4>1. e.kind = "connected" /\ e.of = c
        BY <3>2, <2>3, Zenon
      <4> QED
        BY <4>1, <1>7, <1>2, Zenon
    <3> QED
      BY <3>1, <3>2, Zenon
  <2>4. ASSUME NEW c \in Conns, socket'[c] = "closed" PROVE \E k \in 1 .. n + 1 : Ends(k, c)'
    <3>1. CASE socket[c] = "closed"
      BY <3>1, <2>1, <2>2, <1>6, Zenon
    <3>2. CASE socket[c] # "closed"
      <4>1. e.kind = "disconnected" /\ e.of = c
        BY <3>2, <2>4, Zenon
      <4> QED
        BY <4>1, <1>7, <1>2, Zenon
    <3> QED
      BY <3>1, <3>2, Zenon
  <2>5. ASSUME NEW k \in 1 .. n + 1, NEW c \in Conns, Ends(k, c)'
        PROVE  \E l \in 1 .. n + 1 : l < k /\ Begins(l, c)'
    <3>1. CASE k \in 1 .. n
      BY <3>1, <2>5, <2>1, <2>2, <1>6, Zenon
    <3>2. CASE k = n + 1
      <4>1. e.kind = "disconnected" /\ e.of = c
        BY <3>2, <2>5, <1>7, Zenon
      <4>2. socket[c] # "new"
        BY <4>1, Zenon
      <4>3. PICK l \in 1 .. n : Begins(l, c)
        BY <4>2, <2>1, Zenon
      <4> QED
        BY <4>3, <3>2, <2>2, <1>6, Zenon
    <3> QED
      BY <3>1, <3>2, <1>5, Zenon
  <2> QED
    BY <2>3, <2>4, <2>5, Zenon
<1>12. Truthful'
  BY <1>2, <1>9, Zenon DEF Truthful
<1>13. Once'
  BY <1>2, <1>10, Zenon DEF Once
<1>14. Complete'
  BY <1>2, <1>11, Zenon DEF Complete
<1> QED
  BY <1>12, <1>13, <1>14, Zenon DEF Announced

\* Connections end, or begin, and nobody says so.
LEMMA UnsaidStep ==
    ASSUME LogInv, Fault, UNCHANGED <<events, task, stored, overlapped>>,
           socket' \in [Conns -> {"new", "open", "closed"}],
           \A d \in Conns : /\ socket[d] # "new" => socket'[d] # "new"
                            /\ socket[d] = "closed" => socket'[d] = "closed"
    PROVE  LogInv'
<1> USE DEF LogInv
<1>1. faults' \in Nat /\ faults' # 0 /\ Counted'
  BY CountedAfterFault, Zenon DEF LogType
<1>2. UNCHANGED <<rows, logged, applied, failed>>
  BY Zenon DEF stored
<1>3. LogType'
  BY <1>1, <1>2, Zenon DEF LogType
<1>4. Stored'
  BY <1>2, Zenon DEF Stored, Handled
<1>5. Truthful'
  BY Zenon DEF Announced, Truthful, Begins, Ends
<1>6. Once'
  BY DEF Announced, Once, Begins, Ends
<1>7. Complete'
  BY <1>1, Zenon DEF Complete
<1>8. InOrder'
  <2>1. ~ overlapped' => ~ overlapped
    BY Zenon
  <2> QED
    BY <2>1, Zenon DEF InOrder
<1> QED
  BY <1>1, <1>3, <1>4, <1>5, <1>6, <1>7, <1>8, Zenon DEF Announced

\* The bridge and ingress: handler.go, PublishEvent of both.
LEMMA SpeakersStep ==
    ASSUME LogInv,
           \/ \E c \in Conns : Connect(c) \/ Disconnect(c)
           \/ BridgeDies
           \/ \E a \in Attempts : Attempted(a)
    PROVE  LogInv'
<1> USE DEF LogInv
<1>0. socket \in [Conns -> {"new", "open", "closed"}]
  BY Zenon DEF LogType
<1>1. ASSUME NEW e \in Event, Publish(e), UNCHANGED <<stored, overlapped, faults>>,
             e.of \in IF e.kind = "attempt" THEN Attempts ELSE Conns,
             socket' \in [Conns -> {"new", "open", "closed"}],
             \A d \in Conns :
               IF e.kind # "attempt" /\ e.of = d
               THEN \/ e.kind = "connected" /\ socket[d] = "new" /\ socket'[d] = "open"
                    \/ e.kind = "disconnected" /\ socket[d] = "open" /\ socket'[d] = "closed"
               ELSE socket'[d] = socket[d]
      PROVE  LogInv'
  <2>1. LogType' /\ Stored' /\ InOrder' /\ Counted'
    BY <1>1, PublishStep, Zenon
  <2>2. e.kind # "attempt" => e.of \in Conns
    BY <1>1, Zenon
  <2>3. faults' = faults
    BY <1>1, Zenon
  <2>4. Announced'
    BY <1>1, <2>2, <2>3, AnnouncedPublish, Zenon
  <2> QED
    BY <2>1, <2>4, Zenon
<1>2. ASSUME NEW c \in Conns, Connect(c) PROVE LogInv'
  <2> DEFINE e == [kind |-> "connected", of |-> c]
  <2>1. socket' \in [Conns -> {"new", "open", "closed"}] /\ socket[c] = "new" /\ socket'[c] = "open"
    BY <1>0, <1>2, Zenon DEF Connect
  <2>2. \A d \in Conns : d # c => socket'[d] = socket[d]
    BY <1>0, <1>2, Zenon DEF Connect
  <2>3. CASE Publish(e) /\ UNCHANGED faults
    <3>1. e \in Event /\ e.kind = "connected" /\ e.of = c
      BY Zenon DEF Event, Kinds
    <3>2. UNCHANGED <<stored, overlapped, faults>> /\ Publish(e)
      BY <1>2, <2>3, Zenon DEF Connect
    <3> HIDE DEF e
    <3>3. \A d \in Conns :
               IF e.kind # "attempt" /\ e.of = d
               THEN \/ e.kind = "connected" /\ socket[d] = "new" /\ socket'[d] = "open"
                    \/ e.kind = "disconnected" /\ socket[d] = "open" /\ socket'[d] = "closed"
               ELSE socket'[d] = socket[d]
      BY <2>1, <2>2, <3>1, Zenon
    <3>4. e.of \in IF e.kind = "attempt" THEN Attempts ELSE Conns
      BY <3>1, Zenon
    <3> QED
      BY <1>1, <2>1, <3>1, <3>2, <3>3, <3>4, Zenon
  <2>4. CASE Fault /\ UNCHANGED <<events, task>>
    <3>1. UNCHANGED <<events, task, stored, overlapped>>
      BY <1>2, <2>4, Zenon DEF Connect
    <3>2. \A d \in Conns : /\ socket[d] # "new" => socket'[d] # "new"
                           /\ socket[d] = "closed" => socket'[d] = "closed"
      BY <2>1, <2>2, Zenon
    <3> QED
      BY <2>1, <2>4, <3>1, <3>2, UnsaidStep, Zenon
  <2> QED
    BY <1>2, <2>3, <2>4, Zenon DEF Connect
<1>3. ASSUME NEW c \in Conns, Disconnect(c) PROVE LogInv'
  <2> DEFINE e == [kind |-> "disconnected", of |-> c]
  <2>1. socket' \in [Conns -> {"new", "open", "closed"}] /\ socket[c] = "open" /\ socket'[c] = "closed"
    BY <1>0, <1>3, Zenon DEF Disconnect
  <2>2. \A d \in Conns : d # c => socket'[d] = socket[d]
    BY <1>0, <1>3, Zenon DEF Disconnect
  <2>3. CASE Publish(e) /\ UNCHANGED faults
    <3>1. e \in Event /\ e.kind = "disconnected" /\ e.of = c
      BY Zenon DEF Event, Kinds
    <3>2. UNCHANGED <<stored, overlapped, faults>> /\ Publish(e)
      BY <1>3, <2>3, Zenon DEF Disconnect
    <3> HIDE DEF e
    <3>3. \A d \in Conns :
               IF e.kind # "attempt" /\ e.of = d
               THEN \/ e.kind = "connected" /\ socket[d] = "new" /\ socket'[d] = "open"
                    \/ e.kind = "disconnected" /\ socket[d] = "open" /\ socket'[d] = "closed"
               ELSE socket'[d] = socket[d]
      BY <2>1, <2>2, <3>1, Zenon
    <3>4. e.of \in IF e.kind = "attempt" THEN Attempts ELSE Conns
      BY <3>1, Zenon
    <3> QED
      BY <1>1, <2>1, <3>1, <3>2, <3>3, <3>4, Zenon
  <2>4. CASE Fault /\ UNCHANGED <<events, task>>
    <3>1. UNCHANGED <<events, task, stored, overlapped>>
      BY <1>3, <2>4, Zenon DEF Disconnect
    <3>2. \A d \in Conns : /\ socket[d] # "new" => socket'[d] # "new"
                           /\ socket[d] = "closed" => socket'[d] = "closed"
      BY <2>1, <2>2, Zenon
    <3> QED
      BY <2>1, <2>4, <3>1, <3>2, UnsaidStep, Zenon
  <2> QED
    BY <1>3, <2>3, <2>4, Zenon DEF Disconnect
<1>4. CASE BridgeDies
  <2>1. socket' \in [Conns -> {"new", "open", "closed"}]
    BY <1>0, <1>4, Zenon DEF BridgeDies
  <2>2. \A d \in Conns : /\ socket[d] # "new" => socket'[d] # "new"
                         /\ socket[d] = "closed" => socket'[d] = "closed"
    BY <1>0, <1>4, Zenon DEF BridgeDies
  <2>3. UNCHANGED <<events, task, stored, overlapped>> /\ Fault
    BY <1>4, Zenon DEF BridgeDies
  <2> QED
    BY <2>1, <2>2, <2>3, UnsaidStep, Zenon
<1>5. ASSUME NEW a \in Attempts, Attempted(a) PROVE LogInv'
  <2> DEFINE e == [kind |-> "attempt", of |-> a]
  <2>1. e \in Event /\ e.kind = "attempt" /\ e.of = a
    BY Zenon DEF Event, Kinds
  <2>2. UNCHANGED <<stored, overlapped, faults>> /\ Publish(e) /\ socket' = socket
    BY <1>5, Zenon DEF Attempted
  <2> HIDE DEF e
  <2> QED
    BY <1>0, <1>1, <2>1, <2>2, Zenon
<1> QED
  BY <1>2, <1>3, <1>4, <1>5, Zenon

\* The stream is as it was.
LEMMA AnnouncedSame ==
    ASSUME Announced, UNCHANGED <<events, socket>>, faults' = 0 => faults = 0
    PROVE  Announced'
<1>1. Truthful'
  BY Zenon DEF Announced, Truthful, Begins, Ends
<1>2. Once'
  BY DEF Announced, Once, Begins, Ends
<1>3. \A k, c : (Begins(k, c)' <=> Begins(k, c)) /\ (Ends(k, c)' <=> Ends(k, c))
  BY Zenon DEF Begins, Ends
<1>4. Complete'
  BY <1>3, Zenon DEF Announced, Complete
<1> QED
  BY <1>1, <1>2, <1>4, Zenon DEF Announced

\* A handler under way goes on to its next place.
LEMMA HandlerMoves ==
    ASSUME LogInv, NEW k \in DOMAIN task, NEW p \in Places,
           task' = [task EXCEPT ![k] = p],
           p = "select" => events[k].kind # "attempt",
           UNCHANGED <<socket, events>>, faults' \in Nat,
           faults' = 0 => faults = 0,
           rows' \in Seq([of : Conns, open : BOOLEAN]),
           logged' \in [Attempts -> Nat], overlapped' \in BOOLEAN
    PROVE  /\ LogType' /\ Announced'
           /\ DOMAIN task' = DOMAIN events /\ DOMAIN task = DOMAIN events
           /\ task'[k] = p
           /\ \A l \in DOMAIN task : l # k => task'[l] = task[l]
           /\ p # "stream" /\ task[k] \notin {"stream", "done"} /\ overlapped' = overlapped
              => InOrder'
<1> USE DEF LogInv
<1>1. task \in Seq(Places) /\ DOMAIN task = DOMAIN events /\ DOMAIN task \subseteq Int
  BY DEF LogType
<1>2. task' \in Seq(Places) /\ DOMAIN task' = DOMAIN task /\ Len(task') = Len(task) /\ task'[k] = p
  BY <1>1
<1>3. \A l \in DOMAIN task : l # k => task'[l] = task[l]
  BY <1>1, Zenon
<1>4. \A l \in DOMAIN task : task'[l] = "select" => events[l].kind # "attempt"
  <2>1. \A l \in DOMAIN task : task[l] = "select" => events[l].kind # "attempt"
    BY Zenon DEF LogType
  <2> QED
    BY <2>1, <1>2, <1>3, Zenon
<1>5. LogType'
  BY <1>2, <1>4, Zenon DEF LogType
<1>6. Announced'
  BY AnnouncedSame, Zenon
<1>7. ASSUME p # "stream", task[k] \notin {"stream", "done"}, overlapped' = overlapped
      PROVE  InOrder'
  <2>1. ASSUME ~ overlapped, NEW i \in DOMAIN task, NEW j \in DOMAIN task,
               i < j, task'[j] # "stream"
        PROVE  task'[i] = "done"
    <3>1. task[j] # "stream"
      BY <2>1, <1>3, <1>7, Zenon
    <3>2. task[i] = "done"
      BY <2>1, <3>1, Zenon DEF InOrder
    <3> QED
      BY <3>2, <1>3, <1>7, Zenon
  <2>2. ~ overlapped' => ~ overlapped
    BY <1>7, Zenon
  <2> QED
    BY <2>1, <2>2, <1>2, Zenon DEF InOrder
<1> QED
  BY <1>1, <1>2, <1>3, <1>5, <1>6, <1>7, Zenon

\* on_event, up to its first statement.
LEMMA DeliverStep ==
    ASSUME LogInv, NEW k \in DOMAIN task, Deliver(k)
    PROVE  LogInv'
<1> USE DEF LogInv
<1>1. PICK p \in Places : /\ p \in {"select", "write"}
                          /\ p = "select" => events[k].kind # "attempt"
                          /\ task' = [task EXCEPT ![k] = p]
  BY Zenon DEF Deliver, Places
<1>2. task[k] = "stream" /\ \A l \in 1 .. k - 1 : task[l] # "stream"
  BY Zenon DEF Deliver
<1>3. UNCHANGED <<faults, socket, events, rows, logged, applied, failed>>
  BY Zenon DEF Deliver, stored
<1>4. overlapped' \in BOOLEAN /\ (~ overlapped' => ~ overlapped /\ Running = {})
  BY Zenon DEF Deliver, LogType
<1>5. /\ LogType' /\ Announced'
      /\ DOMAIN task' = DOMAIN events /\ DOMAIN task = DOMAIN events
      /\ task'[k] = p
      /\ \A l \in DOMAIN task : l # k => task'[l] = task[l]
  <2>1. /\ rows' \in Seq([of : Conns, open : BOOLEAN]) /\ logged' \in [Attempts -> Nat]
        /\ faults' \in Nat /\ faults' = faults
    BY <1>3, Zenon DEF LogType
  <2> QED
    BY <1>1, <1>3, <1>4, <2>1, HandlerMoves, Zenon
<1>6. \A l \in DOMAIN task : Handled(l)' <=> Handled(l)
  BY <1>1, <1>2, <1>5, Zenon DEF Handled
<1>7. Stored'
  BY <1>3, <1>5, <1>6, Zenon DEF Stored
<1>8. InOrder'
  <2>1. ASSUME ~ overlapped', NEW i \in DOMAIN task, NEW j \in DOMAIN task,
               i < j, task'[j] # "stream"
        PROVE  task'[i] = "done"
    <3>1. ~ overlapped /\ Running = {}
      BY <2>1, <1>4, Zenon
    <3>2. task \in Seq(Places)
      BY Zenon DEF LogType
    <3>3. \A l \in DOMAIN task : task[l] \in {"stream", "done"}
      BY <3>1, <3>2 DEF Running, Places
    <3>4. i # k
      <4>1. SUFFICES ASSUME i = k PROVE FALSE
        BY Zenon
      <4>2. j # k /\ k < j
        BY <4>1, <2>1, <3>2
      <4>3. task[j] # "stream"
        BY <4>2, <1>5, <2>1, Zenon
      <4>4. task[k] = "done"
        BY <3>1, <4>2, <4>3, Zenon DEF InOrder
      <4> QED
        BY <4>4, <1>2, Zenon
    <3>5. CASE j = k
      <4>1. i \in 1 .. k - 1
        BY <3>2, <3>5, <2>1
      <4> QED
        BY <4>1, <3>3, <3>4, <1>2, <1>5, Zenon
    <3>6. CASE j # k
      BY <3>6, <3>1, <3>4, <1>5, <2>1, Zenon DEF InOrder
    <3> QED
      BY <3>5, <3>6, Zenon
  <2> QED
    BY <2>1, <1>5, Zenon DEF InOrder
<1>9. Counted'
  BY <1>3, <1>4, <1>5, <1>6, CountedKept, Zenon
<1> QED
  BY <1>5, <1>7, <1>8, <1>9, Zenon

\* The instance is looked up (_persist_ea_connected, _persist_ea_disconnected).
LEMMA SelectStep ==
    ASSUME LogInv, NEW k \in DOMAIN task, Select(k)
    PROVE  LogInv'
<1> USE DEF LogInv
<1>1. PICK p \in Places : p \in {"write", "ack"} /\ task' = [task EXCEPT ![k] = p]
  BY Zenon DEF Select, Places
<1>2. task[k] = "select"
  BY Zenon DEF Select
<1>3. UNCHANGED <<socket, events, rows, logged, overlapped>>
  BY Zenon DEF Select
<1>4. faults' \in Nat /\ (faults' = faults \/ (faults' # 0 /\ Counted'))
  <2>1. Fault \/ faults' = faults
    BY Zenon DEF Select
  <2>2. faults \in Nat
    BY Zenon DEF LogType
  <2>3. CASE Fault
    BY <2>2, <2>3, CountedAfterFault, Zenon
  <2>4. CASE faults' = faults
    BY <2>2, <2>4, Zenon
  <2> QED
    BY <2>1, <2>3, <2>4, Zenon
<1>5. /\ LogType' /\ Announced' /\ InOrder'
      /\ DOMAIN task' = DOMAIN events /\ DOMAIN task = DOMAIN events
      /\ task'[k] = p
      /\ \A l \in DOMAIN task : l # k => task'[l] = task[l]
  <2>1. /\ rows' \in Seq([of : Conns, open : BOOLEAN]) /\ logged' \in [Attempts -> Nat]
        /\ overlapped' \in BOOLEAN /\ overlapped' = overlapped /\ (faults' = 0 => faults = 0)
    BY <1>3, <1>4, Zenon DEF LogType
  <2> QED
    BY <1>1, <1>2, <1>3, <1>4, <2>1, HandlerMoves, Zenon
<1>6. \A l \in DOMAIN task : /\ Handled(l) => Handled(l)'
                             /\ l # k /\ Handled(l)' => Handled(l)
  BY <1>1, <1>2, <1>5, Zenon DEF Handled
<1>7. applied \subseteq applied' /\ failed \subseteq failed'
  BY Zenon DEF Select
<1>8. p = "ack" => events[k] \in applied' \cup failed'
  BY <1>1, <1>5, Zenon DEF Select
<1>9. applied' = applied \/ (applied' = applied \cup {events[k]} /\ events[k].kind = "connected")
  <2>1. CASE UNCHANGED <<applied, failed, faults>>
    BY <2>1, Zenon
  <2>2. CASE events[k].kind = "connected" /\ applied' = applied \cup {events[k]}
    BY <2>2, Zenon
  <2>3. CASE UNCHANGED applied
    BY <2>3, Zenon
  <2> QED
    BY <2>1, <2>2, <2>3, Zenon DEF Select
<1>10. Stored'
  <2>1. \A l \in DOMAIN task : Handled(l)' => events[l] \in applied' \cup failed'
    <3> SUFFICES ASSUME NEW l \in DOMAIN task, Handled(l)'
                 PROVE  events[l] \in applied' \cup failed'
      BY Zenon
    <3>1. CASE l = k
      BY <3>1, <1>1, <1>5, <1>8, Zenon DEF Handled
    <3>2. CASE l # k
      BY <3>2, <1>6, <1>7, Zenon DEF Stored
    <3> QED
      BY <3>1, <3>2, Zenon
  <2>2. \A a \in Attempts : [kind |-> "attempt", of |-> a] \in applied' => logged[a] > 0
    <3>1. \A a \in Attempts : [kind |-> "attempt", of |-> a] \in applied => logged[a] > 0
      BY Zenon DEF Stored
    <3>2. \A a \in Attempts : [kind |-> "attempt", of |-> a].kind = "attempt"
      BY Zenon
    <3> QED
      BY <1>9, <3>1, <3>2, Zenon
  <2> QED
    BY <2>1, <2>2, <1>3, <1>5, Zenon DEF Stored
<1>11. Counted'
  <2>1. CASE faults' = faults
    <3>1. p = "write" \/ events[k].kind = "connected"
      BY <2>1, <1>1, <1>5, SMTT(30) DEF Select, Fault, LogType
    <3>2. \A l \in DOMAIN task : Handled(l)' => Handled(l) \/ events[l].kind = "connected"
      BY <3>1, <1>5, <1>6, Zenon DEF Handled
    <3> QED
      BY <2>1, <3>2, <1>3, <1>5, <1>6, CountedKept, Zenon
  <2> QED
    BY <2>1, <1>4, Zenon
<1> QED
  BY <1>5, <1>10, <1>11, Zenon

\* An event is acknowledged.
LEMMA AckStep ==
    ASSUME LogInv, NEW k \in DOMAIN task, Ack(k)
    PROVE  LogInv'
<1> USE DEF LogInv
<1>1. "done" \in Places /\ task' = [task EXCEPT ![k] = "done"] /\ task[k] = "ack"
  BY Zenon DEF Ack, Places
<1>3. UNCHANGED <<faults, socket, events, rows, logged, applied, failed, overlapped>>
  BY Zenon DEF Ack, stored
<1>5. /\ LogType' /\ Announced' /\ InOrder'
      /\ DOMAIN task' = DOMAIN events /\ DOMAIN task = DOMAIN events
      /\ task'[k] = "done"
      /\ \A l \in DOMAIN task : l # k => task'[l] = task[l]
  <2>1. /\ rows' \in Seq([of : Conns, open : BOOLEAN]) /\ logged' \in [Attempts -> Nat]
        /\ overlapped' \in BOOLEAN /\ overlapped' = overlapped /\ (faults' = 0 => faults = 0)
        /\ faults' \in Nat
    BY <1>3, Zenon DEF LogType
  <2> QED
    BY <1>1, <1>3, <2>1, HandlerMoves, Zenon
<1>6. \A l \in DOMAIN task : Handled(l)' <=> Handled(l)
  BY <1>1, <1>5, Zenon DEF Handled
<1>7. Stored'
  BY <1>3, <1>5, <1>6, Zenon DEF Stored
<1>8. Counted'
  BY <1>3, <1>5, <1>6, CountedKept, Zenon
<1> QED
  BY <1>5, <1>7, <1>8, Zenon

\* persist restarts: what was not acknowledged is delivered again.
LEMMA RestartStep ==
    ASSUME LogInv, PersistRestarts
    PROVE  LogInv'
<1> USE DEF LogInv
<1>1. faults' \in Nat /\ faults' # 0 /\ Counted'
  BY CountedAfterFault, Zenon DEF LogType, PersistRestarts
<1>2. UNCHANGED <<socket, events, rows, logged, applied, failed, overlapped>>
  BY Zenon DEF PersistRestarts, stored
<1>3. /\ task \in Seq(Places) /\ Len(task) = Len(events)
      /\ DOMAIN task = 1 .. Len(task) /\ Len(task) \in Nat
  BY DEF LogType
<1>4. task' = [k \in DOMAIN task |-> IF k \in Running THEN "stream" ELSE task[k]]
  BY Zenon DEF PersistRestarts
<1>5. \A k \in DOMAIN task : (task'[k] = task[k] /\ task[k] \in {"stream", "done"}) \/ task'[k] = "stream"
  BY <1>3, <1>4 DEF Running, Places
<1>6. task' \in Seq(Places) /\ Len(task') = Len(task) /\ DOMAIN task' = DOMAIN task
  <2>1. \A k \in 1 .. Len(task) : task'[k] \in Places
    BY <1>3, <1>5, Zenon DEF Places
  <2>2. DOMAIN task' = 1 .. Len(task) /\ task' \in [1 .. Len(task) -> Places]
    BY <2>1, <1>3, <1>4, Zenon
  <2> QED
    BY <2>2, <1>3
<1>7. LogType'
  <2>1. \A k \in DOMAIN task' : task'[k] = "select" => events'[k].kind # "attempt"
    BY <1>5, <1>6, Zenon
  <2> QED
    BY <2>1, <1>1, <1>2, <1>3, <1>6, Zenon DEF LogType
<1>8. Stored'
  <2>1. \A k \in DOMAIN task : Handled(k)' => Handled(k)
    BY <1>5, Zenon DEF Handled
  <2> QED
    BY <2>1, <1>2, <1>6, Zenon DEF Stored
<1>9. Announced'
  BY <1>1, <1>2, AnnouncedSame, Zenon
<1>10. InOrder'
  <2>1. ASSUME ~ overlapped, NEW i \in DOMAIN task, NEW j \in DOMAIN task,
               i < j, task'[j] # "stream"
        PROVE  task'[i] = "done"
    <3>1. task[j] # "stream"
      BY <2>1, <1>5, Zenon
    <3>2. task[i] = "done"
      BY <2>1, <3>1, Zenon DEF InOrder
    <3>3. i \notin Running
      BY <3>2, Zenon DEF Running
    <3> QED
      BY <3>2, <3>3, <1>4, Zenon
  <2>2. ~ overlapped' => ~ overlapped
    BY <1>2, Zenon
  <2> QED
    BY <2>1, <2>2, <1>6, Zenon DEF InOrder
<1> QED
  BY <1>1, <1>7, <1>8, <1>9, <1>10, Zenon

Row == [of : Conns, open : BOOLEAN]

\* _persist_ea_disconnected closes one row, if one is open, and changes no other.
LEMMA ClosesOne ==
    ASSUME rows \in Seq(Row), rows' = CloseLatest(rows)
    PROVE  /\ rows' \in Seq(Row) /\ RowConns' = RowConns
           /\ OpenRows = {} => OpenRows' = {}
           /\ OpenRows # {} => \E m \in OpenRows : OpenRows' = OpenRows \ {m}
<1> DEFINE latest == CHOOSE k \in OpenRows : \A l \in OpenRows : l <= k
<1>1. CASE OpenRows = {}
  <2>1. rows' = rows
    BY <1>1, Zenon DEF CloseLatest, OpenRows
  <2> QED
    BY <2>1, <1>1, Zenon DEF RowConns, OpenRows
<1>2. CASE OpenRows # {}
  <2>1. Len(rows) \in Nat /\ OpenRows \in SUBSET (1 .. Len(rows)) /\ DOMAIN rows = 1 .. Len(rows)
    BY DEF OpenRows
  <2>2. \E k \in OpenRows : \A l \in OpenRows : l <= k
    BY <1>2, <2>1, GreatestOf, Zenon
  <2>3. latest \in OpenRows
    BY <2>2, Zenon
  <2>4. rows' = [rows EXCEPT ![latest].open = FALSE]
    BY <1>2, Zenon DEF CloseLatest, OpenRows
  <2> HIDE DEF latest
  <2>5. latest \in DOMAIN rows
    BY <2>3, Zenon DEF OpenRows
  <2>6. PICK m \in DOMAIN rows : m = latest
    BY <2>5, Zenon
  <2>7. rows' = [rows EXCEPT ![m] = [rows[m] EXCEPT !.open = FALSE]]
    BY <2>4, <2>6, Zenon
  <2>8. rows[m] \in Row
    OBVIOUS
  <2>9. /\ [rows[m] EXCEPT !.open = FALSE] \in Row
        /\ [rows[m] EXCEPT !.open = FALSE].of = rows[m].of
        /\ ~ [rows[m] EXCEPT !.open = FALSE].open
    BY <2>8, Zenon DEF Row
  <2>10. rows' \in Seq(Row) /\ DOMAIN rows' = DOMAIN rows
    BY <2>7, <2>9
  <2>11. \A l \in DOMAIN rows : l # m => rows'[l] = rows[l]
    BY <2>7, Zenon
  <2>12. rows'[m].of = rows[m].of /\ ~ rows'[m].open
    BY <2>7, <2>9, Zenon
  <2>13. RowConns' = RowConns
    BY <2>10, <2>11, <2>12, Zenon DEF RowConns
  <2>14. OpenRows' = OpenRows \ {m}
    BY <2>10, <2>11, <2>12, Zenon DEF OpenRows
  <2> QED
    BY <2>3, <2>6, <2>10, <2>13, <2>14, <1>2, Zenon
<1> QED
  BY <1>1, <1>2, Zenon

\* _persist_ea_connected adds an open row.
LEMMA OpensOne ==
    ASSUME rows \in Seq(Row), NEW c \in Conns,
           rows' = Append(rows, [of |-> c, open |-> TRUE])
    PROVE  /\ rows' \in Seq(Row) /\ RowConns' = RowConns \cup {c}
           /\ \E m : m \notin OpenRows /\ OpenRows' = OpenRows \cup {m}
<1>1. PICK n \in Nat : n = Len(rows) /\ DOMAIN rows = 1 .. n
  OBVIOUS
<1>2. [of |-> c, open |-> TRUE] \in Row
  BY Zenon DEF Row
<1>3. rows' \in Seq(Row) /\ DOMAIN rows' = 1 .. n + 1 /\ n + 1 \in DOMAIN rows'
  BY <1>1, <1>2
<1>4. \A l \in 1 .. n : rows'[l] = rows[l] /\ l \in 1 .. n + 1
  BY <1>1
<1>5. rows'[n + 1].of = c /\ rows'[n + 1].open
  BY <1>1
<1>6. \A l \in 1 .. n + 1 : l \in 1 .. n \/ l = n + 1
  BY <1>1
<1>7. RowConns' = RowConns \cup {c}
  <2>1. ASSUME NEW d \in RowConns' PROVE d \in RowConns \cup {c}
    BY <2>1, <1>1, <1>3, <1>4, <1>5, <1>6, Zenon DEF RowConns
  <2>2. ASSUME NEW d \in RowConns \cup {c} PROVE d \in RowConns'
    BY <2>2, <1>1, <1>3, <1>4, <1>5, Zenon DEF RowConns
  <2> QED
    BY <2>1, <2>2, Zenon
<1>8. OpenRows' = OpenRows \cup {n + 1}
  BY <1>1, <1>3, <1>4, <1>5, <1>6, Zenon DEF OpenRows
<1>9. n + 1 \notin OpenRows
  BY <1>1, SMTT(30) DEF OpenRows
<1> QED
  BY <1>3, <1>7, <1>8, <1>9, Zenon

\* The counts after a row was added for the connection of the k-th event, which had none.
LEMMA CountedOpens ==
    ASSUME LogInv, NEW k \in DOMAIN events, task[k] = "write", events[k].kind = "connected",
           rows' = Append(rows, [of |-> events[k].of, open |-> TRUE]),
           UNCHANGED <<events, faults, overlapped>>, task'[k] = "ack",
           \A l \in DOMAIN events : l # k => task'[l] = task[l]
    PROVE  Counted'
<1> USE DEF LogInv
<1>1. PICK c \in Conns : c = events[k].of /\ Begins(k, c)
  <2>1. events[k].of \in Conns
    BY Zenon DEF LogType
  <2> QED
    BY <2>1, Zenon DEF Begins
<1>2. rows \in Seq(Row)
  BY Zenon DEF LogType, Row
<1>3. RowConns' = RowConns \cup {c}
  BY <1>1, <1>2, OpensOne, Zenon
<1>4. PICK m : m \notin OpenRows /\ OpenRows' = OpenRows \cup {m}
  BY <1>1, <1>2, OpensOne, Zenon
<1>5. IsFiniteSet(OpenRows) /\ Cardinality(OpenRows) \in Nat
  BY OpenRowsFinite, Zenon DEF LogType
<1>6. Cardinality(OpenRows') = Cardinality(OpenRows) + 1
  BY <1>4, <1>5, FS_AddElement, Zenon
<1>7. /\ \A l \in DOMAIN events : Handled(l) => Handled(l)'
      /\ \A l \in DOMAIN events : l # k => (Handled(l)' <=> Handled(l))
      /\ ~ Handled(k) /\ Handled(k)'
  BY Zenon DEF Handled
<1>8. Ended' = Ended
  <2>1. \A l \in DOMAIN events, d \in Conns : Ends(l, d)' <=> Ends(l, d)
    BY Zenon DEF Ends
  <2>2. \A d \in Conns : ~ Ends(k, d)
    BY Zenon DEF Ends
  <2> QED
    BY <2>1, <2>2, <1>7, Zenon DEF Ended
<1>9. SUFFICES ASSUME faults = 0
               PROVE  /\ IsFiniteSet(RowConns') /\ IsFiniteSet(Ended')
                      /\ \A d \in RowConns' :
                           \E l \in DOMAIN events : Begins(l, d)' /\ Handled(l)'
                      /\ Cardinality(OpenRows') + Cardinality(Ended') >= Cardinality(RowConns')
                      /\ ~ overlapped /\ NoneSkipped' =>
                           Cardinality(OpenRows') + Cardinality(Ended') = Cardinality(RowConns')
  BY Zenon DEF Counted
<1>10. IsFiniteSet(RowConns) /\ IsFiniteSet(Ended)
  BY <1>9, Zenon DEF Counted
<1>11. Cardinality(RowConns) \in Nat /\ Cardinality(Ended) \in Nat
  BY <1>10, FS_CardinalityType, Zenon
<1>12. \A l \in DOMAIN events, d \in Conns : Begins(l, d)' <=> Begins(l, d)
  BY Zenon DEF Begins
<1>13. c \notin RowConns
  <2>1. SUFFICES ASSUME c \in RowConns PROVE FALSE
    BY Zenon
  <2>2. PICK l \in DOMAIN events : Begins(l, c) /\ Handled(l)
    BY <1>9, <2>1, Zenon DEF Counted
  <2>3. l = k
    BY <1>1, <2>2, Zenon DEF Announced, Once
  <2> QED
    BY <2>2, <2>3, <1>7, Zenon
<1>14. IsFiniteSet(RowConns') /\ Cardinality(RowConns') = Cardinality(RowConns) + 1
  BY <1>3, <1>10, <1>13, FS_AddElement, Zenon
<1>15. \A d \in RowConns' : \E l \in DOMAIN events : Begins(l, d)' /\ Handled(l)'
  <2> SUFFICES ASSUME NEW d \in RowConns'
               PROVE  \E l \in DOMAIN events : Begins(l, d)' /\ Handled(l)'
    BY Zenon
  <2>1. CASE d = c
    BY <2>1, <1>1, <1>7, <1>12, Zenon
  <2>2. CASE d \in RowConns
    <3>1. d \in Conns
      BY <2>2, Zenon DEF RowConns
    <3>2. PICK l \in DOMAIN events : Begins(l, d) /\ Handled(l)
      BY <2>2, <1>9, Zenon DEF Counted
    <3> QED
      BY <3>1, <3>2, <1>7, <1>12, Zenon
  <2> QED
    BY <2>1, <2>2, <1>3, Zenon
<1>16. NoneSkipped' => NoneSkipped
  <2> SUFFICES ASSUME NoneSkipped', NEW l \in DOMAIN events, NEW d \in Conns,
                      Begins(l, d), Handled(l)
               PROVE  d \in RowConns
    BY Zenon DEF NoneSkipped
  <2>1. d \in RowConns'
    BY <1>7, <1>12, Zenon DEF NoneSkipped
  <2>2. d # c
    <3>1. l # k
      BY <1>7, Zenon
    <3> QED
      BY <3>1, <1>1, Zenon DEF Announced, Once
  <2> QED
    BY <2>1, <2>2, <1>3, Zenon
<1>17. /\ Cardinality(OpenRows) + Cardinality(Ended) >= Cardinality(RowConns)
       /\ ~ overlapped /\ NoneSkipped =>
              Cardinality(OpenRows) + Cardinality(Ended) = Cardinality(RowConns)
  BY <1>9, Zenon DEF Counted
<1>18. Cardinality(Ended') = Cardinality(Ended)
  BY <1>8, Zenon
<1>19. Cardinality(OpenRows') + Cardinality(Ended') >= Cardinality(RowConns')
  BY ONLY <1>5, <1>6, <1>11, <1>14, <1>17, <1>18, SMTT(30)
<1>20. ASSUME ~ overlapped, NoneSkipped'
       PROVE  Cardinality(OpenRows') + Cardinality(Ended') = Cardinality(RowConns')
  <2>1. Cardinality(OpenRows) + Cardinality(Ended) = Cardinality(RowConns)
    BY <1>16, <1>17, <1>20, Zenon
  <2> QED
    BY ONLY <2>1, <1>5, <1>6, <1>11, <1>14, <1>18, SMTT(30)
<1> QED
  BY <1>8, <1>10, <1>14, <1>15, <1>19, <1>20, Zenon

\* The counts after the end of a connection closed the latest row, its own or another.
LEMMA CountedCloses ==
    ASSUME LogInv, NEW k \in DOMAIN events, task[k] = "write", events[k].kind = "disconnected",
           rows' = CloseLatest(rows),
           UNCHANGED <<events, faults, overlapped>>, task'[k] = "ack",
           \A l \in DOMAIN events : l # k => task'[l] = task[l]
    PROVE  Counted'
<1> USE DEF LogInv
<1>1. PICK c \in Conns : c = events[k].of /\ Ends(k, c)
  <2>1. events[k].of \in Conns
    BY Zenon DEF LogType
  <2> QED
    BY <2>1, Zenon DEF Ends
<1>2. rows \in Seq(Row) /\ DOMAIN task = DOMAIN events /\ DOMAIN events \subseteq Int
  BY DEF LogType, Row
<1>3. RowConns' = RowConns
  BY <1>2, ClosesOne, Zenon
<1>4. /\ OpenRows = {} => OpenRows' = {}
      /\ OpenRows # {} => \E m \in OpenRows : OpenRows' = OpenRows \ {m}
  BY <1>2, ClosesOne, Zenon
<1>5. IsFiniteSet(OpenRows) /\ Cardinality(OpenRows) \in Nat
  BY OpenRowsFinite, Zenon DEF LogType
<1>6. /\ OpenRows # {} => Cardinality(OpenRows') = Cardinality(OpenRows) - 1
      /\ OpenRows = {} => Cardinality(OpenRows') = 0 /\ Cardinality(OpenRows) = 0
  BY <1>4, <1>5, FS_RemoveElement, FS_EmptySet, Zenon
<1>7. /\ \A l \in DOMAIN events : Handled(l) => Handled(l)'
      /\ \A l \in DOMAIN events : l # k => (Handled(l)' <=> Handled(l))
      /\ ~ Handled(k) /\ Handled(k)'
  BY Zenon DEF Handled
<1>8. \A l \in DOMAIN events, d \in Conns :
          (Ends(l, d)' <=> Ends(l, d)) /\ (Begins(l, d)' <=> Begins(l, d))
  BY Zenon DEF Ends, Begins
<1>9. Ended' = Ended \cup {c}
  <2>1. \A d \in Conns : Ends(k, d) => d = c
    BY <1>1, Zenon DEF Ends
  <2> QED
    BY <1>1, <1>7, <1>8, <2>1, Zenon DEF Ended
<1>10. c \notin Ended
  <2>1. SUFFICES ASSUME c \in Ended PROVE FALSE
    BY Zenon
  <2>2. PICK l \in DOMAIN events : Ends(l, c) /\ Handled(l)
    BY <2>1, Zenon DEF Ended
  <2>3. l = k
    BY <1>1, <2>2, Zenon DEF Announced, Once
  <2> QED
    BY <2>2, <2>3, <1>7, Zenon
<1>11. SUFFICES ASSUME faults = 0
               PROVE  /\ IsFiniteSet(RowConns') /\ IsFiniteSet(Ended')
                      /\ \A d \in RowConns' :
                           \E l \in DOMAIN events : Begins(l, d)' /\ Handled(l)'
                      /\ Cardinality(OpenRows') + Cardinality(Ended') >= Cardinality(RowConns')
                      /\ ~ overlapped /\ NoneSkipped' =>
                           Cardinality(OpenRows') + Cardinality(Ended') = Cardinality(RowConns')
  BY Zenon DEF Counted
<1>12. IsFiniteSet(RowConns) /\ IsFiniteSet(Ended)
  BY <1>11, Zenon DEF Counted
<1>13. Cardinality(RowConns) \in Nat /\ Cardinality(Ended) \in Nat
  BY <1>12, FS_CardinalityType, Zenon
<1>14. IsFiniteSet(Ended') /\ Cardinality(Ended') = Cardinality(Ended) + 1
  BY <1>9, <1>10, <1>12, FS_AddElement, Zenon
<1>15. \A d \in RowConns' : \E l \in DOMAIN events : Begins(l, d)' /\ Handled(l)'
  <2> SUFFICES ASSUME NEW d \in RowConns
               PROVE  \E l \in DOMAIN events : Begins(l, d)' /\ Handled(l)'
    BY <1>3, Zenon
  <2>1. d \in Conns
    BY Zenon DEF RowConns
  <2>2. PICK l \in DOMAIN events : Begins(l, d) /\ Handled(l)
    BY <1>11, Zenon DEF Counted
  <2> QED
    BY <2>1, <2>2, <1>7, <1>8, Zenon
<1>16. NoneSkipped' => NoneSkipped
  BY <1>3, <1>7, <1>8, Zenon DEF NoneSkipped
<1>17. /\ Cardinality(OpenRows) + Cardinality(Ended) >= Cardinality(RowConns)
       /\ ~ overlapped /\ NoneSkipped =>
              Cardinality(OpenRows) + Cardinality(Ended) = Cardinality(RowConns)
  BY <1>11, Zenon DEF Counted
<1>18. Cardinality(RowConns') = Cardinality(RowConns)
  BY <1>3, Zenon
<1>19. Cardinality(OpenRows') + Cardinality(Ended') >= Cardinality(RowConns')
  BY ONLY <1>5, <1>6, <1>13, <1>14, <1>17, <1>18, SMTT(30)
<1>20. ASSUME ~ overlapped, NoneSkipped'
       PROVE  Cardinality(OpenRows') + Cardinality(Ended') = Cardinality(RowConns')
  <2>1. Cardinality(OpenRows) + Cardinality(Ended) = Cardinality(RowConns)
    BY <1>16, <1>17, <1>20, Zenon
  <2>2. \A d \in Conns, l \in DOMAIN events :
            Ends(l, d) /\ (l = k \/ Handled(l)) => d \in RowConns
    <3> SUFFICES ASSUME NEW d \in Conns, NEW l \in DOMAIN events,
                        Ends(l, d), l = k \/ Handled(l)
                 PROVE  d \in RowConns
      BY Zenon
    <3>1. PICK j \in DOMAIN events : j < l /\ Begins(j, d)
      BY <1>11, Zenon DEF Announced, Complete
    <3>2. task[l] # "stream"
      BY Zenon DEF Handled
    <3>3. task[j] = "done"
      BY <3>1, <3>2, <1>2, <1>20, Zenon DEF InOrder
    <3> QED
      BY <3>1, <3>3, <1>16, <1>20, Zenon DEF NoneSkipped, Handled
  <2>3. Ended \in SUBSET RowConns /\ c \in RowConns
    BY <2>2, <1>1, Zenon DEF Ended
  <2>4. Cardinality(Ended) # Cardinality(RowConns)
    BY <2>3, <1>10, <1>12, FS_Subset, Zenon
  <2>5. OpenRows # {}
    BY <2>1, <2>4, <1>6, <1>13
  <2> QED
    BY ONLY <2>1, <2>5, <1>5, <1>6, <1>13, <1>14, <1>18, SMTT(30)
<1> QED
  BY <1>3, <1>12, <1>14, <1>15, <1>19, <1>20, Zenon

\* The statement of a handler: the row of a connection, the end of a session, or the row
\* of an attempt; or it fails.
LEMMA WriteStep ==
    ASSUME LogInv, NEW k \in DOMAIN task, Write(k)
    PROVE  LogInv'
<1> USE DEF LogInv
<1>1. "ack" \in Places /\ task' = [task EXCEPT ![k] = "ack"] /\ task[k] = "write"
  BY Zenon DEF Write, Places
<1>2. UNCHANGED <<socket, events, overlapped>>
  BY Zenon DEF Write
<1>3. k \in DOMAIN events /\ events[k] \in Event /\ faults \in Nat
  <2>1. events \in Seq(Event) /\ DOMAIN task = DOMAIN events
    BY DEF LogType
  <2> QED
    BY <2>1 DEF LogType
<1>4. events[k].kind \in {"connected", "disconnected", "attempt"}
  BY <1>3, Zenon DEF Event, Kinds
<1>5. events[k].of \in IF events[k].kind = "attempt" THEN Attempts ELSE Conns
  BY <1>3, Zenon DEF LogType
<1>6. rows \in Seq(Row) /\ logged \in [Attempts -> Nat]
  BY Zenon DEF LogType, Row
<1>7. ASSUME faults' \in Nat, faults' = 0 => faults = 0, rows' \in Seq(Row),
             logged' \in [Attempts -> Nat]
      PROVE  /\ LogType' /\ Announced' /\ InOrder'
             /\ DOMAIN task' = DOMAIN events /\ DOMAIN task = DOMAIN events
             /\ task'[k] = "ack"
             /\ \A l \in DOMAIN task : l # k => task'[l] = task[l]
  <2>1. overlapped' \in BOOLEAN /\ rows' \in Seq([of : Conns, open : BOOLEAN])
    BY <1>2, <1>7, Zenon DEF LogType, Row
  <2>2. "ack" # "select" /\ "ack" # "stream" /\ task[k] \notin {"stream", "done"} /\ overlapped' = overlapped
    BY <1>1, <1>2, Zenon
  <2> QED
    BY <1>1, <1>2, <1>7, <2>1, <2>2, HandlerMoves, Zenon
<1>8. ASSUME applied \subseteq applied', failed \subseteq failed',
             events[k] \in applied' \cup failed', DOMAIN task' = DOMAIN task,
             \A l \in DOMAIN task : l # k => task'[l] = task[l]
      PROVE  \A l \in DOMAIN task' : Handled(l)' => events'[l] \in applied' \cup failed'
  BY <1>2, <1>8, Zenon DEF Stored, Handled
<1>9. CASE Fault /\ failed' = failed \cup {events[k]} /\ UNCHANGED <<rows, logged, applied>>
  <2>1. faults' \in Nat /\ faults' # 0 /\ Counted'
    BY <1>3, <1>9, CountedAfterFault, Zenon
  <2>2. /\ LogType' /\ Announced' /\ InOrder' /\ DOMAIN task' = DOMAIN task
        /\ \A l \in DOMAIN task : l # k => task'[l] = task[l]
    BY <1>6, <1>7, <1>9, <2>1, Zenon
  <2>3. \A l \in DOMAIN task' : Handled(l)' => events'[l] \in applied' \cup failed'
    BY <1>8, <1>9, <2>2, Zenon
  <2>4. Stored'
    BY <2>3, <1>9, Zenon DEF Stored
  <2> QED
    BY <2>1, <2>2, <2>4, Zenon
<1>10. CASE /\ rows' = CASE events[k].kind = "connected" -> Append(rows, [of |-> events[k].of, open |-> TRUE])
                         [] events[k].kind = "disconnected" -> CloseLatest(rows)
                         [] OTHER -> rows
            /\ logged' = IF events[k].kind = "attempt" THEN [logged EXCEPT ![events[k].of] = @ + 1]
                         ELSE logged
            /\ applied' = applied \cup {events[k]}
            /\ UNCHANGED <<failed, faults>>
  <2>1. rows' \in Seq(Row)
    <3>1. CASE events[k].kind = "connected"
      <4>1. rows' = Append(rows, [of |-> events[k].of, open |-> TRUE]) /\ events[k].of \in Conns
        BY <1>5, <1>10, <3>1, Zenon
      <4> QED
        BY <4>1, <1>6, OpensOne, Zenon
    <3>2. CASE events[k].kind = "disconnected"
      BY <3>2, <1>6, <1>10, ClosesOne, Zenon
    <3>3. CASE events[k].kind = "attempt"
      BY <3>3, <1>6, <1>10, Zenon
    <3> QED
      BY <3>1, <3>2, <3>3, <1>4, Zenon
  <2>2. /\ logged' \in [Attempts -> Nat]
        /\ \A a \in Attempts : logged[a] > 0 => logged'[a] > 0
        /\ events[k].kind = "attempt" => logged'[events[k].of] > 0
    BY <1>5, <1>6, <1>10
  <2>3. /\ LogType' /\ Announced' /\ InOrder' /\ DOMAIN task' = DOMAIN task
        /\ DOMAIN task = DOMAIN events /\ task'[k] = "ack"
        /\ \A l \in DOMAIN task : l # k => task'[l] = task[l]
    BY <1>3, <1>7, <1>10, <2>1, <2>2, Zenon
  <2>4. \A l \in DOMAIN task' : Handled(l)' => events'[l] \in applied' \cup failed'
    BY <1>8, <1>10, <2>3, Zenon
  <2>5. ASSUME NEW a \in Attempts, [kind |-> "attempt", of |-> a] \in applied'
        PROVE  logged'[a] > 0
    <3>1. CASE [kind |-> "attempt", of |-> a] \in applied
      BY <3>1, <2>2, Zenon DEF Stored
    <3>2. CASE [kind |-> "attempt", of |-> a] = events[k]
      <4>1. events[k].kind = "attempt" /\ events[k].of = a
        BY <3>2
      <4> QED
        BY <4>1, <2>2, Zenon
    <3> QED
      BY <3>1, <3>2, <2>5, <1>10, Zenon
  <2>6. Stored'
    BY <2>4, <2>5, Zenon DEF Stored
  <2>7. Counted'
    <3>1. CASE events[k].kind = "connected"
      <4>1. rows' = Append(rows, [of |-> events[k].of, open |-> TRUE])
        BY <1>10, <3>1, Zenon
      <4> QED
        BY <4>1, <3>1, <1>1, <1>2, <1>3, <1>10, <2>3, CountedOpens, Zenon
    <3>2. CASE events[k].kind = "disconnected"
      <4>1. rows' = CloseLatest(rows)
        BY <1>10, <3>2, Zenon
      <4> QED
        BY <4>1, <3>2, <1>1, <1>2, <1>3, <1>10, <2>3, CountedCloses, Zenon
    <3>3. CASE events[k].kind = "attempt"
      <4>1. rows' = rows
        BY <1>10, <3>3, Zenon
      <4>2. Ended' = Ended
        BY <3>3, <1>2, <2>3, Zenon DEF Ended, Ends, Handled
      <4>3. RowConns' = RowConns /\ OpenRows' = OpenRows
        BY <4>1, Zenon DEF RowConns, OpenRows
      <4>4. \A l \in DOMAIN events, d \in Conns :
                (Begins(l, d) /\ Handled(l))' <=> (Begins(l, d) /\ Handled(l))
        BY <3>3, <1>2, <2>3, Zenon DEF Begins, Handled
      <4>5. NoneSkipped' <=> NoneSkipped
        BY <4>3, <4>4, <1>2, Zenon DEF NoneSkipped
      <4>6. (\A d \in RowConns : \E l \in DOMAIN events : Begins(l, d) /\ Handled(l))
            => (\A d \in RowConns : \E l \in DOMAIN events : Begins(l, d) /\ Handled(l))'
        <5>1. RowConns \subseteq Conns
          BY Zenon DEF RowConns
        <5> QED
          BY <5>1, <4>3, <4>4, <1>2, Zenon
      <4> QED
        BY <4>2, <4>3, <4>5, <4>6, <1>2, <1>10, Zenon DEF Counted
    <3> QED
      BY <3>1, <3>2, <3>3, <1>4, Zenon
  <2> QED
    BY <2>3, <2>6, <2>7, Zenon
<1> QED
  BY <1>9, <1>10, Zenon DEF Write

\* The portal leaves the log alone; its own faults are counted with the others.
LEMMA PortalStep ==
    ASSUME LogInv, UNCHANGED svars, faults' \in Nat, faults' = 0 => faults = 0
    PROVE  LogInv'
<1> USE DEF LogInv
<1>1. UNCHANGED <<socket, events, task, rows, logged, applied, failed, overlapped>>
  BY Zenon DEF svars, stored
<1>2. LogType'
  BY <1>1, Zenon DEF LogType
<1>3. Stored'
  BY <1>1, Zenon DEF Stored, Handled
<1>4. Announced'
  BY <1>1, AnnouncedSame, Zenon
<1>5. InOrder'
  BY <1>1, Zenon DEF InOrder
<1>6. Counted'
  <2>1. \A l : Handled(l)' <=> Handled(l)
    BY <1>1, Zenon DEF Handled
  <2>2. CASE faults' = faults
    BY <2>1, <2>2, <1>1, CountedKept, Zenon
  <2>3. CASE faults' # 0
    BY <2>3, Zenon DEF Counted
  <2>4. CASE faults = 0 /\ faults' = 0
    BY <2>2, <2>4, Zenon
  <2> QED
    BY <2>2, <2>3, <2>4, Zenon
<1> QED
  BY <1>2, <1>3, <1>4, <1>5, <1>6, Zenon

\* For any number of connections, attempts and faults: what persist stores follows the
\* events of the bridge and of ingress, whatever the portal does meanwhile.
THEOREM LogFollowsEvents == SSpec => []TablesFollowEvents
<1>1. Init /\ SInit => LogInv
  <2> SUFFICES ASSUME Init, SInit PROVE LogInv
    BY Zenon
  <2>1. faults \in Nat
    BY Zenon DEF Init
  <2>2. /\ socket = [c \in Conns |-> "new"] /\ events = << >> /\ task = << >> /\ rows = << >>
        /\ logged = [a \in Attempts |-> 0] /\ applied = {} /\ overlapped = FALSE
    BY Zenon DEF SInit
  <2>3. DOMAIN events = {} /\ DOMAIN task = {} /\ DOMAIN rows = {}
    BY <2>2, SMTT(30)
  <2>4. LogType
    <3>1. events \in Seq(Event) /\ task \in Seq(Places) /\ rows \in Seq([of : Conns, open : BOOLEAN])
      BY <2>2
    <3>2. Len(task) = Len(events) /\ overlapped \in BOOLEAN
      BY <2>2, Zenon
    <3>3. socket \in [Conns -> {"new", "open", "closed"}] /\ logged \in [Attempts -> Nat]
      BY <2>2, Zenon
    <3> QED
      BY <2>1, <2>3, <3>1, <3>2, <3>3, Zenon DEF LogType
  <2>5. Stored /\ InOrder /\ Truthful /\ Once
    BY <2>2, <2>3, Zenon DEF Stored, InOrder, Truthful, Once
  <2>6. Complete
    BY <2>2, <2>3, Zenon DEF Complete
  <2>7. RowConns = {} /\ Ended = {} /\ OpenRows = {}
    BY <2>3, Zenon DEF RowConns, Ended, OpenRows
  <2>8. Counted
    BY <2>7, FS_EmptySet DEF Counted
  <2> QED
    BY <2>4, <2>5, <2>6, <2>8, Zenon DEF LogInv, Announced
<1>2. LogInv /\ [SNext]_<<vars, svars>> => LogInv'
  <2> SUFFICES ASSUME LogInv, [SNext]_<<vars, svars>> PROVE LogInv'
    BY Zenon
  <2>0. faults \in Nat
    BY Zenon DEF LogInv, LogType
  <2>1. CASE Events
    BY <2>1, SpeakersStep, DeliverStep, SelectStep, WriteStep, AckStep, RestartStep, Zenon DEF Events
  <2>2. CASE Next /\ UNCHANGED svars
    BY <2>0, <2>2, FaultsGrow, PortalStep, Zenon
  <2>3. CASE UNCHANGED <<vars, svars>>
    <3>1. faults' = faults /\ UNCHANGED svars
      BY <2>3, Zenon DEF vars
    <3> QED
      BY <3>1, <2>0, PortalStep, Zenon
  <2> QED
    BY <2>1, <2>2, <2>3, Zenon DEF SNext
<1> QED
  BY <1>1, <1>2, LogInvGives, PTL DEF SSpec

=============================================================================
