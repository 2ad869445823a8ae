---------------------------- MODULE SnapIdentity ----------------------------
(***************************************************************************)
(* The identity that kubenyx-snap writes beside a snapshot and the gate    *)
(* that compares it with the host a snapshot is to be restored on          *)
(* (rust/kubenyx-snap/src/lib.rs).  The module has no state: it is used by *)
(* SnapTake, which takes and restores snapshots.                           *)
(*                                                                         *)
(* A CPU is [model, flags].  A CPU template is what a JSON file says once  *)
(* its layout is gone, so a template file is [text, layout].               *)
(***************************************************************************)
EXTENDS Naturals, FiniteSets

CONSTANTS
    None,       \* Option::None
    Watchlist   \* CPU_FEATURE_WATCHLIST: the features that lock a snapshot

Fields == {"closure", "vmm", "cpu", "cpu_host"}

\* The two spellings of the cpu field; a template carries a prefix.
Template(t) == <<"template:", t>>
Host(f) == <<"host", f>>

\* SnapIdentity::is_empty.
IsEmpty(id) == \A k \in Fields : id[k] = None

\* cpu_fingerprint_from: only the listed features count.
Fingerprint(cpu) == Host([model |-> cpu.model, have |-> cpu.flags \cap Watchlist])

\* Mutant: the file is hashed as it is.
MutTemplateHash(file) == IF file.layout = 0 THEN file.text ELSE "another digest"

\* template_hash: the digest of the canonical text, so layout is ignored.
TemplateHash(file) == file.text

\* vmm_cpu_template: read off the configuration of the running VMM.
VmmCpuTemplate(config) == IF config = None THEN None ELSE TemplateHash(config)

\* resolve_template_spec: a file is hashed, a name or a digest is itself.
ResolveTemplateSpec(arg) ==
    IF arg = None THEN None
    ELSE IF arg.file THEN TemplateHash(arg) ELSE arg.text

TakeCpuIdentity(template, cpu) ==
    IF template = None
    THEN [cpu |-> Fingerprint(cpu), cpu_host |-> None]
    ELSE [cpu |-> Template(template), cpu_host |-> Fingerprint(cpu)]

\* Identity at a take.  A VMM that is not found has neither a binary nor a
\* template to report, and the snapshot is then keyed to the host.
TakeIdentity(closure, found, build, cpu) ==
    LET template == IF found THEN VmmCpuTemplate(build.config) ELSE None
        c == TakeCpuIdentity(template, cpu)
    IN [closure |-> closure, vmm |-> IF found THEN build.vmm ELSE None,
        cpu |-> c.cpu, cpu_host |-> c.cpu_host]

\* The manifest's identity lines: unknown fields are left out ...
IdentityLines(id) == {<<k, id[k]>> : k \in {f \in Fields : id[f] # None}}

\* ... and come back as unknown.
ParseIdentity(lines) ==
    [k \in Fields |-> IF \E l \in lines : l[1] = k
                      THEN (CHOOSE l \in lines : l[1] = k)[2] ELSE None]

\* identity_mismatches: a field counts when both sides know it.
IdentityMismatches(recorded, live) ==
    {k \in {"closure", "vmm"} : /\ recorded[k] # None
                                /\ live[k] # None
                                /\ recorded[k] # live[k]}

\* Mutant: a resume that names no template is not checked against one.
MutCpuMismatch(recorded, fingerprint, template) ==
    \/ recorded = None /\ template # None
    \/ /\ recorded # None
       /\ IF recorded[1] = "template:"
          THEN template # None /\ recorded # Template(template)
          ELSE template # None \/ recorded # fingerprint

\* cpu_identity_check, the rule table of the cpu lock.
CpuMismatch(recorded, fingerprint, template) ==
    \/ recorded = None /\ template # None
    \/ /\ recorded # None
       /\ IF recorded[1] = "template:"
          THEN recorded # Template(template)
          ELSE template # None \/ recorded # fingerprint

\* live_identity: no closure, and a VMM only if its path resolves.  --firecracker
\* is taken to name the binary that runs, not a script that starts it.
LiveIdentity(vmm, cpu) ==
    [closure |-> None, vmm |-> vmm, cpu |-> Fingerprint(cpu), cpu_host |-> None]

\* enforce_identity: whether the verb goes on.
Admits(lines, vmm, cpu, template, allow) ==
    LET recorded == ParseIdentity(lines)
        live == LiveIdentity(vmm, cpu)
    IN \/ allow
       \/ IF IsEmpty(recorded)
          THEN template = None
          ELSE /\ IdentityMismatches(recorded, live) = {}
               /\ ~CpuMismatch(recorded.cpu, live.cpu, template)
=============================================================================
