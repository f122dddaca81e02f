------------------------------ MODULE Credentials ------------------------------
(***************************************************************************)
(* The bridge's own certificate authority (internal/certs) and the two     *)
(* kinds of process that use it (cmd/spacemouse-bridge): the service,      *)
(* which on every start ensures the credentials, installs the authority    *)
(* into the browsers' stores and serves, and the -trust and -untrust       *)
(* commands a user runs beside it.                                         *)
(*                                                                         *)
(* Ensure replaces files one by one, each truncated and then filled, and a *)
(* process may die between any two of those steps.  The service is         *)
(* restarted whatever it dies of.  Time makes certificates expire, the     *)
(* user deletes the directory or creates a browser profile.                *)
(*                                                                         *)
(* Both work on the stores through certutil, one process for each look,    *)
(* removal and addition; what it does is one step.  The other actor, or a  *)
(* crash, may come between any two of them.                                *)
(*                                                                         *)
(* A certificate is the number of its key pair; no two keys have the same. *)
(* Two Ensures never overlap: nothing in the code keeps them apart, and    *)
(* nothing is claimed of them.                                             *)
(***************************************************************************)
EXTENDS Integers, Sequences

CONSTANTS
    Stores,      \* browser profiles that may exist
    Shared,      \* the one of them that Chromium browsers share
    Locked,      \* those in which certutil fails
    MaxCrashes, MaxAged, MaxDeletions   \* bounds on what happens from outside

ASSUME CredentialsAssumption ==
    Shared \in Stores /\ Locked \subseteq Stores /\ {MaxCrashes, MaxAged, MaxDeletions} \subseteq Nat

Actors == {"service", "command"}
Files == {"caCert", "caKey", "leafCert", "leafKey", "chain"}

\* What a file holds: a key, or a certificate for key issued by ca; in the chain
\* followed by the authority's own, root.  Zero stands for a part that is not there.
Key(k) == [key |-> k, ca |-> 0, root |-> 0]
Cert(k, ca) == [key |-> k, ca |-> ca, root |-> 0]
Chain(k, ca, root) == [key |-> k, ca |-> ca, root |-> root]
Missing == Key(0)
Torn == Key(-1)
Parses(content) == content.key > 0
NoCA == [cert |-> 0, key |-> 0]

VARIABLES
    files,      \* the credential directory
    profiles,   \* the stores that exist
    installed,  \* per store: the authority under our nickname, 0 if none
    aged,       \* certificates expired, or too close to it
    fresh,      \* the next key
    pc,         \* per actor; "ensured" is the return of Ensure without an error
    held,       \* the running Ensure's caCert and caKey
    todo, open, \* its writes, and whether the first has truncated its file
    sweep,      \* per actor: the stores its loop has yet to visit
    store,      \* per actor: the one it has looked at and is about to change
    ensured,    \* the authority the service's Ensure returned with
    served,     \* the chain the service presents
    swept,      \* history: the stores the service's last sweep covered
    untrusted,  \* history: those of which nobody finished a visit since the sweep
                \* began, an untrust took the authority out or a -trust died there
    harmed,     \* history: a process died where Ensure does not recover
    crashes, deletions

ensureVars == <<held, todo, open>>
sweepVars == <<sweep, store>>
pastVars == <<harmed, crashes, deletions>>
vars == <<files, profiles, installed, aged, fresh, pc, ensureVars, sweepVars, ensured,
          served, swept, untrusted, pastVars>>

Init ==
    /\ files = [f \in Files |-> Missing]
    /\ profiles \in SUBSET Stores /\ installed = [s \in Stores |-> 0]
    /\ aged = {} /\ fresh = 1
    /\ pc = [a \in Actors |-> "down"]
    /\ held = NoCA /\ todo = <<>> /\ open = FALSE
    /\ sweep = [a \in Actors |-> {}] /\ store = [a \in Actors |-> Shared]
    /\ ensured = 0 /\ served = Missing
    /\ swept = {} /\ untrusted = {}
    /\ harmed = FALSE /\ crashes = 0 /\ deletions = 0

InEnsure(a) == pc[a] \in {"loadCA", "leafOK", "writing", "ensured"}
NoEnsure == \A a \in Actors : ~InEnsure(a)
Goto(a, label) == pc' = [pc EXCEPT ![a] = label]

----------------------------------------------------------------------------
(* internal/certs, Ensure *)

\* loadCA succeeds on any certificate and any key that parse.
CAUsable ==
    /\ Parses(files["caCert"]) /\ files["caCert"].key \notin aged
    /\ Parses(files["caKey"])

CreateCA(k) ==
    <<[file |-> "caCert", content |-> Cert(k, k)], [file |-> "caKey", content |-> Key(k)]>>

LoadCA(a) ==
    /\ pc[a] = "loadCA"
    /\ IF CAUsable
         THEN /\ held' = [cert |-> files["caCert"].key, key |-> files["caKey"].key]
              /\ Goto(a, "leafOK")
              /\ UNCHANGED <<todo, fresh>>
         ELSE /\ held' = [cert |-> fresh, key |-> fresh]
              /\ todo' = CreateCA(fresh)
              /\ fresh' = fresh + 1
              /\ Goto(a, "writing")
    /\ UNCHANGED <<files, profiles, installed, aged, open, sweepVars, ensured, served,
                   swept, untrusted, pastVars>>

\* variants: the issuer is not compared with the authority; the key is not looked for
LeafOfAnyCA ==
    /\ Parses(files["leafCert"]) /\ files["leafCert"].key \notin aged
    /\ files["leafKey"] # Missing
LeafWithoutKey ==
    /\ Parses(files["leafCert"]) /\ files["leafCert"].key \notin aged
    /\ files["leafCert"].ca = held.cert

\* The key is only Stat'ed and the chain not looked at.
LeafOK ==
    /\ Parses(files["leafCert"]) /\ files["leafCert"].key \notin aged
    /\ files["leafKey"] # Missing
    /\ files["leafCert"].ca = held.cert

CreateLeaf(k) ==
    <<[file |-> "leafCert", content |-> Cert(k, held.cert)],
      [file |-> "leafKey", content |-> Key(k)],
      [file |-> "chain", content |-> Chain(k, held.cert, files["caCert"].key)]>>

\* Signing fails unless the authority's key belongs to its certificate.
CheckLeaf(a) ==
    /\ pc[a] = "leafOK"
    /\ \/ LeafOK /\ Goto(a, "ensured") /\ UNCHANGED <<todo, fresh>>
                 /\ UNCHANGED held
       \/ /\ ~LeafOK /\ held.cert # held.key
          /\ Goto(a, "down")
          /\ held' = NoCA
          /\ UNCHANGED <<todo, fresh>>
       \/ /\ ~LeafOK /\ held.cert = held.key
          /\ todo' = CreateLeaf(fresh)
          /\ fresh' = fresh + 1
          /\ Goto(a, "writing")
          /\ UNCHANGED held
    /\ UNCHANGED <<files, profiles, installed, aged, open, sweepVars, ensured, served,
                   swept, untrusted, pastVars>>

\* os.WriteFile: open with O_TRUNC, then write.
Truncate(a) ==
    /\ pc[a] = "writing" /\ ~open
    /\ open' = TRUE
    /\ files' = [files EXCEPT ![Head(todo).file] = Torn]
    /\ UNCHANGED <<profiles, installed, aged, fresh, pc, held, todo, sweepVars, ensured,
                   served, swept, untrusted, pastVars>>

Fill(a) ==
    /\ pc[a] = "writing" /\ open
    /\ open' = FALSE
    /\ files' = [files EXCEPT ![Head(todo).file] = Head(todo).content]
    /\ todo' = Tail(todo)
    /\ Goto(a, CASE Len(todo) > 1 -> "writing"
                 [] Head(todo).file = "caKey" -> "leafOK"
                 [] OTHER -> "ensured")
    /\ UNCHANGED <<profiles, installed, aged, fresh, held, sweepVars, ensured, served,
                   swept, untrusted, pastVars>>

EnsureStep(a) == LoadCA(a) \/ CheckLeaf(a) \/ Truncate(a) \/ Fill(a)

----------------------------------------------------------------------------
(* The commands *)

\* variant: any authority under the nickname will do
TrustedByName(s) == installed[s] # 0

\* The bytes are compared with those of ca.pem, which is read after the store.  One
\* step will do: ca.pem never holds an authority again that it held before.
Trusted(s) == installed[s] # 0 /\ installed[s] = files["caCert"].key

Emptied(s) == IF s \in Locked THEN installed ELSE [installed EXCEPT ![s] = 0]

\* variant: whatever the file holds is added
AddedAnything(s) == {IF s \in Locked THEN installed[s] ELSE files["caCert"].key}

\* What a store may hold after certutil -A, which refuses a torn or missing file.  If
\* the other actor has put an authority there since -D, either may be found.
Added(s) ==
    IF s \in Locked \/ ~Parses(files["caCert"]) THEN {installed[s]}
    ELSE {files["caCert"].key} \cup ({installed[s]} \ {0})

\* Every sweep begins with EnsureChromiumStore, and lists the stores once.
StoresFound == profiles \cup ({Shared} \ Locked)

FindStores(a) ==
    /\ pc[a] = "ensured"
    /\ Goto(a, "trusting")
    /\ profiles' = StoresFound
    /\ sweep' = [sweep EXCEPT ![a] = StoresFound]
    /\ held' = NoCA
    /\ IF a = "service"
         THEN ensured' = held.cert /\ swept' = StoresFound /\ untrusted' = StoresFound
         ELSE UNCHANGED <<ensured, swept, untrusted>>
    /\ UNCHANGED <<files, installed, aged, fresh, todo, open, store, served, pastVars>>

\* What no step of a sweep changes.
sweepFrame == <<files, profiles, aged, fresh, ensureVars, ensured, served, swept, pastVars>>

\* A store that has the authority is passed over.
TrustStore(a, s) ==
    /\ pc[a] = "trusting"
    /\ s \in sweep[a]
    /\ sweep' = [sweep EXCEPT ![a] = @ \ {s}]
    /\ IF Trusted(s)
         THEN untrusted' = untrusted \ {s} /\ UNCHANGED <<pc, store>>
         ELSE /\ Goto(a, "deleting")
              /\ store' = [store EXCEPT ![a] = s]
              /\ UNCHANGED untrusted
    /\ UNCHANGED <<installed, sweepFrame>>

\* Install, certutil -D: whatever the store holds by now, and ignoring a failure.
DeleteCA(a) ==
    /\ pc[a] = "deleting"
    /\ Goto(a, "adding")
    /\ installed' = Emptied(store[a])
    /\ UNCHANGED <<sweepVars, untrusted, sweepFrame>>

\* Install, certutil -A: a failure is only reported.
AddCA(a) ==
    /\ pc[a] = "adding"
    /\ Goto(a, "trusting")
    /\ \E ca \in Added(store[a]) : installed' = [installed EXCEPT ![store[a]] = ca]
    /\ untrusted' = untrusted \ {store[a]}
    /\ store' = [store EXCEPT ![a] = Shared]
    /\ UNCHANGED <<sweep, sweepFrame>>

\* runUntrust passes over a store that holds another authority than ca.pem.
UntrustStore(s) ==
    /\ pc["command"] = "untrusting"
    /\ s \in sweep["command"]
    /\ sweep' = [sweep EXCEPT !["command"] = @ \ {s}]
    /\ IF Trusted(s)
         THEN Goto("command", "removing") /\ store' = [store EXCEPT !["command"] = s]
         ELSE UNCHANGED <<pc, store>>
    /\ UNCHANGED <<installed, untrusted, sweepFrame>>

\* Remove, whatever the store holds by now.  That it first asks whether there is
\* anything makes no difference: a store that was empty then stays as it is.
RemoveCA ==
    /\ pc["command"] = "removing"
    /\ Goto("command", "untrusting")
    /\ installed' = Emptied(store["command"])
    /\ untrusted' = untrusted \cup {store["command"]}
    /\ store' = [store EXCEPT !["command"] = Shared]
    /\ UNCHANGED <<sweep, sweepFrame>>

CommandEnds ==
    /\ pc["command"] \in {"trusting", "untrusting"} /\ sweep["command"] = {}
    /\ Goto("command", "down")
    /\ UNCHANGED <<files, profiles, installed, aged, fresh, ensureVars, sweepVars, ensured,
                   served, swept, untrusted, pastVars>>

ServiceGone == served' = Missing /\ ensured' = 0 /\ swept' = {} /\ untrusted' = {}

\* ServeTLS loads the chain and the leaf's key; a pair that does not match is an error.
ServeTLS ==
    /\ pc["service"] = "trusting" /\ sweep["service"] = {}
    /\ IF Parses(files["chain"]) /\ files["chain"].key = files["leafKey"].key
         THEN /\ Goto("service", "serving")
              /\ served' = files["chain"]
              /\ UNCHANGED <<ensured, swept, untrusted>>
         ELSE Goto("service", "down") /\ ServiceGone
    /\ UNCHANGED <<files, profiles, installed, aged, fresh, ensureVars, sweepVars,
                   pastVars>>

Start(a) ==
    /\ pc[a] = "down"
    /\ NoEnsure
    /\ Goto(a, "loadCA")
    /\ UNCHANGED <<files, profiles, installed, aged, fresh, ensureVars, sweepVars, ensured,
                   served, swept, untrusted, pastVars>>

RunUntrust ==
    /\ pc["command"] = "down"
    /\ Goto("command", "untrusting")
    /\ profiles' = StoresFound
    /\ sweep' = [sweep EXCEPT !["command"] = StoresFound]
    /\ UNCHANGED <<files, installed, aged, fresh, ensureVars, store, ensured, served,
                   swept, untrusted, pastVars>>

----------------------------------------------------------------------------
(* What happens to them *)

\* Where an interrupted Ensure leaves files that the next one takes for good: the
\* leaf's certificate is in place but not yet its key and its chain, or the
\* authority's certificate is and an older key of it still parses.
Window ==
    LET file == Head(todo).file
    IN  \/ file = "chain"
        \/ file = "leafKey" /\ (open \/ files["leafKey"] # Missing)
        \/ file = "caKey" /\ ~open /\ Parses(files["caKey"])

Crash(a) ==
    /\ pc[a] # "down" /\ crashes < MaxCrashes
    /\ crashes' = crashes + 1
    /\ harmed' = (harmed \/ (pc[a] = "writing" /\ Window))
    /\ Goto(a, "down")
    /\ IF InEnsure(a) THEN held' = NoCA /\ todo' = <<>> /\ open' = FALSE
                      ELSE UNCHANGED ensureVars
    /\ IF a = "service" THEN ServiceGone
       ELSE /\ untrusted' = untrusted \cup (IF pc[a] = "adding" THEN {store[a]} ELSE {})
            /\ UNCHANGED <<served, ensured, swept>>
    /\ sweep' = [sweep EXCEPT ![a] = {}] /\ store' = [store EXCEPT ![a] = Shared]
    /\ UNCHANGED <<files, profiles, installed, aged, fresh, deletions>>

Age(k) ==
    /\ k > 0 /\ k \notin aged
    /\ Len(SelectSeq([i \in 1 .. fresh |-> i], LAMBDA n : n \in aged)) < MaxAged
    /\ aged' = aged \cup {k}
    /\ UNCHANGED <<files, profiles, installed, fresh, pc, ensureVars, sweepVars, ensured,
                   served, swept, untrusted, pastVars>>

DeleteDir ==
    /\ deletions < MaxDeletions /\ NoEnsure
    /\ deletions' = deletions + 1
    /\ files' = [f \in Files |-> Missing]
    /\ harmed' = FALSE
    /\ UNCHANGED <<profiles, installed, aged, fresh, pc, ensureVars, sweepVars, ensured,
                   served, swept, untrusted, crashes>>

NewProfile(s) ==
    /\ s \notin profiles
    /\ profiles' = profiles \cup {s}
    /\ UNCHANGED <<files, installed, aged, fresh, pc, ensureVars, sweepVars, ensured,
                   served, swept, untrusted, pastVars>>

ServiceStep ==
    \/ Start("service") \/ EnsureStep("service") \/ FindStores("service") \/ ServeTLS
    \/ \E s \in Stores : TrustStore("service", s)
    \/ DeleteCA("service") \/ AddCA("service")

CommandStep ==
    \/ EnsureStep("command") \/ FindStores("command") \/ CommandEnds
    \/ \E s \in Stores : TrustStore("command", s) \/ UntrustStore(s)
    \/ DeleteCA("command") \/ AddCA("command") \/ RemoveCA

Next ==
    \/ ServiceStep \/ CommandStep
    \/ Start("command") \/ RunUntrust
    \/ \E a \in Actors : Crash(a)
    \/ Age(files["caCert"].key) \/ Age(files["leafCert"].key)
    \/ DeleteDir \/ \E s \in Stores : NewProfile(s)

\* A process that was started goes on, and systemd restarts the service for ever
\* (StartLimitIntervalSec=0, Restart=always); commands need not be run.  Strong for
\* the service, which may find a user's Ensure in its way again and again.
Spec == Init /\ [][Next]_vars /\ SF_vars(ServiceStep) /\ WF_vars(CommandStep)

----------------------------------------------------------------------------
Numbers == -1 .. fresh - 1

TypeOK ==
    /\ files \in [Files -> [key : Numbers, ca : Numbers, root : Numbers]]
    /\ profiles \subseteq Stores /\ installed \in [Stores -> 0 .. fresh - 1]
    /\ aged \subseteq Numbers
    /\ pc \in [Actors -> {"down", "loadCA", "leafOK", "writing", "ensured", "trusting",
                          "deleting", "adding", "untrusting", "removing", "serving"}]
    /\ pc["service"] \notin {"untrusting", "removing"} /\ pc["command"] # "serving"
    /\ held \in [cert : Numbers, key : Numbers]
    /\ todo # <<>> <=> \E a \in Actors : pc[a] = "writing"
    /\ open => todo # <<>> /\ files[Head(todo).file] = Torn
    /\ \A a, b \in Actors : InEnsure(a) /\ InEnsure(b) => a = b
    /\ sweep \in [Actors -> SUBSET profiles] /\ store \in [Actors -> Stores]
    /\ swept \subseteq profiles /\ untrusted \subseteq Stores
    /\ harmed \in BOOLEAN

\* A complete set of credentials: a key for the certificate that is presented, a
\* chain up to the authority, and the authority's own key.
Usable ==
    LET leaf == files["leafCert"]
        ca == files["caCert"]
    IN  /\ Parses(ca) /\ files["caKey"].key = ca.key
        /\ Parses(leaf) /\ leaf.ca = ca.key
        /\ files["leafKey"].key = leaf.key
        /\ files["chain"] = Chain(leaf.key, ca.key, ca.key)

\* Ensure repairs whatever an earlier process left behind, wherever it died, but in
\* the windows of createCA and createLeaf named above (certs.go:148-183, 213-252).
HealsOutsideTheWindow ==
    \A a \in Actors : pc[a] = "ensured" /\ ~harmed => Usable

\* A -trust is between its -D and its -A there.
Replacing(s) == pc["command"] = "adding" /\ store["command"] = s

\* The browsers accept what the service presents: every store its last sweep covered
\* holds the authority of the served chain, for as long as the directory holds it.
\* The code leaves it out of a store where an untrust removed it, and where a -trust
\* that had looked before the service installed it now replaces it, or died doing so,
\* until somebody's next visit (credentials.go:72-84, 134-145, trust.go:144-151).
\* Nothing else does, whatever commands, crashes and expiries come between.
ServedIsTrusted ==
    pc["service"] = "serving" /\ served.root = ensured /\ files["caCert"].key = ensured
      => \A s \in swept \ (untrusted \cup Locked) : installed[s] = ensured \/ Replacing(s)

\* A service that is down, crashed in any step or unable to read what it finds, comes
\* up again by itself, also when some store cannot be written (credentials.go:47-49),
\* unless it died in one of the windows.
ServiceComesUp == pc["service"] = "down" ~> pc["service"] = "serving" \/ harmed

----------------------------------------------------------------------------
(* What a comment says, and the code does not do. *)

\* "leafOK reports whether the existing leaf is usable" (certs.go:187-188): when Ensure
\* returns without an error there is a complete set of credentials.
EnsuredIsUsable == \A a \in Actors : pc[a] = "ensured" => Usable
=============================================================================
