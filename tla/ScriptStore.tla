----------------------------- MODULE ScriptStore -----------------------------
(***************************************************************************)
(* The scripts of dynamic routes and the mappers of ESB records: files that*)
(* the handlers of dynamic_routes_api.go and esb_brokers_api.go write and  *)
(* read beside the collections of routes and of ESB records (of which only *)
(* the script names matter here), and that requests to the routes and the  *)
(* records' read tasks run.  A file is created empty, then written; nothing*)
(* orders the handlers of two requests.                                    *)
(***************************************************************************)
EXTENDS Naturals

CONSTANTS Path,        \* of dynamic routes
          Pool,        \* in-pools of ESB records
          Code,
          Handler,     \* goroutines of HTTP requests
          MaxTime,     \* seconds that pass: bounds the runs
          SameSecond,  \* whether two scripts may be named within one second
          None,        \* no entry, no file
          Broken,      \* a file cut short, or mixed of two
          Empty        \* EMPTY_MAPPER, the name in a record without mapper

ASSUME ScriptAssumption == /\ {None, Broken} \cap Code = {} /\ None # Broken
                           /\ Path \cap Pool = {} /\ {None, Empty} \cap Nat = {} /\ None # Empty
                           /\ MaxTime \in Nat /\ SameSecond \in BOOLEAN

VARIABLES coll,     \* coll[p]: the script name of the route or record p, or None
          files,    \* files[d][s]: what the file s of the directory d holds
          now,      \* the clock, in seconds
          req,      \* req[h]: the request of handler h
          sent,     \* sent[p]: the codes clients ever sent for p.  History.
          updated   \* the names of route scripts some PUT was for.  History.

vars == <<coll, files, now, req, sent, updated>>

Name == 0..MaxTime  \* of script_<seconds>.py
Key == Path \cup Pool

\* FS_DYN_HANDLE_DIR and FS_ESB_DIR.
Dir(p) == IF p \in Path THEN "dyn_handle" ELSE "mapper"

NoRequest == [pc |-> "idle", op |-> "none", path |-> None, code |-> None, name |-> None]

TypeOK == /\ coll \in [Key -> Name \cup {None, Empty}]
          /\ files \in [{"dyn_handle", "mapper"} -> [Name -> Code \cup {None, Broken}]]
          /\ now \in Name
          /\ req \in [Handler -> [pc : {"idle", "create", "write", "add", "read"},
                                  op : {"none", "post", "put", "get"},
                                  path : Key \cup {None},
                                  code : Code \cup {None, Broken},
                                  name : Name \cup {None, Empty}]]
          /\ sent \in [Key -> SUBSET Code]
          /\ updated \subseteq Name
          /\ \A h \in Handler : req[h].pc = "idle" <=> req[h].name = None
          /\ \A p \in Path : coll[p] # Empty
          /\ \A d \in DOMAIN files, s \in Name : s > now => files[d][s] = None

Init == /\ coll = [p \in Key |-> None]
        /\ files = [d \in {"dyn_handle", "mapper"} |-> [s \in Name |-> None]]
        /\ now = 0
        /\ req = [h \in Handler |-> NoRequest]
        /\ sent = [p \in Key |-> {}]
        /\ updated = {}

-----------------------------------------------------------------------------
Tick == now < MaxTime /\ now' = now + 1 /\ UNCHANGED <<coll, files, req, sent, updated>>

\* GenUniqueFilename: the time, to the second.
GenUniqueFilename(d, s) ==
  /\ s = now
  /\ ~SameSecond => /\ files[d][s] = None
                    /\ \A h \in Handler : req[h].name = s => Dir(req[h].path) # d

Begin(h, pc, op, p, c, s) ==
  /\ req[h].pc = "idle"
  /\ req' = [req EXCEPT ![h] = [pc |-> pc, op |-> op, path |-> p, code |-> c, name |-> s]]

End(h) == req' = [req EXCEPT ![h] = NoRequest]

Sends(p, c) == sent' = [sent EXCEPT ![p] = @ \cup {c}]

\* Mutant: the route is added without writing the file.
Store_NoFile(h, p, c) ==
  /\ \E s \in Name : GenUniqueFilename(Dir(p), s) /\ Begin(h, "add", "post", p, c, s)
  /\ Sends(p, c)
  /\ UNCHANGED <<coll, files, now, updated>>

\* POST with a script: it gets a name of its own and is written first.
Store(h, p, c) ==
  /\ \E s \in Name : GenUniqueFilename(Dir(p), s) /\ Begin(h, "create", "post", p, c, s)
  /\ Sends(p, c)
  /\ UNCHANGED <<coll, files, now, updated>>

PostRoute(h, p, c) == p \in Path /\ Store(h, p, c)

\* A record without mapper needs no file.
PostRecord(h, p) ==
  /\ p \in Pool
  /\ \/ \E c \in Code : Store(h, p, c)
     \/ Begin(h, "add", "post", p, None, Empty) /\ UNCHANGED <<coll, files, now, sent, updated>>

\* The client has its answer, 204, when the name is found.
Put(h, p, c) ==
  /\ p \in Path /\ coll[p] # None
  /\ Begin(h, "create", "put", p, c, coll[p])
  /\ Sends(p, c)
  /\ updated' = updated \cup {coll[p]}
  /\ UNCHANGED <<coll, files, now>>

\* The file stays.
Delete(p) == /\ coll' = [coll EXCEPT ![p] = None]
             /\ UNCHANGED <<files, now, req, sent, updated>>

DeleteRoute(p) == p \in Path /\ Delete(p)

\* DeleteOne reports no missing document: removing what is not there is a success.
DeleteRecord(p) == p \in Pool /\ Delete(p)

ReadScript(h, p) == /\ coll[p] # None
                    /\ Begin(h, "read", "get", p, None, coll[p])
                    /\ UNCHANGED <<coll, files, now, sent, updated>>

\* GET of the code, or a request to the route, which runs the script.
GetRoute(h, p) == p \in Path /\ ReadScript(h, p)

\* GET of the code, or a read task of the pool, which runs the mapper, if any.
GetRecord(h, p) == p \in Pool /\ coll[p] # Empty /\ ReadScript(h, p)

\* os.Create truncates.
CreateFile(h) ==
  /\ req[h].pc = "create"
  /\ files' = [files EXCEPT ![Dir(req[h].path)][req[h].name] = Broken]
  /\ req' = [req EXCEPT ![h].pc = "write"]
  /\ UNCHANGED <<coll, now, sent, updated>>

\* The write starts at the beginning of the file, which another handler may
\* have filled since; or it fails.
WriteFile(h) ==
  LET d == Dir(req[h].path)
      s == req[h].name
  IN
  /\ req[h].pc = "write"
  /\ \/ /\ \/ files' = [files EXCEPT ![d][s] = req[h].code]
           \/ files[d][s] \in Code /\ files' = [files EXCEPT ![d][s] = Broken]
        /\ IF req[h].op = "post" THEN req' = [req EXCEPT ![h].pc = "add"] ELSE End(h)
     \/ /\ files' = [files EXCEPT ![d][s] = Broken]
        /\ End(h)
  /\ UNCHANGED <<coll, now, sent, updated>>

\* Mutant: the name is in a variable that the handlers share.
AddEntry_Shared(h) ==
  /\ req[h].pc = "add"
  /\ \E g \in Handler : coll' = [coll EXCEPT ![req[h].path] =
                                   IF @ = None /\ req[g].op = "post" THEN req[g].name ELSE @]
  /\ End(h)
  /\ UNCHANGED <<files, now, sent, updated>>

\* The insertion: done, or refused as a duplicate, or failed; the file stays.
AddEntry(h) ==
  /\ req[h].pc = "add"
  /\ \/ /\ coll[req[h].path] = None
        /\ coll' = [coll EXCEPT ![req[h].path] = req[h].name]
     \/ UNCHANGED coll
  /\ End(h)
  /\ UNCHANGED <<files, now, sent, updated>>

AddDynamicEndpoint(h) == req[h].path \in Path /\ AddEntry(h)

AddEsbRecord(h) == req[h].path \in Pool /\ AddEntry(h)

\* Mutant: the handler is not done.
ReadFile_Again(h) ==
  /\ req[h].pc = "read"
  /\ req' = [req EXCEPT ![h].pc = "idle", ![h].code = files[Dir(req[h].path)][req[h].name]]
  /\ UNCHANGED <<coll, files, now, sent, updated>>

ReadFile(h) ==
  /\ req[h].pc = "read"
  /\ req' = [req EXCEPT ![h] = [NoRequest EXCEPT !.op = "get", !.path = req[h].path,
                                                 !.code = files[Dir(req[h].path)][req[h].name]]]
  /\ UNCHANGED <<coll, files, now, sent, updated>>

Next == \/ Tick
        \/ \E p \in Key : DeleteRoute(p) \/ DeleteRecord(p)
        \/ \E h \in Handler :
             \/ CreateFile(h) \/ WriteFile(h) \/ AddDynamicEndpoint(h) \/ AddEsbRecord(h)
             \/ ReadFile(h)
             \/ \E p \in Key :
                  \/ GetRoute(h, p) \/ GetRecord(h, p) \/ PostRecord(h, p)
                  \/ \E c \in Code : PostRoute(h, p, c) \/ Put(h, p, c)

Spec == Init /\ [][Next]_vars

-----------------------------------------------------------------------------
(* A request or a read task runs, or shows, a code that was sent for its   *)
(* own route or record (or a file that is being rewritten), as README.md:10*)
(* has it: "request on route will launch the predefined python script".    *)
ServesOwnCode ==
  \A h \in Handler : req[h].pc = "idle" /\ req[h].op = "get" =>
                       req[h].code \in sent[req[h].path] \cup {Broken}

(* The script of a route that nobody updates, and every mapper, is there   *)
(* and whole: POST adds the route or record after the file is written, and *)
(* no other handler has its name.                                          *)
UntouchedIsWhole ==
  \A p \in Key : coll[p] \in Name /\ (p \in Path => coll[p] \notin updated) =>
                    files[Dir(p)][coll[p]] \in Code
=============================================================================
