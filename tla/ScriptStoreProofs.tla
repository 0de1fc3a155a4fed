--------------------------- MODULE ScriptStoreProofs ---------------------------
(***************************************************************************)
(* ScriptStore for any number of routes, ESB records, codes and concurrent *)
(* requests: what runs was sent for the route or record it runs for, and a *)
(* script that nobody updates is whole.  Both rest on the names of files,  *)
(* and so on SameSecond = FALSE: no two scripts of a directory are named in*)
(* one second.                                                             *)
(***************************************************************************)
EXTENDS ScriptStore, TLAPS

File(p, s) == files[Dir(p)][s]

\* What a handler has between its steps.
Carries(h) ==
  /\ req[h].pc # "idle" => req[h].path \in Key
  /\ req[h].pc \in {"create", "write"} => /\ req[h].op \in {"post", "put"}
                                          /\ req[h].name \in Name
                                          /\ req[h].code \in sent[req[h].path]
  /\ req[h].pc = "add" => /\ req[h].op = "post"
                          /\ req[h].path \in Path => req[h].name \in Name
  /\ req[h].pc = "read" => req[h].op = "get" /\ req[h].name \in Name
  /\ req[h].op = "put" => req[h].path \in Path /\ req[h].name \in updated
  /\ req[h].op = "post" /\ req[h].name \in Name => req[h].name <= now

Steps == \A h \in Handler : Carries(h)

Answers ==
  \A h \in Handler : req[h].pc = "idle" /\ req[h].op = "get" =>
                       req[h].path \in Key /\ req[h].code \in sent[req[h].path] \cup {Broken}

\* A name belongs to one route or record, and while it is new to one handler.
Owned ==
  /\ \A p, q \in Key :
       Dir(p) = Dir(q) /\ coll[p] \in Name /\ coll[p] = coll[q] => p = q
  /\ \A h \in Handler, p \in Key :
       Dir(req[h].path) = Dir(p) /\ req[h].name \in Name /\ req[h].name = coll[p] =>
         req[h].path = p /\ req[h].op # "post"
  /\ \A g, h \in Handler :
       /\ Dir(req[g].path) = Dir(req[h].path)
       /\ req[g].name \in Name /\ req[g].name = req[h].name
       => req[g].path = req[h].path /\ (g # h => req[g].op # "post")

\* A name in use has a file, with a code of its owner or a broken one.
Filled ==
  /\ \A p \in Key : coll[p] \in Name => File(p, coll[p]) \in sent[p] \cup {Broken}
  /\ \A h \in Handler :
       req[h].name \in Name /\ ~(req[h].op = "post" /\ req[h].pc = "create") =>
         File(req[h].path, req[h].name) \in sent[req[h].path] \cup {Broken}

\* The file is whole before its name is added.
Whole ==
  /\ UntouchedIsWhole
  /\ \A h \in Handler : req[h].pc = "add" /\ req[h].name \in Name =>
                          File(req[h].path, req[h].name) \in Code
  /\ \A h \in Handler : req[h].pc = "write" /\ req[h].op = "post" =>
                          File(req[h].path, req[h].name) = Broken

IInv == TypeOK /\ Steps /\ Answers /\ Owned /\ Filled /\ Whole

Request == [pc : {"idle", "create", "write", "add", "read"},
            op : {"none", "post", "put", "get"},
            path : Key \cup {None},
            code : Code \cup {None, Broken},
            name : Name \cup {None, Empty}]

LEMMA Distinct ==
  /\ None \notin Name /\ Empty \notin Name /\ None # Empty
  /\ Broken \notin Code /\ None \notin Code /\ None # Broken
BY ScriptAssumption DEF Name

\* What the type invariant says of the requests, for the steps below.
LEMMA Requests ==
  ASSUME TypeOK, NEW h \in Handler
  PROVE  /\ req \in [Handler -> Request] /\ req[h] \in Request
         /\ req[h].name \in Name => req[h].pc # "idle"
BY Distinct DEF TypeOK, Request

-----------------------------------------------------------------------------
(* A handler takes a request.  A name it brings along is new, or the name  *)
(* of what the request is about.                                           *)
LEMMA BeginStep ==
  ASSUME IInv, NEW h \in Handler, NEW r \in Request,
         req[h].pc = "idle", req' = [req EXCEPT ![h] = r],
         UNCHANGED <<coll, files, now>>,
         sent' \in [Key -> SUBSET Code], \A p \in Key : sent[p] \subseteq sent'[p],
         updated \subseteq updated', updated' \subseteq Name,
         r.path \in Key, r.name # None,
         \/ /\ r.pc = "create" /\ r.op = "post" /\ r.code \in sent'[r.path] /\ r.name = now
            /\ File(r.path, r.name) = None
            /\ \A g \in Handler : req[g].name = r.name => Dir(req[g].path) # Dir(r.path)
         \/ /\ r.pc = "create" /\ r.op = "put" /\ r.code \in sent'[r.path] /\ r.path \in Path
            /\ r.name = coll[r.path] /\ r.name \in updated'
         \/ r.pc = "read" /\ r.op = "get" /\ r.name = coll[r.path] /\ r.name \in Name
         \/ r.pc = "add" /\ r.op = "post" /\ r.name = Empty /\ r.path \in Pool
  PROVE  IInv'
<1>1. \A g \in Handler : req'[g] = IF g = h THEN r ELSE req[g]
  BY Requests DEF IInv
<1>2. now \in Name
  BY DEF IInv, TypeOK
<1>3. coll[r.path] \in Name \cup {None, Empty} /\ (r.path \in Path => coll[r.path] # Empty)
  BY DEF IInv, TypeOK
<1>4. r.pc # "idle" /\ r.op \in {"post", "put", "get"}
  OBVIOUS
<1>5. TypeOK'
  <2>1. req' \in [Handler -> Request]
    BY Requests DEF IInv
  <2> QED BY <1>1, <1>4, <2>1, Distinct DEF IInv, TypeOK, Request
<1>6. Steps'
  <2> SUFFICES ASSUME NEW g \in Handler PROVE Carries(g)'
    BY DEF Steps
  <2>1. CASE g # h
    BY <1>1, <2>1 DEF IInv, Steps, Carries
  <2>2. CASE g = h
    BY <1>1, <1>2, <1>3, <2>2, Distinct, ScriptAssumption DEF Carries, Name
  <2> QED BY <2>1, <2>2
<1>7. Answers'
  BY <1>1, <1>4 DEF IInv, Answers
<1>8. CASE r.name \notin Name
  <2>1. Owned'
    BY <1>1, <1>8 DEF IInv, Owned
  <2>2. Filled'
    BY <1>1, <1>8, Requests DEF IInv, Filled, File, Steps, Carries
  <2>3. Whole'
    BY <1>1, <1>8, <1>2, <1>3, Distinct DEF IInv, Whole, UntouchedIsWhole, File
  <2> QED BY <1>5, <1>6, <1>7, <2>1, <2>2, <2>3 DEF IInv
<1>9. CASE r.name \in Name /\ r.op # "post"
  <2>1. r.name = coll[r.path] /\ r.pc \in {"create", "read"}
    BY <1>9
  <2>2. Owned'
    BY <1>1, <1>9, <2>1 DEF IInv, Owned
  <2>3. Filled'
    BY <1>1, <1>9, <2>1, Requests DEF IInv, Filled, File, Steps, Carries
  <2>4. Whole'
    BY <1>1, <2>1 DEF IInv, Whole, UntouchedIsWhole, File
  <2> QED BY <1>5, <1>6, <1>7, <2>2, <2>3, <2>4 DEF IInv
<1>10. CASE r.name \in Name /\ r.op = "post"
  <2>1. /\ r.pc = "create" /\ File(r.path, r.name) = None
        /\ \A g \in Handler : req[g].name = r.name => Dir(req[g].path) # Dir(r.path)
    BY <1>10, Distinct
  <2>2. \A p \in Key : Dir(p) = Dir(r.path) => coll[p] # r.name
    BY <1>10, <2>1, Distinct DEF IInv, Filled, File, TypeOK
  <2>3. Owned'
    BY <1>1, <1>10, <2>1, <2>2 DEF IInv, Owned
  <2>4. Filled'
    BY <1>1, <1>10, <2>1, Requests DEF IInv, Filled, File, Steps, Carries
  <2>5. Whole'
    BY <1>1, <2>1 DEF IInv, Whole, UntouchedIsWhole, File
  <2> QED BY <1>5, <1>6, <1>7, <2>3, <2>4, <2>5 DEF IInv
<1> QED BY <1>8, <1>9, <1>10

(* A handler is done, whatever it had to do.                               *)
LEMMA EndStep ==
  ASSUME IInv, NEW h \in Handler, End(h), UNCHANGED <<coll, files, now, sent, updated>>
  PROVE  IInv'
<1>1. NoRequest \in Request /\ NoRequest.pc = "idle" /\ NoRequest.op = "none" /\ NoRequest.name = None
  BY DEF NoRequest, Request
<1> HIDE DEF NoRequest
<1>2. \A g \in Handler : req'[g] = IF g = h THEN NoRequest ELSE req[g]
  BY Requests DEF IInv, End
<1>3. TypeOK'
  <2>1. req' \in [Handler -> Request]
    BY <1>1, Requests DEF IInv, End
  <2> QED BY <1>1, <1>2, <2>1 DEF IInv, TypeOK, Request
<1>4. Steps' /\ Answers'
  BY <1>1, <1>2, Distinct DEF IInv, Steps, Carries, Answers
<1>5. Owned' /\ Filled' /\ Whole'
  BY <1>1, <1>2, Distinct DEF IInv, Owned, Filled, Whole, UntouchedIsWhole, File
<1> QED BY <1>3, <1>4, <1>5 DEF IInv

-----------------------------------------------------------------------------
(* The steps of handlers *)
LEMMA StoreStep ==
  ASSUME IInv, ~SameSecond, NEW h \in Handler, NEW p \in Key, NEW c \in Code, Store(h, p, c)
  PROVE  IInv'
<1>1. PICK s \in Name : GenUniqueFilename(Dir(p), s) /\ Begin(h, "create", "post", p, c, s)
  BY DEF Store
<1> DEFINE r == [pc |-> "create", op |-> "post", path |-> p, code |-> c, name |-> s]
<1>2. r \in Request /\ r.path = p /\ r.pc = "create" /\ r.op = "post" /\ r.code = c /\ r.name = s
  BY DEF Request
<1>3. req[h].pc = "idle" /\ req' = [req EXCEPT ![h] = r]
  BY <1>1 DEF Begin
<1> HIDE DEF r
<1>4. /\ s = now /\ File(p, s) = None
      /\ \A g \in Handler : req[g].name = s => Dir(req[g].path) # Dir(p)
  BY <1>1 DEF GenUniqueFilename, File
<1>5. /\ sent' \in [Key -> SUBSET Code] /\ c \in sent'[p] /\ \A q \in Key : sent[q] \subseteq sent'[q]
      /\ UNCHANGED <<coll, files, now, updated>> /\ updated \subseteq Name
  BY DEF Store, Sends, IInv, TypeOK
<1> QED BY <1>2, <1>3, <1>4, <1>5, Distinct, BeginStep

LEMMA PostRecordStep ==
  ASSUME IInv, ~SameSecond, NEW h \in Handler, NEW p \in Key, PostRecord(h, p)
  PROVE  IInv'
<1>1. CASE \E c \in Code : Store(h, p, c)
  BY <1>1, StoreStep
<1>2. CASE Begin(h, "add", "post", p, None, Empty) /\ UNCHANGED <<coll, files, now, sent, updated>>
  <2> DEFINE r == [pc |-> "add", op |-> "post", path |-> p, code |-> None, name |-> Empty]
  <2>1. r \in Request /\ r.path = p /\ r.pc = "add" /\ r.op = "post" /\ r.name = Empty
    BY DEF Request
  <2>2. req[h].pc = "idle" /\ req' = [req EXCEPT ![h] = r]
    BY <1>2 DEF Begin
  <2> HIDE DEF r
  <2>3. sent \in [Key -> SUBSET Code] /\ updated \subseteq Name /\ p \in Pool
    BY DEF IInv, TypeOK, PostRecord
  <2> QED BY <1>2, <2>1, <2>2, <2>3, Distinct, BeginStep
<1> QED BY <1>1, <1>2 DEF PostRecord

LEMMA PutStep ==
  ASSUME IInv, NEW h \in Handler, NEW p \in Key, NEW c \in Code, Put(h, p, c)
  PROVE  IInv'
<1> DEFINE r == [pc |-> "create", op |-> "put", path |-> p, code |-> c, name |-> coll[p]]
<1>1. p \in Path /\ coll[p] \in Name
  BY Distinct DEF Put, IInv, TypeOK
<1>2. r \in Request /\ r.path = p /\ r.pc = "create" /\ r.op = "put" /\ r.code = c /\ r.name = coll[p]
  BY <1>1 DEF Request
<1>3. req[h].pc = "idle" /\ req' = [req EXCEPT ![h] = r]
  BY DEF Put, Begin
<1> HIDE DEF r
<1>4. /\ sent' \in [Key -> SUBSET Code] /\ c \in sent'[p] /\ \A q \in Key : sent[q] \subseteq sent'[q]
      /\ UNCHANGED <<coll, files, now>>
      /\ updated \subseteq updated' /\ updated' \subseteq Name /\ coll[p] \in updated'
  BY <1>1 DEF Put, Sends, IInv, TypeOK
<1> QED BY <1>1, <1>2, <1>3, <1>4, Distinct, BeginStep

LEMMA ReadScriptStep ==
  ASSUME IInv, NEW h \in Handler, NEW p \in Key, coll[p] # Empty, ReadScript(h, p)
  PROVE  IInv'
<1> DEFINE r == [pc |-> "read", op |-> "get", path |-> p, code |-> None, name |-> coll[p]]
<1>1. coll[p] \in Name
  BY Distinct DEF ReadScript, IInv, TypeOK
<1>2. r \in Request /\ r.path = p /\ r.pc = "read" /\ r.op = "get" /\ r.name = coll[p]
  BY <1>1 DEF Request
<1>3. req[h].pc = "idle" /\ req' = [req EXCEPT ![h] = r]
  BY DEF ReadScript, Begin
<1> HIDE DEF r
<1>4. /\ sent \in [Key -> SUBSET Code] /\ updated \subseteq Name
      /\ UNCHANGED <<coll, files, now, sent, updated>>
  BY DEF ReadScript, IInv, TypeOK
<1> QED BY <1>1, <1>2, <1>3, <1>4, Distinct, BeginStep

(* A handler writes its file: no route or record that may be run loses a   *)
(* whole file by it, but for a PUT's own.                                  *)
LEMMA FileStep ==
  ASSUME IInv, NEW h \in Handler, req[h].pc \in {"create", "write"},
         NEW x \in sent[req[h].path] \cup {Broken},
         files' = [files EXCEPT ![Dir(req[h].path)][req[h].name] = x],
         UNCHANGED <<coll, now, sent, updated>>,
         NEW pc, pc \in {"idle", "write", "add"},
         pc = "write" => x = Broken /\ req[h].pc = "create",
         pc = "add" => x \in Code /\ req[h].op = "post",
         IF pc = "idle" THEN End(h) ELSE req' = [req EXCEPT ![h] = [req[h] EXCEPT !.pc = pc]]
  PROVE  IInv'
<1> DEFINE p == req[h].path
           s == req[h].name
           same == [req[h] EXCEPT !.pc = pc]
<1>1. p \in Key /\ s \in Name /\ req[h].op \in {"post", "put"}
  BY DEF IInv, Steps, Carries
<1>2. \A q \in Key : sent[q] \subseteq Code
  BY DEF IInv, TypeOK
<1>3. s <= now
  <2>1. CASE req[h].op = "post"
    BY <1>1, <2>1 DEF IInv, Steps, Carries
  <2>2. CASE req[h].op = "put"
    <3>1. File(p, s) # None
      BY <1>1, <1>2, <2>2, Distinct DEF IInv, Filled
    <3> QED BY <1>1, <3>1 DEF IInv, TypeOK, File, Dir, Name
  <2> QED BY <1>1, <2>1, <2>2
<1>4. Dir(p) \in {"dyn_handle", "mapper"} /\ x \in Code \cup {Broken}
  BY <1>1, <1>2 DEF Dir
<1>5. /\ files' \in [{"dyn_handle", "mapper"} -> [Name -> Code \cup {None, Broken}]]
      /\ \A d \in DOMAIN files', t \in Name : t > now => files'[d][t] = None
      /\ \A q \in Key, t \in Name :
           File(q, t)' = IF Dir(q) = Dir(p) /\ t = s THEN x ELSE File(q, t)
  <2>1. files \in [{"dyn_handle", "mapper"} -> [Name -> Code \cup {None, Broken}]]
    BY DEF IInv, TypeOK
  <2>2. \A d \in {"dyn_handle", "mapper"}, t \in Name :
          files'[d][t] = IF d = Dir(p) /\ t = s THEN x ELSE files[d][t]
    BY <1>1, <1>4, <2>1
  <2>3. files' \in [{"dyn_handle", "mapper"} -> [Name -> Code \cup {None, Broken}]]
    BY <1>1, <1>4, <2>1
  <2>4. \A t \in Name : t > now => t # s
    BY <1>1, <1>3 DEF Name, IInv, TypeOK
  <2>5. \A q \in Key : Dir(q) \in {"dyn_handle", "mapper"}
    BY DEF Dir
  <2> QED BY <2>1, <2>2, <2>3, <2>4, <2>5 DEF IInv, TypeOK, File
<1> DEFINE r == req'[h]
<1>6. /\ req' \in [Handler -> Request]
      /\ \A g \in Handler : g # h => req'[g] = req[g]
      /\ \/ r.pc = "idle" /\ r.op = "none" /\ r.path = None /\ r.name = None
         \/ r.pc = pc /\ r.op = req[h].op /\ r.path = p /\ r.name = s /\ r.code = req[h].code
            /\ pc # "idle"
  <2>1. req \in [Handler -> Request] /\ req[h] \in Request
    BY Requests DEF IInv
  <2>2. CASE pc = "idle"
    <3>1. NoRequest \in Request /\ NoRequest.pc = "idle" /\ NoRequest.op = "none"
          /\ NoRequest.path = None /\ NoRequest.name = None
      BY DEF NoRequest, Request
    <3> QED BY <2>1, <2>2, <3>1 DEF End
  <2>3. CASE pc # "idle"
    <3>1. same \in Request /\ same.pc = pc /\ same.op = req[h].op /\ same.path = p
          /\ same.name = s /\ same.code = req[h].code
      BY <2>1 DEF Request
    <3> HIDE DEF same
    <3>2. req' = [req EXCEPT ![h] = same]
      BY <2>3 DEF same
    <3> QED BY <2>1, <2>3, <3>1, <3>2
  <2> QED BY <2>2, <2>3
<1> HIDE DEF r
<1>7. r.name \in Name => r.pc \in {"write", "add"} /\ r.path = p /\ r.name = s /\ r.op = req[h].op
  BY <1>6, Distinct
<1>8. TypeOK'
  BY <1>1, <1>5, <1>6, Distinct DEF IInv, TypeOK, Request, r
<1>9. Steps' /\ Answers'
  <2> SUFFICES ASSUME NEW g \in Handler
               PROVE  /\ Carries(g)'
                      /\ (req[g].pc = "idle" /\ req[g].op = "get" =>
                            req[g].path \in Key /\ req[g].code \in sent[req[g].path] \cup {Broken})'
    BY DEF Steps, Answers
  <2>1. CASE g # h
    BY <1>6, <2>1 DEF IInv, Steps, Carries, Answers
  <2>2. CASE g = h
    BY <1>1, <1>6, <2>2, Distinct DEF IInv, Steps, Carries, r
  <2> QED BY <2>1, <2>2
<1>10. Owned'
  BY <1>1, <1>6, <1>7 DEF IInv, Owned, r
<1>11. \A g \in Handler, t \in Name :
         g # h /\ req[g].name = t /\ Dir(req[g].path) = Dir(p) /\ t = s =>
           req[g].path = p /\ req[h].op = "put" /\ req[g].op # "post"
  BY <1>1 DEF IInv, Owned
<1>12. \A q \in Key : Dir(q) = Dir(p) /\ coll[q] = s => q = p /\ req[h].op = "put"
  BY <1>1 DEF IInv, Owned
<1>13. Filled'
  <2>1. \A q \in Key : coll[q] \in Name => (File(q, coll[q]) \in sent[q] \cup {Broken})'
    BY <1>5, <1>12 DEF IInv, Filled
  <2>2. ASSUME NEW g \in Handler, req'[g].name \in Name, ~(req'[g].op = "post" /\ req'[g].pc = "create")
        PROVE  (File(req[g].path, req[g].name) \in sent[req[g].path] \cup {Broken})'
    <3>1. CASE g # h
      <4>1. req'[g] = req[g] /\ req[g].path \in Key
        BY <1>6, <2>2, <3>1, Requests DEF IInv, Steps, Carries
      <4>2. File(req[g].path, req[g].name) \in sent[req[g].path] \cup {Broken}
        BY <2>2, <4>1 DEF IInv, Filled
      <4> QED BY <1>5, <1>11, <2>2, <3>1, <4>1, <4>2 DEF File
    <3>2. CASE g = h
      BY <1>1, <1>5, <1>7, <2>2, <3>2 DEF r, File
    <3> QED BY <3>1, <3>2
  <2> QED BY <2>1, <2>2 DEF Filled
<1>14. Whole'
  <2>1. UntouchedIsWhole'
    <3> SUFFICES ASSUME NEW q \in Key, coll[q] \in Name, q \in Path => coll[q] \notin updated
                 PROVE  File(q, coll[q])' \in Code
      BY DEF UntouchedIsWhole, File
    <3>1. File(q, coll[q]) \in Code
      BY DEF IInv, Whole, UntouchedIsWhole, File
    <3>2. ~(Dir(q) = Dir(p) /\ coll[q] = s)
      BY <1>12 DEF IInv, Steps, Carries
    <3> QED BY <1>5, <3>1, <3>2
  <2>2. ASSUME NEW g \in Handler, g # h, req[g].name \in Name, req[g].pc \in {"add", "write"},
               req[g].op = "post"
        PROVE  File(req[g].path, req[g].name)' = File(req[g].path, req[g].name)
    <3>1. req[g].path \in Key
      BY <2>2 DEF IInv, Steps, Carries
    <3> QED BY <1>5, <1>6, <1>11, <2>2, <3>1 DEF File
  <2>3. ASSUME NEW g \in Handler
        PROVE  /\ (req[g].pc = "add" /\ req[g].name \in Name => File(req[g].path, req[g].name) \in Code)'
               /\ (req[g].pc = "write" /\ req[g].op = "post" =>
                     File(req[g].path, req[g].name) = Broken)'
    <3>1. CASE g # h
      <4>1. req'[g] = req[g]
        BY <1>6, <3>1
      <4>2. /\ req[g].pc = "add" => req[g].op = "post"
            /\ req[g].pc = "write" => req[g].name \in Name
        BY DEF IInv, Steps, Carries
      <4> QED BY <2>2, <3>1, <4>1, <4>2 DEF IInv, Whole, File
    <3>2. CASE g = h
      BY <1>1, <1>5, <1>6, <1>7, <3>2 DEF r, File
    <3> QED BY <3>1, <3>2
  <2> QED BY <2>1, <2>3 DEF Whole
<1> QED BY <1>8, <1>9, <1>10, <1>13, <1>14 DEF IInv

LEMMA WriteStep ==
  ASSUME IInv, NEW h \in Handler, CreateFile(h) \/ WriteFile(h)
  PROVE  IInv'
<1>1. CASE CreateFile(h)
  BY <1>1, FileStep DEF CreateFile
<1>2. CASE WriteFile(h)
  <2> DEFINE p == req[h].path
             s == req[h].name
             c == req[h].code
             Writes(x) == files' = [files EXCEPT ![Dir(p)][s] = x]
  <2>1. /\ req[h].pc = "write" /\ UNCHANGED <<coll, now, sent, updated>>
        /\ p \in Key /\ c \in sent[p] /\ sent[p] \subseteq Code /\ req[h].op \in {"post", "put"}
    BY <1>2 DEF WriteFile, IInv, Steps, Carries, TypeOK
  <2>2. CASE End(h) /\ \E x \in {c, Broken} : Writes(x)
    BY <2>1, <2>2, FileStep
  <2>3. CASE req[h].op = "post" /\ Writes(c) /\ req' = [req EXCEPT ![h].pc = "add"]
    BY <2>1, <2>3, FileStep
  <2>4. ~(req[h].op = "post" /\ files[Dir(p)][s] \in Code)
    BY <2>1, Distinct DEF IInv, Whole, File
  <2> QED BY <1>2, <2>2, <2>3, <2>4 DEF WriteFile
<1> QED BY <1>1, <1>2

(* The name of a whole file is added, or nothing.                          *)
LEMMA AddStep ==
  ASSUME IInv, NEW h \in Handler, AddEntry(h)
  PROVE  IInv'
<1> DEFINE p == req[h].path
           s == req[h].name
<1>1. /\ req[h].pc = "add" /\ End(h) /\ UNCHANGED <<files, now, sent, updated>>
      /\ p \in Key /\ req[h].op = "post" /\ s \in Name \cup {None, Empty}
      /\ p \in Path => s \in Name
  BY DEF AddEntry, IInv, Steps, Carries, TypeOK
<1>2. CASE UNCHANGED coll
  BY <1>1, <1>2, EndStep
<1>3. CASE coll[p] = None /\ coll' = [coll EXCEPT ![p] = s]
  <2>1. \A q \in Key : coll'[q] = IF q = p THEN s ELSE coll[q]
    BY <1>1, <1>3 DEF IInv, TypeOK
  <2>2. NoRequest \in Request /\ NoRequest.pc = "idle" /\ NoRequest.op = "none" /\ NoRequest.name = None
    BY DEF NoRequest, Request
  <2> HIDE DEF NoRequest
  <2>3. req' \in [Handler -> Request] /\ \A g \in Handler : req'[g] = IF g = h THEN NoRequest ELSE req[g]
    BY <1>1, <2>2, Requests DEF IInv, End
  <2>4. s \in Name => /\ \A q \in Key : Dir(q) = Dir(p) => coll[q] # s
                      /\ \A g \in Handler : g # h /\ Dir(req[g].path) = Dir(p) => req[g].name # s
                      /\ File(p, s) \in Code /\ File(p, s) \in sent[p] \cup {Broken}
    BY <1>1 DEF IInv, Owned, Whole, Filled
  <2>5. TypeOK'
    <3>1. coll' \in [Key -> Name \cup {None, Empty}]
      BY <1>1, <1>3 DEF IInv, TypeOK
    <3>2. \A q \in Path : coll'[q] # Empty
      BY <1>1, <2>1, Distinct DEF IInv, TypeOK, Key
    <3> QED BY <1>1, <2>2, <2>3, <3>1, <3>2 DEF IInv, TypeOK, Request
  <2>6. Steps' /\ Answers'
    BY <1>1, <2>2, <2>3, Distinct DEF IInv, Steps, Carries, Answers
  <2>7. Owned'
    BY <1>1, <2>1, <2>2, <2>3, <2>4, Distinct DEF IInv, Owned
  <2>8. Filled'
    BY <1>1, <2>1, <2>2, <2>3, <2>4, Distinct DEF IInv, Filled, File
  <2>9. Whole'
    BY <1>1, <2>1, <2>2, <2>3, <2>4, Distinct DEF IInv, Whole, UntouchedIsWhole, File
  <2> QED BY <2>5, <2>6, <2>7, <2>8, <2>9 DEF IInv
<1> QED BY <1>2, <1>3 DEF AddEntry

LEMMA ReadStep ==
  ASSUME IInv, NEW h \in Handler, ReadFile(h)
  PROVE  IInv'
<1> DEFINE p == req[h].path
           code == files[Dir(p)][req[h].name]
           r == [NoRequest EXCEPT !.op = "get", !.path = p, !.code = code]
<1>1. /\ req[h].pc = "read" /\ p \in Key /\ req[h].op = "get" /\ req[h].name \in Name
      /\ UNCHANGED <<coll, files, now, sent, updated>>
  BY DEF ReadFile, IInv, Steps, Carries
<1>2. code \in sent[p] \cup {Broken} /\ sent[p] \subseteq Code
  BY <1>1 DEF IInv, Filled, File, TypeOK
<1>3. r \in Request /\ r.pc = "idle" /\ r.op = "get" /\ r.path = p /\ r.code = code /\ r.name = None
  BY <1>1, <1>2 DEF NoRequest, Request
<1>4. req' = [req EXCEPT ![h] = r]
  BY DEF ReadFile
<1> HIDE DEF r, code
<1>5. req' \in [Handler -> Request] /\ \A g \in Handler : req'[g] = IF g = h THEN r ELSE req[g]
  BY <1>3, <1>4, Requests DEF IInv
<1>6. TypeOK'
  BY <1>1, <1>3, <1>5 DEF IInv, TypeOK, Request
<1>7. Steps' /\ Answers'
  BY <1>1, <1>2, <1>3, <1>5, Distinct DEF IInv, Steps, Carries, Answers
<1>8. Owned' /\ Filled' /\ Whole'
  BY <1>1, <1>3, <1>5, Distinct DEF IInv, Owned, Filled, Whole, UntouchedIsWhole, File
<1> QED BY <1>6, <1>7, <1>8 DEF IInv

-----------------------------------------------------------------------------
LEMMA DeleteStep ==
  ASSUME IInv, NEW p \in Key, Delete(p)
  PROVE  IInv'
<1>1. /\ \A q \in Key : coll'[q] = IF q = p THEN None ELSE coll[q]
      /\ UNCHANGED <<files, now, req, sent, updated>>
  BY DEF Delete, IInv, TypeOK
<1>2. TypeOK'
  <2>1. coll' \in [Key -> Name \cup {None, Empty}]
    BY DEF Delete, IInv, TypeOK
  <2> QED BY <1>1, <2>1, Distinct DEF IInv, TypeOK, Key
<1>3. Steps' /\ Answers'
  BY <1>1 DEF IInv, Steps, Carries, Answers
<1>4. Owned' /\ Filled' /\ Whole'
  BY <1>1, Distinct DEF IInv, Owned, Filled, Whole, UntouchedIsWhole, File
<1> QED BY <1>2, <1>3, <1>4 DEF IInv

LEMMA TickStep ==
  ASSUME IInv, Tick \/ UNCHANGED vars
  PROVE  IInv'
<1>1. UNCHANGED <<coll, files, req, sent, updated>> /\ now' \in Name /\ now <= now'
  BY ScriptAssumption DEF Tick, vars, IInv, TypeOK, Name
<1>2. TypeOK'
  BY <1>1 DEF IInv, TypeOK, Name
<1>3. Steps' /\ Answers' /\ Owned' /\ Filled' /\ Whole'
  BY <1>1 DEF IInv, TypeOK, Steps, Carries, Answers, Owned, Filled, Whole, UntouchedIsWhole, File, Name
<1> QED BY <1>2, <1>3 DEF IInv

LEMMA InitEstablishes == Init => IInv
<1> SUFFICES ASSUME Init PROVE IInv
  OBVIOUS
<1> USE Distinct
<1>1. \A h \in Handler : req[h].pc = "idle" /\ req[h].op = "none" /\ req[h].name = None
  BY DEF Init, NoRequest
<1>2. TypeOK
  <2>1. req \in [Handler -> Request]
    BY DEF Init, NoRequest, Request
  <2> QED BY <1>1, <2>1, ScriptAssumption DEF Init, TypeOK, Request, Name, Key
<1>3. Steps /\ Answers
  BY <1>1 DEF Steps, Carries, Answers
<1>4. Owned /\ Filled /\ Whole
  BY <1>1 DEF Init, Owned, Filled, Whole, UntouchedIsWhole
<1> QED BY <1>2, <1>3, <1>4 DEF IInv

LEMMA NextPreserves ==
  ASSUME ~SameSecond, IInv, [Next]_vars
  PROVE  IInv'
<1>1. CASE Tick \/ UNCHANGED vars
  BY <1>1, TickStep
<1>2. ASSUME NEW p \in Key, DeleteRoute(p) \/ DeleteRecord(p) PROVE IInv'
  BY <1>2, DeleteStep DEF DeleteRoute, DeleteRecord
<1>3. ASSUME NEW h \in Handler,
             \/ CreateFile(h) \/ WriteFile(h) \/ AddDynamicEndpoint(h) \/ AddEsbRecord(h)
             \/ ReadFile(h)
      PROVE  IInv'
  BY <1>3, WriteStep, AddStep, ReadStep DEF AddDynamicEndpoint, AddEsbRecord
<1>4. ASSUME NEW h \in Handler, NEW p \in Key, NEW c \in Code, PostRoute(h, p, c) \/ Put(h, p, c)
      PROVE  IInv'
  BY <1>4, StoreStep, PutStep DEF PostRoute
<1>5. ASSUME NEW h \in Handler, NEW p \in Key, GetRoute(h, p) \/ GetRecord(h, p) \/ PostRecord(h, p)
      PROVE  IInv'
  <2>1. p \in Path => coll[p] # Empty
    BY DEF IInv, TypeOK
  <2> QED BY <1>5, <2>1, ReadScriptStep, PostRecordStep DEF GetRoute, GetRecord
<1> QED BY <1>1, <1>2, <1>3, <1>4, <1>5 DEF Next

LEMMA InvariantHolds ==
  ASSUME ~SameSecond
  PROVE  Spec => []IInv
BY InitEstablishes, NextPreserves, PTL DEF Spec

(* A handler's name is that of its request, and a file that is there was   *)
(* named in the past.                                                      *)
THEOREM TypeCorrect ==
  ASSUME ~SameSecond
  PROVE  Spec => []TypeOK
BY InvariantHolds, PTL DEF IInv

(* However POST, PUT, DELETE and requests overlap, what runs for a route or*)
(* a record was sent for it, or is a file that is being rewritten.         *)
THEOREM OwnCode ==
  ASSUME ~SameSecond
  PROVE  Spec => []ServesOwnCode
<1>1. IInv => ServesOwnCode
  BY DEF IInv, Answers, ServesOwnCode
<1> QED BY <1>1, InvariantHolds, PTL

(* The script of a route that no PUT was for is whole whenever it can run, *)
(* and so is every mapper.                                                 *)
THEOREM UntouchedAreWhole ==
  ASSUME ~SameSecond
  PROVE  Spec => []UntouchedIsWhole
BY InvariantHolds, PTL DEF IInv, Whole
=============================================================================
