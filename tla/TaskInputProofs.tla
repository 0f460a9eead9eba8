---------------------------- MODULE TaskInputProofs ----------------------------
(* Proofs about TaskInput, for every value of its constants. *)
EXTENDS TaskInput, FiniteSetTheorems, TLAPS

-----------------------------------------------------------------------------
(* The inductive invariant.                                                *)

FileRow == [version : Nat, by : Uploaders \cup {0}]
UpRow   == [pc : {"new", "begin", "active", "write", "done"}, kind : UploadKind, task : InTasks,
            base : Nat, st : TaskStatus \cup {NoStatus}, ver : Nat, next : Nat,
            answer : {"none", "ok", "conflict"}, alone : BOOLEAN]

(* What uploads read of a task's row, and all else they are made of. *)
UploadsTyped ==
    /\ \A t \in InTasks : row[t].status \in TaskStatus \cup {NoStatus} /\ row[t].version \in Nat
    /\ input \in [UploadKind -> [InTasks -> FileRow]]
    /\ ups \in [Uploaders -> UpRow]

FileOf(u)     == input[ups[u].kind][ups[u].task]
SameFile(u, v) == ups[u].kind = ups[v].kind /\ ups[u].task = ups[v].task

AloneIsOnly ==
    \A u, v \in Uploaders :
        Uploading(u) /\ ups[u].alone /\ Uploading(v) /\ SameFile(u, v) => u = v

(* Nobody else has written since an upload that is alone began. *)
BaseStands ==
    \A u \in Uploaders :
        Uploading(u) /\ ups[u].alone =>
            /\ FileOf(u).version = ups[u].base
            /\ ups[u].pc = "write" => ups[u].next = ups[u].base + 1

Mine(u) == Accepted(u) /\ ups[u].alone

(* An upload that was accepted alone is not undone by those under way. *)
LaterGoOn ==
    \A u \in Uploaders : Mine(u) =>
        /\ FileOf(u).version > ups[u].base
        /\ \A v \in Uploaders : Uploading(v) /\ SameFile(u, v) =>
              /\ ups[v].base > ups[u].base
              /\ ups[v].pc = "write" => ups[v].next > ups[u].base

(* An upload fits its task, and is there when it was accepted. *)
UploadsFit ==
    \A u \in Uploaders :
        /\ Uploading(u) \/ Accepted(u) => (ups[u].kind = "mask" => InMedia[ups[u].task] = "IMAGE")
        /\ ups[u].pc = "write" => ups[u].next > 0
        /\ Accepted(u) => FileOf(u) # NoFile

PagesSee ==
    \A g \in Pages : page[g].after => Has(page[g].task) /\ ~page[g].waiting

-----------------------------------------------------------------------------
(* The steps of the uploads.                                               *)

UploadInv == AloneIsOnly /\ BaseStands /\ LaterGoOn /\ NoSilentOverwrite

(* A step that is none of an upload. *)
LEMMA UploadsRest ==
    ASSUME UploadInv, UNCHANGED <<input, ups>>
    PROVE  UploadInv'
BY DEF UploadInv, AloneIsOnly, BaseStands, LaterGoOn, NoSilentOverwrite, Uploading, FileOf,
       SameFile, Mine, Accepted

(* A new upload sees what was accepted before. *)
LEMMA BeginKeeps ==
    ASSUME UploadsTyped, UploadInv, NEW u \in Uploaders, NEW kind \in UploadKind, NEW t \in InTasks,
           NEW declared, NEW base \in 0..input[kind][t].version, BeginUpload(u, kind, t, base, declared)
    PROVE  /\ UploadInv'
           /\ ups' \in [Uploaders -> UpRow]
           /\ ups'[u].kind = kind /\ ups'[u].task = t /\ ups'[u].pc \in {"begin", "done"}
           /\ ups'[u].answer = IF ups'[u].pc = "begin" THEN "none" ELSE "conflict"
           /\ ups'[u].answer # "conflict" => AcceptedFor(kind, InMedia[t], declared)
           /\ \A v \in Uploaders : v # u =>
                 /\ ups'[v].pc = ups[v].pc /\ ups'[v].kind = ups[v].kind /\ ups'[v].task = ups[v].task
                 /\ ups'[v].answer = ups[v].answer /\ ups'[v].next = ups[v].next
           /\ UNCHANGED input
<1> DEFINE ok  == AcceptedFor(kind, InMedia[t], declared) /\ Current(kind, t, base)
           Riv == Rivals(u, kind, t)
           new == [NewUp EXCEPT !.pc = IF ok THEN "begin" ELSE "done", !.kind = kind, !.task = t,
                      !.base = IF ok THEN base ELSE 0, !.answer = IF ok THEN "none" ELSE "conflict",
                      !.alone = Riv = {}]
<1>1. /\ ups' = [v \in Uploaders |-> IF v = u THEN new
                                     ELSE [ups[v] EXCEPT !.alone = @ /\ (ok => v \notin Riv)]]
      /\ ups[u].pc = "new" /\ UNCHANGED input
  BY DEF BeginUpload
<1>2. ok => base = input[kind][t].version
  BY DEF Current, NoFile, UploadsTyped, FileRow
<1>3. Riv = {} <=> \A v \in Uploaders : v # u /\ Uploading(v) /\ ups[v].kind = kind => ups[v].task # t
  BY DEF Rivals
<1>4. \A v \in Uploaders : v # u => (v \in Riv <=> Uploading(v) /\ ups[v].kind = kind /\ ups[v].task = t)
  BY DEF Rivals
<1>5. ok => AcceptedFor(kind, InMedia[t], declared)
  OBVIOUS
<1>6. ok \in BOOLEAN /\ (Riv = {}) \in BOOLEAN
  BY DEF AcceptedFor, Current
<1> HIDE DEF ok, Riv
<1>7. NewUp \in UpRow
  BY InputAssumption DEF NewUp, UpRow, UploadKind, UploadProgress
<1>8. /\ new \in UpRow /\ new.kind = kind /\ new.task = t /\ new.pc = (IF ok THEN "begin" ELSE "done")
      /\ new.base = (IF ok THEN base ELSE 0) /\ new.answer = (IF ok THEN "none" ELSE "conflict")
      /\ new.alone <=> Riv = {}
  <2> DEFINE pc1 == IF ok THEN "begin" ELSE "done"
             b   == IF ok THEN base ELSE 0
             a   == IF ok THEN "none" ELSE "conflict"
             al  == Riv = {}
  <2>1. pc1 \in {"begin", "done"} /\ b \in Nat /\ a \in {"none", "conflict"} /\ al \in BOOLEAN
    BY <1>6 DEF UploadsTyped, FileRow
  <2>2. new = [NewUp EXCEPT !.pc = pc1, !.kind = kind, !.task = t, !.base = b, !.answer = a, !.alone = al]
    BY Zenon
  <2> HIDE DEF pc1, b, a, al, new
  <2>3. new \in UpRow /\ new.kind = kind /\ new.task = t /\ new.pc = pc1 /\ new.base = b
        /\ new.answer = a /\ new.alone = al
    BY <1>7, <2>1, <2>2 DEF UpRow
  <2> QED
    BY <2>3 DEF pc1, b, a, al
<1> HIDE DEF new
<1>9. ASSUME NEW v \in Uploaders, v # u
      PROVE  /\ ups'[v] \in UpRow
             /\ ups'[v].pc = ups[v].pc /\ ups'[v].kind = ups[v].kind /\ ups'[v].task = ups[v].task
             /\ ups'[v].answer = ups[v].answer /\ ups'[v].next = ups[v].next
             /\ ups'[v].base = ups[v].base
             /\ ups'[v].alone <=> ups[v].alone /\ (ok => v \notin Riv)
  <2>1. ups[v] \in UpRow /\ ups'[v] = [ups[v] EXCEPT !.alone = @ /\ (ok => v \notin Riv)]
    BY <1>1, <1>9 DEF UploadsTyped
  <2> QED
    BY <1>6, <2>1 DEF UpRow
<1>10. ups' \in [Uploaders -> UpRow] /\ ups'[u] = new
  <2>1. ups' = [v \in Uploaders |-> ups'[v]] /\ ups'[u] = new
    BY <1>1
  <2> QED
    BY <1>8, <1>9, <2>1
<1>11. \A v \in Uploaders : v # u => (Uploading(v)' <=> Uploading(v)) /\ (Mine(v)' => Mine(v))
  BY <1>9 DEF Uploading, Mine, Accepted
<1>12. (Uploading(u)' <=> ok) /\ ~Mine(u)' /\ ~Uploading(u)
  BY <1>1, <1>8, <1>10 DEF Uploading, Mine, Accepted
<1>13. AloneIsOnly'
  <2> SUFFICES ASSUME NEW v \in Uploaders, NEW w \in Uploaders, v # w,
                      (Uploading(v) /\ ups[v].alone /\ Uploading(w) /\ SameFile(v, w))'
               PROVE  FALSE
    BY Zenon DEF AloneIsOnly
  <2>1. CASE v = u
    BY <1>3, <1>8, <1>9, <1>10, <1>11, <2>1 DEF SameFile
  <2>2. CASE w = u
    BY <1>4, <1>8, <1>9, <1>10, <1>11, <1>12, <2>2 DEF SameFile
  <2>3. CASE v # u /\ w # u
    BY <1>9, <1>11, <2>3 DEF UploadInv, AloneIsOnly, SameFile
  <2> QED
    BY <2>1, <2>2, <2>3
<1>14. BaseStands'
  <2> SUFFICES ASSUME NEW v \in Uploaders, (Uploading(v) /\ ups[v].alone)'
               PROVE  /\ FileOf(v)'.version = ups'[v].base
                      /\ ups'[v].pc = "write" => ups'[v].next = ups'[v].base + 1
    BY DEF BaseStands
  <2>1. CASE v = u
    BY <1>1, <1>2, <1>8, <1>10, <1>12, <2>1 DEF FileOf
  <2>2. CASE v # u
    <3>1. Uploading(v) /\ ups[v].alone
      BY <1>9, <1>11, <2>2
    <3>2. FileOf(v)' = FileOf(v) /\ ups'[v].base = ups[v].base /\ ups'[v].pc = ups[v].pc
          /\ ups'[v].next = ups[v].next
      BY <1>1, <1>9, <2>2 DEF FileOf
    <3> QED
      BY <3>1, <3>2, Zenon DEF UploadInv, BaseStands
  <2> QED
    BY <2>1, <2>2
<1>15. LaterGoOn'
  BY <1>1, <1>2, <1>8, <1>9, <1>10, <1>11, <1>12 DEF UploadInv, LaterGoOn, FileOf, SameFile
<1>16. NoSilentOverwrite'
  BY <1>9, <1>11, <1>12 DEF UploadInv, NoSilentOverwrite, Mine
<1> QED
  BY <1>1, <1>5, <1>8, <1>9, <1>10, <1>13, <1>14, <1>15, <1>16 DEF UploadInv

(* What an upload under way reads. *)
LEMMA ReadKeeps ==
    ASSUME UploadsTyped, UploadInv, NEW u \in Uploaders, ReadLatestTask(u) \/ ReadActive(u)
    PROVE  /\ UploadInv'
           /\ ups' \in [Uploaders -> UpRow]
           /\ \A v \in Uploaders :
                 /\ ups'[v].kind = ups[v].kind /\ ups'[v].task = ups[v].task
                 /\ ups'[v].answer = ups[v].answer
                 /\ ups'[v].pc = ups[v].pc \/ (ups[v].pc \in {"begin", "active"} /\ ups'[v].pc \in {"active", "write"})
                 /\ ups'[v].pc = "write" => ups'[v].next > 0 \/ (ups'[v].next = ups[v].next /\ ups[v].pc = "write")
           /\ UNCHANGED <<input, row, rows, events, page>>
<1> DEFINE c == ups[u]
<1>1. UNCHANGED <<input, row, rows, events, page>>
  BY DEF ReadLatestTask, ReadActive
<1>2. c \in UpRow /\ ups \in [Uploaders -> UpRow] /\ FileOf(u) \in FileRow /\ row[c.task].version \in Nat
      /\ row[c.task].status \in TaskStatus \cup {NoStatus}
  BY DEF UploadsTyped, FileOf, UpRow
<1>3. /\ ups'[u] \in UpRow /\ ups'[u].kind = c.kind /\ ups'[u].task = c.task /\ ups'[u].base = c.base
      /\ ups'[u].alone = c.alone /\ ups'[u].answer = c.answer
      /\ c.pc \in {"begin", "active"} /\ ups'[u].pc \in {"active", "write"}
      /\ ups'[u].pc = "write" =>
            ups'[u].next = (IF FileOf(u) = NoFile THEN c.base ELSE FileOf(u).version) + 1
      /\ \A v \in Uploaders : v # u => ups'[v] = ups[v]
      /\ ups' \in [Uploaders -> UpRow]
  <2>1. CASE ReadLatestTask(u)
    BY <1>2, <2>1 DEF ReadLatestTask, UpRow
  <2>2. CASE ReadActive(u)
    <3> DEFINE n == (IF FileOf(u) = NoFile THEN c.base ELSE FileOf(u).version) + 1
    <3>1. n \in Nat
      BY <1>2 DEF FileRow, UpRow
    <3>2. ups' = [ups EXCEPT ![u].pc = "write", ![u].next = n] /\ c.pc = "active"
      BY <2>2 DEF ReadActive, FileOf
    <3> HIDE DEF n
    <3>3. ups' \in [Uploaders -> UpRow] /\ ups'[u].next = n
      BY <1>2, <3>1, <3>2 DEF UpRow
    <3>4. ups'[u] = [c EXCEPT !.pc = "write", !.next = n] /\ \A v \in Uploaders : v # u => ups'[v] = ups[v]
      BY <1>2, <3>2
    <3> QED
      BY <1>2, <3>2, <3>3, <3>4 DEF n, UpRow
  <2> QED
    BY <2>1, <2>2
<1>4. /\ Uploading(u) /\ Uploading(u)' /\ ~Mine(u) /\ ~Mine(u)'
      /\ \A v \in Uploaders : (Uploading(v)' <=> Uploading(v)) /\ (Mine(v)' <=> Mine(v))
  BY <1>3 DEF Uploading, Mine, Accepted
<1>5. \A v \in Uploaders : FileOf(v)' = FileOf(v) /\ ups'[v].base = ups[v].base /\ ups'[v].alone = ups[v].alone
                           /\ ups'[v].kind = ups[v].kind /\ ups'[v].task = ups[v].task
  BY <1>1, <1>3 DEF FileOf
<1>6. FileOf(u) = NoFile => FileOf(u).version = 0
  BY DEF NoFile
<1>7. c.base \in Nat /\ FileOf(u).version \in Nat
  BY <1>2 DEF UpRow, FileRow
<1>8. AloneIsOnly'
  BY <1>4, <1>5 DEF UploadInv, AloneIsOnly, SameFile
<1>9. BaseStands'
  <2> SUFFICES ASSUME NEW v \in Uploaders, Uploading(v)', ups'[v].alone
               PROVE  /\ FileOf(v)'.version = ups'[v].base
                      /\ ups'[v].pc = "write" => ups'[v].next = ups'[v].base + 1
    BY DEF BaseStands
  <2>1. Uploading(v) /\ ups[v].alone /\ FileOf(v).version = ups[v].base
    BY <1>4, <1>5 DEF UploadInv, BaseStands
  <2>2. CASE v = u
    BY <1>3, <1>5, <1>6, <1>7, <2>1, <2>2
  <2>3. CASE v # u
    BY <1>3, <1>5, <2>1, <2>3 DEF UploadInv, BaseStands
  <2> QED
    BY <2>2, <2>3
<1>10. LaterGoOn'
  <2> SUFFICES ASSUME NEW v \in Uploaders, Mine(v)'
               PROVE  /\ FileOf(v)'.version > ups'[v].base
                      /\ \A w \in Uploaders : Uploading(w)' /\ SameFile(v, w)' =>
                            /\ ups'[w].base > ups'[v].base
                            /\ ups'[w].pc = "write" => ups'[w].next > ups'[v].base
    BY DEF LaterGoOn
  <2>1. Mine(v) /\ FileOf(v).version > ups[v].base
        /\ \A w \in Uploaders : Uploading(w) /\ SameFile(v, w) =>
              ups[w].base > ups[v].base /\ (ups[w].pc = "write" => ups[w].next > ups[v].base)
    BY <1>4 DEF UploadInv, LaterGoOn
  <2>2. ASSUME NEW w \in Uploaders, Uploading(w)', SameFile(v, w)'
        PROVE  /\ ups'[w].base > ups'[v].base
               /\ ups'[w].pc = "write" => ups'[w].next > ups'[v].base
    <3>1. Uploading(w) /\ SameFile(v, w)
      BY <1>4, <1>5, <2>2 DEF SameFile
    <3>2. ups'[w].base > ups'[v].base
      BY <1>5, <2>1, <3>1
    <3>3. CASE w = u
      <4>1. FileOf(u) = FileOf(v)
        BY <3>1, <3>3 DEF SameFile, FileOf
      <4>2. ups[v].base \in Nat
        BY DEF UploadsTyped, UpRow
      <4> QED
        BY <1>3, <1>5, <1>7, <2>1, <3>1, <3>2, <3>3, <4>1, <4>2
    <3>4. CASE w # u
      BY <1>3, <1>5, <2>1, <3>1, <3>2, <3>4
    <3> QED
      BY <3>3, <3>4
  <2> QED
    BY <1>5, <2>1, <2>2
<1>11. NoSilentOverwrite'
  BY <1>4, <1>5 DEF UploadInv, NoSilentOverwrite, Mine
<1>12. \A v \in Uploaders : ups'[v].pc = "write" =>
          ups'[v].next > 0 \/ (ups'[v].next = ups[v].next /\ ups[v].pc = "write")
  BY <1>3, <1>7
<1> QED
  BY <1>1, <1>3, <1>5, <1>8, <1>9, <1>10, <1>11, <1>12 DEF UploadInv

(* An upload writes: alone, the version after the one it came from; and    *)
(* one that was accepted alone stays behind what is written later.         *)
LEMMA WriteKeeps ==
    ASSUME UploadsTyped, UploadInv, NEW u \in Uploaders, WriteUpload(u), ups[u].next > 0
    PROVE  /\ UploadInv'
           /\ input' \in [UploadKind -> [InTasks -> FileRow]]
           /\ ups' \in [Uploaders -> UpRow]
           /\ \A v \in Uploaders : v # u => ups'[v] = ups[v]
           /\ ups'[u].kind = ups[u].kind /\ ups'[u].task = ups[u].task /\ ups'[u].pc = "done"
           /\ \A k \in UploadKind, t \in InTasks :
                 input'[k][t] = input[k][t] \/ input'[k][t] # NoFile
           /\ FileOf(u)' # NoFile
<1> DEFINE c == ups[u]
           new == [version |-> c.next, by |-> u]
<1>1. c \in UpRow /\ ups \in [Uploaders -> UpRow] /\ c.pc = "write" /\ c.kind \in UploadKind
      /\ c.task \in InTasks /\ c.next \in Nat /\ input \in [UploadKind -> [InTasks -> FileRow]]
  BY DEF UploadsTyped, UpRow, WriteUpload
<1>2. input' = [input EXCEPT ![c.kind][c.task] = new]
  BY DEF WriteUpload
<1>3. new \in FileRow /\ new # NoFile
  BY <1>1 DEF FileRow, NoFile
<1>4. PICK x \in {"ok", "conflict"} :
         ups' = [ups EXCEPT ![u] = [c EXCEPT !.pc = "done", !.answer = x, !.st = NoStatus, !.ver = 0, !.next = 0]]
  BY Zenon DEF WriteUpload
<1>5. /\ ups' \in [Uploaders -> UpRow] /\ \A v \in Uploaders : v # u => ups'[v] = ups[v]
      /\ ups'[u].kind = c.kind /\ ups'[u].task = c.task /\ ups'[u].pc = "done"
      /\ ups'[u].base = c.base /\ ups'[u].alone = c.alone
  BY <1>1, <1>4 DEF UpRow
<1>6. \A k \in UploadKind, t \in InTasks :
         input'[k][t] = IF k = c.kind /\ t = c.task THEN new ELSE input[k][t]
  BY <1>1, <1>2
<1>7. input' \in [UploadKind -> [InTasks -> FileRow]]
  BY <1>1, <1>2, <1>3
<1> HIDE DEF new
<1>8. /\ Uploading(u) /\ ~Uploading(u)' /\ ~Mine(u) /\ (Mine(u)' => c.alone)
      /\ \A v \in Uploaders : v # u => (Uploading(v)' <=> Uploading(v)) /\ (Mine(v)' <=> Mine(v))
  BY <1>1, <1>5 DEF Uploading, Mine, Accepted
<1>9. \A v \in Uploaders : /\ FileOf(v)' = IF SameFile(u, v) THEN new ELSE FileOf(v)
                           /\ ups'[v].base = ups[v].base /\ ups'[v].alone = ups[v].alone
                           /\ ups'[v].kind = ups[v].kind /\ ups'[v].task = ups[v].task
                           /\ ups[v].base \in Nat
  <2> SUFFICES ASSUME NEW v \in Uploaders
               PROVE  /\ FileOf(v)' = IF SameFile(u, v) THEN new ELSE FileOf(v)
                      /\ ups'[v].base = ups[v].base /\ ups'[v].alone = ups[v].alone
                      /\ ups'[v].kind = ups[v].kind /\ ups'[v].task = ups[v].task
                      /\ ups[v].base \in Nat
    OBVIOUS
  <2>1. ups[v] \in UpRow
    BY <1>1
  <2>2. /\ ups'[v].base = ups[v].base /\ ups'[v].alone = ups[v].alone
        /\ ups'[v].kind = ups[v].kind /\ ups'[v].task = ups[v].task
    BY <1>5
  <2>3. FileOf(v)' = input'[ups[v].kind][ups[v].task]
    BY <2>2 DEF FileOf
  <2> QED
    BY <1>6, <2>1, <2>2, <2>3 DEF UpRow, FileOf, SameFile
<1>10. new.version = c.next /\ c.base \in Nat
  BY <1>1 DEF new, UpRow
<1>11. AloneIsOnly'
  BY <1>8, <1>9 DEF UploadInv, AloneIsOnly, SameFile
<1>12. BaseStands'
  <2> SUFFICES ASSUME NEW v \in Uploaders, Uploading(v)', ups'[v].alone
               PROVE  /\ FileOf(v)'.version = ups'[v].base
                      /\ ups'[v].pc = "write" => ups'[v].next = ups'[v].base + 1
    BY DEF BaseStands
  <2>1. v # u /\ Uploading(v) /\ ups[v].alone
    BY <1>8, <1>9
  <2>2. ~SameFile(u, v)
    BY <1>8, <2>1 DEF UploadInv, AloneIsOnly, SameFile
  <2> QED
    BY <1>5, <1>9, <2>1, <2>2 DEF UploadInv, BaseStands
<1>13. LaterGoOn'
  <2> SUFFICES ASSUME NEW v \in Uploaders, Mine(v)'
               PROVE  /\ FileOf(v)'.version > ups'[v].base
                      /\ \A w \in Uploaders : Uploading(w)' /\ SameFile(v, w)' =>
                            /\ ups'[w].base > ups'[v].base
                            /\ ups'[w].pc = "write" => ups'[w].next > ups'[v].base
    BY DEF LaterGoOn
  <2>1. CASE v = u
    <3>1. c.alone /\ c.next = c.base + 1
      BY <1>1, <1>8, <2>1 DEF UploadInv, BaseStands
    <3>2. FileOf(u)' = new
      BY <1>9 DEF SameFile
    <3>3. \A w \in Uploaders : ~(Uploading(w)' /\ SameFile(u, w)')
      BY <1>8, <1>9, <3>1 DEF UploadInv, AloneIsOnly, SameFile
    <3> QED
      BY <1>9, <1>10, <2>1, <3>1, <3>2, <3>3
  <2>2. CASE v # u
    <3>1. /\ FileOf(v).version > ups[v].base
          /\ \A w \in Uploaders : Uploading(w) /\ SameFile(v, w) =>
                ups[w].base > ups[v].base /\ (ups[w].pc = "write" => ups[w].next > ups[v].base)
      BY <1>8, <2>2 DEF UploadInv, LaterGoOn
    <3>2. FileOf(v)'.version > ups[v].base
      <4>1. CASE SameFile(u, v)
        <5>1. SameFile(v, u)
          BY <4>1 DEF SameFile
        <5> QED
          BY <1>1, <1>8, <1>9, <1>10, <3>1, <4>1, <5>1
      <4>2. CASE ~SameFile(u, v)
        BY <1>9, <3>1, <4>2
      <4> QED
        BY <4>1, <4>2
    <3>3. ASSUME NEW w \in Uploaders, Uploading(w)', SameFile(v, w)'
          PROVE  /\ ups'[w].base > ups'[v].base
                 /\ ups'[w].pc = "write" => ups'[w].next > ups'[v].base
      <4>1. w # u /\ Uploading(w) /\ SameFile(v, w) /\ ups'[w] = ups[w]
        BY <1>5, <1>8, <1>9, <3>3 DEF SameFile
      <4> QED
        BY <1>9, <3>1, <4>1
    <3> QED
      BY <1>9, <3>2, <3>3
  <2> QED
    BY <2>1, <2>2
<1>14. NoSilentOverwrite'
  <2> SUFFICES ASSUME NEW v \in Uploaders, NEW w \in Uploaders, Mine(v)', Mine(w)', v # w,
                      ups'[v].kind = ups'[w].kind, ups'[v].task = ups'[w].task, ups'[v].base = ups'[w].base
               PROVE  FALSE
    BY DEF NoSilentOverwrite, Mine
  <2>1. SameFile(v, w) /\ SameFile(w, v) /\ ups[v].base = ups[w].base
    BY <1>9 DEF SameFile
  <2>2. CASE v # u /\ w # u
    BY <1>8, <2>1, <2>2 DEF UploadInv, NoSilentOverwrite, SameFile, Mine
  <2>3. CASE v = u
    BY <1>8, <1>9, <2>1, <2>3 DEF UploadInv, LaterGoOn
  <2>4. CASE w = u
    BY <1>8, <1>9, <2>1, <2>4 DEF UploadInv, LaterGoOn
  <2> QED
    BY <2>2, <2>3, <2>4
<1>15. FileOf(u)' # NoFile
  BY <1>3, <1>9 DEF SameFile
<1> QED
  BY <1>3, <1>5, <1>6, <1>7, <1>11, <1>12, <1>13, <1>14, <1>15 DEF UploadInv

-----------------------------------------------------------------------------
(* The types, step by step.                                                *)

PageRow == [pc : {"idle", "plan", "move", "ask", "input", "shown"}, task : InTasks,
            st : TaskStatus \cup {NoStatus}, ver : Nat, next : TaskStatus \cup {NoStatus},
            waiting : BOOLEAN, after : BOOLEAN]

TaskRow == [status : TaskStatus \cup {NoStatus}, version : Nat, progress : 0..100]

RowsTyped ==
    /\ row \in [InTasks -> TaskRow]
    /\ rows \in [InTasks -> SUBSET LedgerRow]
    /\ events \in Seq([type : EventType, task : InTasks])

PagesTyped ==
    /\ page \in [Pages -> PageRow]
    /\ \A g \in Pages : page[g].pc = "move" => page[g].st \in DOMAIN SimulationProgress
                                               /\ page[g].next \in TaskStatus

LEMMA TypesAre ==
    InTypeOK <=> simulation \in BOOLEAN /\ RowsTyped /\ page \in [Pages -> PageRow]
                 /\ input \in [UploadKind -> [InTasks -> FileRow]] /\ ups \in [Uploaders -> UpRow]
BY DEF InTypeOK, RowsTyped, PageRow, TaskRow, FileRow, UpRow

LEMMA TypesOfUploads == InTypeOK => UploadsTyped
BY TypesAre DEF RowsTyped, TaskRow, UploadsTyped

(* Where the simulation moves a task, and the progress it shows. *)
LEMMA AdvanceTyped ==
    ASSUME NEW st, NEW has
    PROVE  LET to == SimulationAdvance(st, has)
           IN  to # NoStatus => /\ to \in TaskStatus /\ st \in DOMAIN SimulationProgress
                                /\ SimulationProgress[st] \in 0..100
BY DEF SimulationAdvance, SimulationProgress, StepTarget, TaskStatus, NoStatus

LEMMA ProgressTyped ==
    ASSUME NEW st \in DOMAIN SimulationProgress
    PROVE  SimulationProgress[st] \in 0..100
BY DEF SimulationProgress

LEMMA AnnounceTyped ==
    ASSUME events \in Seq([type : EventType, task : InTasks]), NEW t \in InTasks,
           NEW type \in EventType \cup {NoEventType}, AnnounceInput(t, type)
    PROVE  events' \in Seq([type : EventType, task : InTasks])
<1>1. CASE type = NoEventType
  BY <1>1 DEF AnnounceInput
<1>2. CASE type # NoEventType
  <2>1. events' = Append(events, [type |-> type, task |-> t])
    BY <1>2 DEF AnnounceInput
  <2>2. [type |-> type, task |-> t] \in [type : EventType, task : InTasks]
    BY <1>2
  <2> QED
    BY <2>1, <2>2
<1> QED
  BY <1>1, <1>2

LEMMA MoveTyped ==
    ASSUME RowsTyped, NEW t \in InTasks, NEW to \in TaskStatus, NEW progress \in 0..100,
           MoveTask(t, to, progress)
    PROVE  RowsTyped'
<1>1. row' \in [InTasks -> TaskRow]
  <2>1. row[t].version + 1 \in Nat
    BY DEF RowsTyped, TaskRow
  <2>2. [status |-> to, version |-> row[t].version + 1, progress |-> progress] \in TaskRow
    BY <2>1 DEF TaskRow
  <2> QED
    BY <2>2 DEF RowsTyped, MoveTask
<1>2. rows' \in [InTasks -> SUBSET LedgerRow]
  <2>1. PostTransitionLedger(to) \subseteq LedgerRow
    BY DEF PostTransitionLedger, LedgerRow
  <2> QED
    BY <2>1 DEF RowsTyped, MoveTask
<1>3. PostTransitionEvent(row[t].status, to) \in EventType \cup {NoEventType}
  BY DEF PostTransitionEvent, EventType, TriggerEvent, NoticeEvent, NoEventType
<1>4. events' \in Seq([type : EventType, task : InTasks])
  BY <1>3, AnnounceTyped DEF RowsTyped, MoveTask
<1> QED
  BY <1>1, <1>2, <1>4 DEF RowsTyped

(* An upload moves a queued task, or its progress. *)
LEMMA WriteRowsTyped ==
    ASSUME InTypeOK, NEW u \in Uploaders, WriteUpload(u)
    PROVE  RowsTyped'
<1> DEFINE c == ups[u]
           t == c.task
           r == row[t]
<1>1. RowsTyped /\ c \in UpRow /\ t \in InTasks /\ c.kind \in UploadKind
  BY TypesAre DEF UpRow
<1>2. \/ UNCHANGED <<row, rows, events>>
      \/ AnnounceInput(t, "task.masked") /\ UNCHANGED <<row, rows>>
      \/ /\ row' = [row EXCEPT ![t] =
               IF c.st = "QUEUED" THEN [status |-> "PREPROCESSING", version |-> r.version + 1, progress |-> 15]
               ELSE [r EXCEPT !.version = r.version + 1,
                              !.progress = RaiseProgress(r.progress, UploadProgress[c.kind])]]
         /\ AnnounceInput(t, "task.masked") /\ UNCHANGED rows
  BY Zenon DEF WriteUpload
<1>3. AnnounceInput(t, "task.masked") => events' \in Seq([type : EventType, task : InTasks])
  BY <1>1, AnnounceTyped DEF RowsTyped, EventType, TriggerEvent
<1>4. ASSUME row' = [row EXCEPT ![t] =
               IF c.st = "QUEUED" THEN [status |-> "PREPROCESSING", version |-> r.version + 1, progress |-> 15]
               ELSE [r EXCEPT !.version = r.version + 1,
                              !.progress = RaiseProgress(r.progress, UploadProgress[c.kind])]]
      PROVE  row' \in [InTasks -> TaskRow]
  <2>1. row[t] \in TaskRow /\ row[t].version + 1 \in Nat
    BY <1>1 DEF RowsTyped, TaskRow
  <2>2. RaiseProgress(row[t].progress, UploadProgress[c.kind]) \in 0..100
    <3>1. row[t].progress \in 0..100
      BY <2>1 DEF TaskRow
    <3>2. c.kind \in {"mask", "regions"}
      BY <1>1 DEF UploadKind, UploadProgress
    <3>3. UploadProgress[c.kind] \in 0..100
      BY <3>2 DEF UploadProgress
    <3> QED
      BY <3>1, <3>3 DEF RaiseProgress
  <2>3. [status |-> "PREPROCESSING", version |-> row[t].version + 1, progress |-> 15] \in TaskRow
    BY <2>1 DEF TaskRow, TaskStatus
  <2>4. [row[t] EXCEPT !.version = row[t].version + 1,
                       !.progress = RaiseProgress(row[t].progress, UploadProgress[c.kind])] \in TaskRow
    BY <2>1, <2>2 DEF TaskRow
  <2>5. row \in [InTasks -> TaskRow]
    BY <1>1 DEF RowsTyped
  <2>6. CASE c.st = "QUEUED"
    <3>1. row' = [row EXCEPT ![t] =
                     [status |-> "PREPROCESSING", version |-> row[t].version + 1, progress |-> 15]]
      BY <1>4, <2>6
    <3> QED
      BY <2>3, <2>5, <3>1
  <2>7. CASE c.st # "QUEUED"
    <3>1. row' = [row EXCEPT ![t] = [row[t] EXCEPT !.version = row[t].version + 1,
                     !.progress = RaiseProgress(row[t].progress, UploadProgress[c.kind])]]
      BY <1>4, <2>7
    <3> QED
      BY <2>4, <2>5, <3>1
  <2> QED
    BY <2>6, <2>7
<1> QED
  BY <1>1, <1>2, <1>3, <1>4 DEF RowsTyped

(* A turn of a page. *)
LEMMA TurnTyped ==
    ASSUME InTypeOK, PagesTyped, NEW g \in Pages, NEW new \in PageRow, Turn(g, new),
           new.pc = "move" => new.st \in DOMAIN SimulationProgress /\ new.next \in TaskStatus
    PROVE  InTypeOK' /\ PagesTyped'
<1>1. /\ page' = [page EXCEPT ![g] = new] /\ UNCHANGED <<simulation, row, rows, events, input, ups>>
      /\ page \in [Pages -> PageRow]
  BY DEF Turn, PagesTyped
<1>2. page' \in [Pages -> PageRow] /\ page'[g] = new /\ \A h \in Pages : h # g => page'[h] = page[h]
  BY <1>1
<1>3. PagesTyped'
  BY <1>2 DEF PagesTyped
<1>4. InTypeOK'
  BY <1>1, <1>2 DEF InTypeOK, PageRow
<1> QED
  BY <1>3, <1>4

LEMMA IdleTyped == IdlePage \in PageRow
BY InputAssumption DEF IdlePage, PageRow

(* All the steps. *)
LEMMA InTypeStep ==
    ASSUME InTypeOK, PagesTyped, UploadInv, UploadsFit, [InNext]_inVars
    PROVE  InTypeOK' /\ PagesTyped'
<1>0. /\ RowsTyped /\ simulation \in BOOLEAN /\ page \in [Pages -> PageRow]
      /\ input \in [UploadKind -> [InTasks -> FileRow]] /\ ups \in [Uploaders -> UpRow]
      /\ UploadsTyped
  BY TypesAre, TypesOfUploads
<1>1. ASSUME NEW t \in InTasks, CreateRow(t) \/ CancelRow(t) \/ WorkerMoves(t)
      PROVE  InTypeOK' /\ PagesTyped'
  <2>1. RowsTyped'
    <3>1. CASE CreateRow(t)
      <4>1. [status |-> "QUEUED", version |-> 1, progress |-> 0] \in TaskRow /\ {Held} \subseteq LedgerRow
        BY DEF TaskRow, TaskStatus, LedgerRow
      <4>2. row' \in [InTasks -> TaskRow] /\ rows' \in [InTasks -> SUBSET LedgerRow]
        BY <1>0, <3>1, <4>1 DEF CreateRow, RowsTyped
      <4>3. events' \in Seq([type : EventType, task : InTasks])
        BY <1>0, <3>1, AnnounceTyped DEF CreateRow, RowsTyped, EventType, TriggerEvent
      <4> QED
        BY <4>2, <4>3 DEF RowsTyped
    <3>2. CASE CancelRow(t)
      BY <1>0, <3>2, MoveTyped DEF CancelRow, TaskStatus
    <3>3. CASE WorkerMoves(t)
      BY <1>0, <3>3, AdvanceTyped, MoveTyped DEF WorkerMoves
    <3> QED
      BY <1>1, <3>1, <3>2, <3>3
  <2>2. UNCHANGED <<simulation, input, ups, page>>
    BY <1>1 DEF CreateRow, CancelRow, WorkerMoves
  <2> QED
    BY <1>0, <2>1, <2>2 DEF PagesTyped, InTypeOK, RowsTyped, PageRow, TaskRow, FileRow, UpRow
<1>2. ASSUME NEW u \in Uploaders, NEW kind \in UploadKind, NEW t \in InTasks,
             NEW declared \in {"IMAGE", "VIDEO"}, NEW base \in 0..input[kind][t].version,
             BeginUpload(u, kind, t, base, declared)
      PROVE  InTypeOK' /\ PagesTyped'
  <2>0. ups' \in [Uploaders -> UpRow]
    BY <1>0, <1>2, BeginKeeps
  <2>1. UNCHANGED <<simulation, row, rows, events, input, page>> /\ ups' \in [Uploaders -> UpRow]
    BY <1>2, <2>0 DEF BeginUpload
  <2> QED
    BY <1>0, <2>1 DEF PagesTyped, InTypeOK, RowsTyped, PageRow, TaskRow, FileRow, UpRow
<1>3. ASSUME NEW u \in Uploaders, ReadLatestTask(u) \/ ReadActive(u)
      PROVE  InTypeOK' /\ PagesTyped'
  <2>0. ups' \in [Uploaders -> UpRow]
    BY <1>0, <1>3, ReadKeeps
  <2>1. UNCHANGED <<simulation, row, rows, events, input, page>> /\ ups' \in [Uploaders -> UpRow]
    BY <1>3, <2>0 DEF ReadLatestTask, ReadActive
  <2> QED
    BY <1>0, <2>1 DEF PagesTyped, InTypeOK, RowsTyped, PageRow, TaskRow, FileRow, UpRow
<1>4. ASSUME NEW u \in Uploaders, WriteUpload(u)
      PROVE  InTypeOK' /\ PagesTyped'
  <2>1. ups[u].next > 0
    BY <1>4 DEF UploadsFit, WriteUpload
  <2>2. RowsTyped' /\ UNCHANGED <<simulation, page>> /\ ups' \in [Uploaders -> UpRow]
        /\ input' \in [UploadKind -> [InTasks -> FileRow]]
    BY <1>0, <1>4, <2>1, WriteKeeps, WriteRowsTyped DEF WriteUpload
  <2> QED
    BY <1>0, <2>2 DEF PagesTyped, InTypeOK, RowsTyped, PageRow, TaskRow, FileRow, UpRow
<1>5. ASSUME NEW g \in Pages, NEW t \in InTasks, NEW list \in BOOLEAN, OpenPage(g, t, list)
      PROVE  InTypeOK' /\ PagesTyped'
  <2> DEFINE pc1 == IF simulation /\ ~list THEN "plan" ELSE "ask"
             fed == Fed(t)
             new == [IdlePage EXCEPT !.pc = pc1, !.task = t, !.after = fed]
  <2>1. pc1 \in {"plan", "ask"} /\ fed \in BOOLEAN
    BY DEF Fed
  <2>2. Turn(g, new)
    BY <1>5 DEF OpenPage
  <2> HIDE DEF pc1, fed
  <2>3. new \in PageRow /\ new.pc # "move"
    BY <2>1, IdleTyped DEF PageRow
  <2> HIDE DEF new
  <2> QED
    BY <2>2, <2>3, TurnTyped
<1>6. ASSUME NEW g \in Pages, PlanAdvance(g)
      PROVE  InTypeOK' /\ PagesTyped'
  <2> DEFINE t    == page[g].task
             next == SimulationAdvance(row[t].status, Has(t))
  <2>1. page[g] \in PageRow /\ row[t] \in TaskRow
    BY <1>0 DEF RowsTyped, PageRow
  <2>2. CASE next = NoStatus
    <3>1. Turn(g, [page[g] EXCEPT !.pc = "ask"])
      BY <1>6, <2>2 DEF PlanAdvance
    <3>2. [page[g] EXCEPT !.pc = "ask"] \in PageRow /\ [page[g] EXCEPT !.pc = "ask"].pc = "ask"
      BY <2>1 DEF PageRow
    <3> QED
      BY <3>1, <3>2, TurnTyped
  <2>3. CASE next # NoStatus
    <3> DEFINE new == [page[g] EXCEPT !.pc = "move", !.st = row[t].status, !.ver = row[t].version,
                                      !.next = next]
    <3>1. Turn(g, new)
      BY <1>6, <2>3 DEF PlanAdvance
    <3>2. next \in TaskStatus /\ row[t].status \in DOMAIN SimulationProgress
      BY <2>3, AdvanceTyped
    <3> HIDE DEF next
    <3>3. new \in PageRow /\ new.st = row[t].status /\ new.next = next
      BY <2>1, <3>2 DEF PageRow, TaskRow
    <3> HIDE DEF new
    <3> QED
      BY <3>1, <3>2, <3>3, TurnTyped
  <2> QED
    BY <2>2, <2>3
<1>7. ASSUME NEW g \in Pages, MoveOn(g)
      PROVE  InTypeOK' /\ PagesTyped'
  <2> DEFINE new == [IdlePage EXCEPT !.pc = "ask", !.task = page[g].task, !.after = page[g].after]
  <2>1. page[g] \in PageRow /\ page[g].task \in InTasks /\ page[g].after \in BOOLEAN
    BY <1>0 DEF PageRow
  <2>2. new \in PageRow /\ new.pc = "ask"
    BY <2>1, IdleTyped DEF PageRow
  <2>3. RowsTyped'
    <3>1. page[g].next \in TaskStatus /\ SimulationProgress[page[g].st] \in 0..100
      BY <1>7, ProgressTyped DEF PagesTyped, MoveOn
    <3>2. MoveTask(page[g].task, page[g].next, SimulationProgress[page[g].st])
          \/ UNCHANGED <<row, rows, events>>
      BY <1>7 DEF MoveOn
    <3>3. CASE MoveTask(page[g].task, page[g].next, SimulationProgress[page[g].st])
      BY <1>0, <2>1, <3>1, <3>3, MoveTyped
    <3>4. CASE UNCHANGED <<row, rows, events>>
      BY <1>0, <3>4 DEF RowsTyped
    <3> QED
      BY <3>2, <3>3, <3>4
  <2>4. page' = [page EXCEPT ![g] = new] /\ UNCHANGED <<simulation, input, ups>>
    BY <1>7 DEF MoveOn
  <2> HIDE DEF new
  <2>5. page' \in [Pages -> PageRow] /\ PagesTyped'
    BY <1>0, <2>2, <2>4 DEF PagesTyped
  <2> QED
    BY <1>0, <2>3, <2>4, <2>5 DEF InTypeOK, RowsTyped, PageRow, TaskRow, FileRow, UpRow
<1>8. ASSUME NEW g \in Pages, AskStatus(g) \/ AskInput(g) \/ ClosePage(g)
      PROVE  InTypeOK' /\ PagesTyped'
  <2>1. page[g] \in PageRow
    BY <1>0
  <2>2. CASE AskStatus(g)
    <3>1. PICK pc1 \in {"input", "shown"} : Turn(g, [page[g] EXCEPT !.pc = pc1])
      BY <2>2 DEF AskStatus
    <3>2. [page[g] EXCEPT !.pc = pc1] \in PageRow /\ [page[g] EXCEPT !.pc = pc1].pc # "move"
      BY <2>1 DEF PageRow
    <3> QED
      BY <3>1, <3>2, TurnTyped
  <2>3. CASE AskInput(g)
    <3> DEFINE w   == ~Has(page[g].task)
               new == [page[g] EXCEPT !.pc = "shown", !.waiting = w]
    <3>1. Turn(g, new) /\ w \in BOOLEAN
      BY <2>3 DEF AskInput
    <3> HIDE DEF w
    <3>2. new \in PageRow /\ new.pc = "shown"
      BY <2>1, <3>1 DEF PageRow
    <3> HIDE DEF new
    <3> QED
      BY <3>1, <3>2, TurnTyped
  <2>4. CASE ClosePage(g)
    BY <2>4, IdleTyped, TurnTyped DEF ClosePage, IdlePage
  <2> QED
    BY <1>8, <2>2, <2>3, <2>4
<1>9. CASE UNCHANGED inVars
  BY <1>9 DEF inVars, InTypeOK, PagesTyped
<1> QED
  BY <1>1, <1>2, <1>3, <1>4, <1>5, <1>6, <1>7, <1>8, <1>9 DEF InNext, UploadStep, PageStep

-----------------------------------------------------------------------------
(* What a page is told.                                                    *)

LEMMA HasGrows ==
    ASSUME \A k \in UploadKind, t \in InTasks : input'[k][t] = input[k][t] \/ input'[k][t] # NoFile
    PROVE  \A t \in InTasks : Has(t) => Has(t)'
BY DEF Has, HasDetectionInput, UploadKind, UploadProgress

LEMMA FedHas ==
    ASSUME UploadsTyped, UploadsFit, NEW t \in InTasks, Fed(t)
    PROVE  Has(t)
<1>1. PICK u \in Uploaders : Accepted(u) /\ ups[u].task = t
  BY DEF Fed, Accepted
<1>2. ups[u].kind \in UploadKind /\ input[ups[u].kind][t] # NoFile
      /\ (ups[u].kind = "mask" => InMedia[t] = "IMAGE")
  BY <1>1 DEF UploadsTyped, UploadsFit, UpRow, FileOf
<1> QED
  BY <1>2 DEF Has, HasDetectionInput, UploadKind, UploadProgress

(* No step takes back what an upload brought. *)
LEMMA FitStep ==
    ASSUME InTypeOK, UploadInv, UploadsFit, [InNext]_inVars
    PROVE  /\ UploadInv' /\ UploadsFit'
           /\ \A t \in InTasks : Has(t) => Has(t)'
<1>0. UploadsTyped /\ ups \in [Uploaders -> UpRow]
  BY TypesOfUploads, TypesAre
<1>1. CASE UNCHANGED <<input, ups>>
  BY <1>1, UploadsRest DEF UploadsFit, Uploading, Accepted, FileOf, Has
<1>2. ASSUME NEW u \in Uploaders, NEW kind \in UploadKind, NEW t \in InTasks,
             NEW declared \in {"IMAGE", "VIDEO"}, NEW base \in 0..input[kind][t].version,
             BeginUpload(u, kind, t, base, declared)
      PROVE  UploadInv' /\ UploadsFit' /\ \A x \in InTasks : Has(x) => Has(x)'
  <2>1. /\ UploadInv' /\ UNCHANGED input
        /\ ups'[u].kind = kind /\ ups'[u].task = t /\ ups'[u].pc \in {"begin", "done"}
        /\ ups'[u].answer = IF ups'[u].pc = "begin" THEN "none" ELSE "conflict"
        /\ ups'[u].answer # "conflict" => AcceptedFor(kind, InMedia[t], declared)
        /\ \A v \in Uploaders : v # u =>
              /\ ups'[v].pc = ups[v].pc /\ ups'[v].kind = ups[v].kind /\ ups'[v].task = ups[v].task
              /\ ups'[v].answer = ups[v].answer /\ ups'[v].next = ups[v].next
    BY <1>0, <1>2, BeginKeeps
  <2>2. UploadsFit'
    <3> SUFFICES ASSUME NEW v \in Uploaders
                 PROVE  /\ (Uploading(v) \/ Accepted(v))' => (ups'[v].kind = "mask" => InMedia[ups'[v].task] = "IMAGE")
                        /\ ups'[v].pc = "write" => ups'[v].next > 0
                        /\ Accepted(v)' => FileOf(v)' # NoFile
      BY Zenon DEF UploadsFit
    <3>1. CASE v = u
      BY <2>1, <3>1 DEF AcceptedFor, Accepted, Uploading
    <3>2. CASE v # u
      BY <2>1, <3>2 DEF UploadsFit, Uploading, Accepted, FileOf
    <3> QED
      BY <3>1, <3>2
  <2> QED
    BY <2>1, <2>2 DEF Has
<1>3. ASSUME NEW u \in Uploaders, ReadLatestTask(u) \/ ReadActive(u)
      PROVE  UploadInv' /\ UploadsFit' /\ \A t \in InTasks : Has(t) => Has(t)'
  <2>1. /\ UploadInv' /\ UNCHANGED input
        /\ \A v \in Uploaders :
              /\ ups'[v].kind = ups[v].kind /\ ups'[v].task = ups[v].task
              /\ ups'[v].answer = ups[v].answer
              /\ ups'[v].pc = ups[v].pc \/ (ups[v].pc \in {"begin", "active"} /\ ups'[v].pc \in {"active", "write"})
              /\ ups'[v].pc = "write" => ups'[v].next > 0 \/ (ups'[v].next = ups[v].next /\ ups[v].pc = "write")
    BY <1>0, <1>3, ReadKeeps
  <2>2. UploadsFit'
    BY <2>1 DEF UploadsFit, Uploading, Accepted, FileOf
  <2> QED
    BY <2>1, <2>2 DEF Has
<1>4. ASSUME NEW u \in Uploaders, WriteUpload(u)
      PROVE  UploadInv' /\ UploadsFit' /\ \A t \in InTasks : Has(t) => Has(t)'
  <2>1. ups[u].next > 0 /\ ups[u].pc = "write"
    BY <1>4 DEF UploadsFit, WriteUpload
  <2>2. /\ UploadInv'
        /\ \A v \in Uploaders : v # u => ups'[v] = ups[v]
        /\ ups'[u].kind = ups[u].kind /\ ups'[u].task = ups[u].task /\ ups'[u].pc = "done"
        /\ \A k \in UploadKind, t \in InTasks : input'[k][t] = input[k][t] \/ input'[k][t] # NoFile
        /\ FileOf(u)' # NoFile
    BY <1>0, <1>4, <2>1, WriteKeeps
  <2>3. \A v \in Uploaders : ups[v].kind \in UploadKind /\ ups[v].task \in InTasks
    BY <1>0 DEF UpRow
  <2>4. UploadsFit'
    <3> SUFFICES ASSUME NEW v \in Uploaders
                 PROVE  /\ (Uploading(v) \/ Accepted(v))' => (ups'[v].kind = "mask" => InMedia[ups'[v].task] = "IMAGE")
                        /\ ups'[v].pc = "write" => ups'[v].next > 0
                        /\ Accepted(v)' => FileOf(v)' # NoFile
      BY Zenon DEF UploadsFit
    <3>1. CASE v = u
      BY <2>1, <2>2, <3>1 DEF UploadsFit, Uploading
    <3>2. CASE v # u
      BY <2>2, <2>3, <3>2 DEF UploadsFit, Uploading, Accepted, FileOf
    <3> QED
      BY <3>1, <3>2
  <2> QED
    BY <2>2, <2>4, HasGrows
<1>5. ASSUME NEW t \in InTasks, CreateRow(t) \/ CancelRow(t) \/ WorkerMoves(t)
      PROVE  UNCHANGED <<input, ups>>
  BY <1>5 DEF CreateRow, CancelRow, WorkerMoves
<1>6. ASSUME NEW g \in Pages, PageStep(g)
      PROVE  UNCHANGED <<input, ups>>
  BY <1>6 DEF PageStep, PlanAdvance, MoveOn, AskStatus, AskInput, ClosePage, Turn
<1>7. ASSUME NEW g \in Pages, NEW t \in InTasks, NEW list \in BOOLEAN, OpenPage(g, t, list)
      PROVE  UNCHANGED <<input, ups>>
  BY <1>7 DEF OpenPage, Turn
<1>8. ASSUME UNCHANGED inVars PROVE UNCHANGED <<input, ups>>
  BY <1>8 DEF inVars
<1>9. \/ UNCHANGED <<input, ups>>
      \/ \E u \in Uploaders, kind \in UploadKind, t \in InTasks, declared \in {"IMAGE", "VIDEO"} :
            \E base \in 0..input[kind][t].version : BeginUpload(u, kind, t, base, declared)
      \/ \E u \in Uploaders : ReadLatestTask(u) \/ ReadActive(u) \/ WriteUpload(u)
  BY <1>5, <1>6, <1>7, <1>8 DEF InNext, UploadStep
<1> QED
  BY <1>1, <1>2, <1>3, <1>4, <1>9

(* A page opened after an upload finds its input. *)
LEMMA SeeStep ==
    ASSUME InTypeOK, UploadsFit, PagesSee, [InNext]_inVars,
           \A t \in InTasks : Has(t) => Has(t)'
    PROVE  PagesSee'
<1>0. UploadsTyped /\ page \in [Pages -> PageRow]
  BY TypesOfUploads, TypesAre
<1>1. CASE UNCHANGED page
  <2> SUFFICES ASSUME NEW g \in Pages, page'[g].after
               PROVE  Has(page[g].task)' /\ ~page[g].waiting
    BY <1>1, Zenon DEF PagesSee
  <2>1. page[g].task \in InTasks
    BY <1>0 DEF PageRow
  <2> QED
    BY <1>1, <2>1 DEF PagesSee
<1>2. ASSUME NEW g \in Pages, UNCHANGED input,
             \A h \in Pages : h # g => page'[h] = page[h],
             page'[g].after => Has(page'[g].task) /\ ~page'[g].waiting
      PROVE  PagesSee'
  BY <1>2 DEF PagesSee, Has
<1>3. ASSUME NEW g \in Pages, NEW t \in InTasks, NEW list \in BOOLEAN, OpenPage(g, t, list)
      PROVE  PagesSee'
  <2> DEFINE pc1 == IF simulation /\ ~list THEN "plan" ELSE "ask"
             fed == Fed(t)
  <2>1. page' = [page EXCEPT ![g] = [IdlePage EXCEPT !.pc = pc1, !.task = t, !.after = fed]]
        /\ UNCHANGED input
    BY <1>3 DEF OpenPage, Turn
  <2>2. fed => Has(t)
    BY <1>0, FedHas
  <2> HIDE DEF pc1, fed
  <2>3. /\ page'[g].task = t /\ (page'[g].after <=> fed) /\ ~page'[g].waiting
        /\ \A h \in Pages : h # g => page'[h] = page[h]
    BY <1>0, <2>1 DEF IdlePage
  <2> QED
    BY <1>2, <2>1, <2>2, <2>3
<1>4. ASSUME NEW g \in Pages, PageStep(g)
      PROVE  PagesSee'
  <2>1. page[g].after => Has(page[g].task) /\ ~page[g].waiting
    BY DEF PagesSee
  <2>2. page[g] \in PageRow
    BY <1>0
  <2>3. UNCHANGED input /\ \A h \in Pages : h # g => page'[h] = page[h]
    BY <1>0, <1>4 DEF PageStep, PlanAdvance, MoveOn, AskStatus, AskInput, ClosePage, Turn
  <2>4. page'[g].after => Has(page'[g].task) /\ ~page'[g].waiting
    <3>1. CASE PlanAdvance(g)
      <4> DEFINE next == SimulationAdvance(row[page[g].task].status, Has(page[g].task))
      <4>1. \/ page' = [page EXCEPT ![g] = [page[g] EXCEPT !.pc = "ask"]]
            \/ page' = [page EXCEPT ![g] = [page[g] EXCEPT !.pc = "move", !.st = row[page[g].task].status,
                                       !.ver = row[page[g].task].version, !.next = next]]
        BY <3>1 DEF PlanAdvance, Turn
      <4> HIDE DEF next
      <4>2. page'[g].task = page[g].task /\ page'[g].after = page[g].after
            /\ page'[g].waiting = page[g].waiting
        <5>1. CASE page' = [page EXCEPT ![g] = [page[g] EXCEPT !.pc = "ask"]]
          BY <1>0, <2>2, <5>1 DEF PageRow
        <5>2. CASE page' = [page EXCEPT ![g] = [page[g] EXCEPT !.pc = "move", !.st = row[page[g].task].status,
                                       !.ver = row[page[g].task].version, !.next = next]]
          <6>1. page'[g] = [page[g] EXCEPT !.pc = "move", !.st = row[page[g].task].status,
                                       !.ver = row[page[g].task].version, !.next = next]
            BY <1>0, <5>2
          <6> QED
            BY <2>2, <6>1 DEF PageRow
        <5> QED
          BY <4>1, <5>1, <5>2
      <4> QED
        BY <2>1, <4>2
    <3>2. CASE MoveOn(g)
      BY <1>0, <2>1, <2>2, <3>2 DEF MoveOn, IdlePage, PageRow
    <3>3. CASE AskStatus(g)
      BY <1>0, <2>1, <2>2, <3>3 DEF AskStatus, Turn, PageRow
    <3>4. CASE AskInput(g)
      BY <1>0, <2>1, <2>2, <3>4 DEF AskInput, Turn, PageRow
    <3>5. CASE ClosePage(g)
      BY <1>0, <3>5 DEF ClosePage, Turn, IdlePage
    <3> QED
      BY <1>4, <3>1, <3>2, <3>3, <3>4, <3>5 DEF PageStep
  <2> QED
    BY <1>2, <2>3, <2>4
<1>5. ASSUME NEW t \in InTasks, CreateRow(t) \/ CancelRow(t) \/ WorkerMoves(t)
      PROVE  UNCHANGED page
  BY <1>5 DEF CreateRow, CancelRow, WorkerMoves
<1>6. ASSUME NEW u \in Uploaders, UploadStep(u)
      PROVE  UNCHANGED page
  BY <1>6 DEF UploadStep, ReadLatestTask, ReadActive, WriteUpload
<1>7. ASSUME NEW u \in Uploaders, NEW kind \in UploadKind, NEW t \in InTasks,
             NEW declared \in {"IMAGE", "VIDEO"}, NEW base \in 0..input[kind][t].version,
             BeginUpload(u, kind, t, base, declared)
      PROVE  UNCHANGED page
  BY <1>7 DEF BeginUpload
<1>8. ASSUME UNCHANGED inVars PROVE UNCHANGED page
  BY <1>8 DEF inVars
<1>9. \/ UNCHANGED page
      \/ \E g \in Pages, t \in InTasks, list \in BOOLEAN : OpenPage(g, t, list)
      \/ \E g \in Pages : PageStep(g)
  BY <1>5, <1>6, <1>7, <1>8 DEF InNext
<1> QED
  BY <1>1, <1>3, <1>4, <1>9

-----------------------------------------------------------------------------
InInv == InTypeOK /\ PagesTyped /\ UploadInv /\ UploadsFit /\ PagesSee

LEMMA InInit_InInv == InInit => InInv
<1> SUFFICES ASSUME InInit PROVE InInv
  OBVIOUS
<1>1. NewUp \in UpRow /\ NewUp.pc = "new"
  BY InputAssumption DEF NewUp, UpRow, UploadKind, UploadProgress
<1>2. IdlePage.pc = "idle" /\ IdlePage.after = FALSE
  BY DEF IdlePage
<1>3. NoFile \in FileRow
  BY DEF NoFile, FileRow
<1>4. [status |-> NoStatus, version |-> 0, progress |-> 0] \in TaskRow
  BY DEF TaskRow
<1>5. RowsTyped
  BY <1>4 DEF InInit, RowsTyped
<1>6. InTypeOK
  BY <1>1, <1>3, <1>5, TypesAre, IdleTyped DEF InInit
<1>7. PagesTyped
  BY <1>2, IdleTyped DEF InInit, PagesTyped
<1>8. \A u \in Uploaders : ups[u].pc = "new"
  BY <1>1 DEF InInit
<1>9. UploadInv /\ UploadsFit
  BY <1>8 DEF UploadInv, AloneIsOnly, BaseStands, LaterGoOn, NoSilentOverwrite, UploadsFit, Uploading,
              Mine, Accepted
<1>10. PagesSee
  BY <1>2 DEF InInit, PagesSee
<1> QED
  BY <1>6, <1>7, <1>9, <1>10 DEF InInv

THEOREM InInvariant == InSpec => []InInv
<1>1. InInv /\ [InNext]_inVars => InInv'
  BY InTypeStep, FitStep, SeeStep DEF InInv
<1> QED
  BY InInit_InInv, <1>1, PTL DEF InSpec

(* Rows, events, input, uploads and pages keep their types. *)
THEOREM InputTypeCorrect == InSpec => []InTypeOK
BY InInvariant, PTL DEF InInv

(* Two uploads of one file that nobody uploaded beside are not accepted    *)
(* from one version.                                                       *)
THEOREM SecondEditorIsTold == InSpec => []NoSilentOverwrite
<1>1. InInv => NoSilentOverwrite
  BY DEF InInv, UploadInv
<1> QED
  BY <1>1, InInvariant, PTL

(* A page opened after an accepted upload does not ask for one. *)
THEOREM AcceptedIsSeen == InSpec => []UploadEndsWaiting
<1>1. InInv => UploadEndsWaiting
  BY DEF InInv, PagesSee, UploadEndsWaiting
<1> QED
  BY <1>1, InInvariant, PTL

-----------------------------------------------------------------------------
(* What is planned from a row still holds when the version does: an upload *)
(* or a page that has read a task's version knows its status by it.        *)

Existing(t) == row[t].status # NoStatus

Seen(t, ver, st) ==
    /\ Existing(t) /\ ver <= row[t].version
    /\ ver = row[t].version => st = row[t].status

PlansFresh ==
    /\ \A u \in Uploaders : Uploading(u) => Existing(ups[u].task)
    /\ \A u \in Uploaders : ups[u].pc \in {"active", "write"} => Seen(ups[u].task, ups[u].ver, ups[u].st)
    /\ \A g \in Pages : page[g].pc # "idle" => Existing(page[g].task)
    /\ \A g \in Pages : page[g].pc = "move" =>
          /\ Seen(page[g].task, page[g].ver, page[g].st)
          /\ page[g].st \in DOMAIN SimulationProgress /\ page[g].next = StepTarget[page[g].st]

(* What a step does to the rows: nothing, a new task, a legal move with    *)
(* what follows it, or an upload that is announced.                        *)

Started(t) ==
    /\ ~Existing(t)
    /\ row' = [row EXCEPT ![t] = [status |-> "QUEUED", version |-> 1, progress |-> 0]]
    /\ rows' = [rows EXCEPT ![t] = {Held}]
    /\ AnnounceInput(t, "task.created")

MovedTo(t, to) ==
    /\ \/ row[t].status \in CANCELABLE_STATUS /\ to = "CANCELED"
       \/ row[t].status \in DOMAIN SimulationProgress /\ to = StepTarget[row[t].status]
    /\ \E progress \in Nat : MoveTask(t, to, progress)

Touched(t) ==
    /\ AnnounceInput(t, "task.masked") /\ UNCHANGED rows
    /\ Existing(t)
    /\ \/ UNCHANGED row
       \/ \E new : /\ row' = [row EXCEPT ![t] = new] /\ new.version = row[t].version + 1
                   /\ \/ new.status = row[t].status
                      \/ row[t].status = "QUEUED" /\ new.status = "PREPROCESSING"

RowStep ==
    \/ UNCHANGED <<row, rows, events>>
    \/ \E t \in InTasks : Started(t) \/ Touched(t) \/ \E to \in TaskStatus : MovedTo(t, to)

LEMMA AdvanceLegal ==
    ASSUME NEW st, NEW has, SimulationAdvance(st, has) # NoStatus
    PROVE  /\ st \in DOMAIN SimulationProgress /\ SimulationAdvance(st, has) = StepTarget[st]
           /\ SimulationProgress[st] \in Nat /\ StepTarget[st] \in TaskStatus
BY DEF SimulationAdvance, SimulationProgress, StepTarget, TaskStatus

LEMMA RowStepNext ==
    ASSUME InTypeOK, PlansFresh, [InNext]_inVars
    PROVE  RowStep
<1>0. /\ row \in [InTasks -> TaskRow] /\ page \in [Pages -> PageRow] /\ ups \in [Uploaders -> UpRow]
  BY TypesAre DEF RowsTyped
<1>1. ASSUME NEW t \in InTasks, CreateRow(t) \/ CancelRow(t) \/ WorkerMoves(t) PROVE RowStep
  <2>1. CASE CreateRow(t)
    BY <2>1 DEF CreateRow, RowStep, Started, Existing
  <2>2. CASE CancelRow(t)
    BY <2>2 DEF CancelRow, RowStep, MovedTo, TaskStatus
  <2>3. CASE WorkerMoves(t)
    BY <2>3, AdvanceLegal DEF WorkerMoves, RowStep, MovedTo
  <2> QED
    BY <1>1, <2>1, <2>2, <2>3
<1>2. ASSUME NEW u \in Uploaders, WriteUpload(u) PROVE RowStep
  <2> DEFINE c == ups[u]
             t == c.task
             r == row[t]
  <2>1. c \in UpRow /\ t \in InTasks /\ r \in TaskRow /\ c.pc = "write" /\ Existing(t)
        /\ Seen(t, c.ver, c.st)
    BY <1>0, <1>2 DEF UpRow, WriteUpload, PlansFresh, Uploading
  <2>2. CASE UNCHANGED <<row, rows, events>>
    BY <2>2 DEF RowStep
  <2>3. CASE UNCHANGED <<row, rows>> /\ AnnounceInput(t, "task.masked")
    BY <2>1, <2>3 DEF RowStep, Touched
  <2>4. CASE /\ UnchangedSince(t, c.ver)
             /\ row' = [row EXCEPT ![t] =
                    IF c.st = "QUEUED" THEN [status |-> "PREPROCESSING", version |-> r.version + 1, progress |-> 15]
                    ELSE [r EXCEPT !.version = r.version + 1,
                                   !.progress = RaiseProgress(r.progress, UploadProgress[c.kind])]]
             /\ AnnounceInput(t, "task.masked") /\ UNCHANGED rows
    <3> DEFINE new == IF c.st = "QUEUED"
                      THEN [status |-> "PREPROCESSING", version |-> r.version + 1, progress |-> 15]
                      ELSE [r EXCEPT !.version = r.version + 1,
                                     !.progress = RaiseProgress(r.progress, UploadProgress[c.kind])]
    <3>1. r.status = c.st
      BY <2>1, <2>4 DEF UnchangedSince, Seen
    <3>2. new.version = r.version + 1 /\ (new.status = r.status \/ (r.status = "QUEUED" /\ new.status = "PREPROCESSING"))
      BY <2>1, <3>1 DEF TaskRow
    <3>3. row' = [row EXCEPT ![t] = new]
      BY <2>4
    <3> HIDE DEF new
    <3>4. Touched(t)
      BY <2>1, <2>4, <3>2, <3>3 DEF Touched
    <3> QED
      BY <2>1, <3>4 DEF RowStep
  <2> QED
    BY <1>2, <2>2, <2>3, <2>4 DEF WriteUpload
<1>3. ASSUME NEW g \in Pages, MoveOn(g) PROVE RowStep
  <2>1. CASE UNCHANGED <<row, rows, events>>
    BY <2>1 DEF RowStep
  <2>2. CASE /\ UnchangedSince(page[g].task, page[g].ver)
             /\ MoveTask(page[g].task, page[g].next, SimulationProgress[page[g].st])
    <3>1. /\ page[g].task \in InTasks /\ page[g].next = StepTarget[page[g].st]
          /\ page[g].st \in DOMAIN SimulationProgress /\ row[page[g].task].status = page[g].st
      BY <1>0, <1>3, <2>2 DEF MoveOn, PlansFresh, Seen, UnchangedSince, PageRow
    <3>2. SimulationProgress[page[g].st] \in Nat /\ StepTarget[page[g].st] \in TaskStatus
      BY <3>1 DEF SimulationProgress, StepTarget, TaskStatus
    <3>3. MovedTo(page[g].task, page[g].next)
      BY <2>2, <3>1, <3>2 DEF MovedTo
    <3> QED
      BY <3>1, <3>2, <3>3 DEF RowStep
  <2> QED
    BY <1>3, <2>1, <2>2 DEF MoveOn
<1>4. \/ UNCHANGED <<row, rows, events>>
      \/ \E t \in InTasks : CreateRow(t) \/ CancelRow(t) \/ WorkerMoves(t)
      \/ \E u \in Uploaders : WriteUpload(u)
      \/ \E g \in Pages : MoveOn(g)
  <2>1. ASSUME NEW u \in Uploaders, NEW kind \in UploadKind, NEW t \in InTasks,
               NEW declared \in {"IMAGE", "VIDEO"}, NEW base \in 0..input[kind][t].version,
               BeginUpload(u, kind, t, base, declared)
        PROVE  UNCHANGED <<row, rows, events>>
    BY <2>1 DEF BeginUpload
  <2>2. ASSUME NEW u \in Uploaders, UploadStep(u), ~WriteUpload(u) PROVE UNCHANGED <<row, rows, events>>
    BY <2>2 DEF UploadStep, ReadLatestTask, ReadActive
  <2>3. ASSUME NEW g \in Pages, PageStep(g), ~MoveOn(g) PROVE UNCHANGED <<row, rows, events>>
    BY <2>3 DEF PageStep, PlanAdvance, AskStatus, AskInput, ClosePage, Turn
  <2>4. ASSUME NEW g \in Pages, NEW t \in InTasks, NEW list \in BOOLEAN, OpenPage(g, t, list)
        PROVE  UNCHANGED <<row, rows, events>>
    BY <2>4 DEF OpenPage, Turn
  <2> QED
    BY <2>1, <2>2, <2>3, <2>4 DEF InNext, inVars
<1> QED
  BY <1>1, <1>2, <1>3, <1>4 DEF RowStep

LEMMA RowMonotone ==
    ASSUME InTypeOK, RowStep, NEW t \in InTasks, Existing(t)
    PROVE  /\ row'[t].status # NoStatus /\ row'[t].version >= row[t].version
           /\ row'[t].version = row[t].version => row'[t].status = row[t].status
<1>0. row \in [InTasks -> TaskRow] /\ row[t].version \in Nat /\ row[t].status \in TaskStatus
  BY TypesAre DEF RowsTyped, TaskRow, Existing
<1>1. CASE UNCHANGED row
  BY <1>0, <1>1 DEF Existing
<1>2. ASSUME NEW s \in InTasks, Started(s) PROVE row'[t] = row[t]
  BY <1>0, <1>2 DEF Started
<1>3. ASSUME NEW s \in InTasks, Touched(s)
      PROVE  \/ row'[t] = row[t]
             \/ row'[t].version = row[t].version + 1 /\ row'[t].status # NoStatus
  BY <1>0, <1>3 DEF Touched, Existing, NoStatus
<1>4. ASSUME NEW s \in InTasks, NEW to \in TaskStatus, MovedTo(s, to)
      PROVE  \/ row'[t] = row[t]
             \/ row'[t].version = row[t].version + 1 /\ row'[t].status # NoStatus
  BY <1>0, <1>4 DEF MovedTo, MoveTask, NoStatus, TaskStatus
<1> QED
  BY <1>0, <1>1, <1>2, <1>3, <1>4 DEF RowStep, Existing

(* What a step does to what uploads and pages have read: they keep it,     *)
(* drop it, or read the row as it is.                                      *)

UpStep(u) ==
    \/ /\ ups'[u].pc = ups[u].pc /\ ups'[u].task = ups[u].task
       /\ ups'[u].ver = ups[u].ver /\ ups'[u].st = ups[u].st
    \/ ups'[u].pc = "done"
    \/ ups'[u].pc = "begin" /\ Existing(ups'[u].task) /\ ups'[u].task \in InTasks
    \/ /\ ups[u].pc = "begin" /\ ups'[u].pc = "active" /\ ups'[u].task = ups[u].task
       /\ ups'[u].st = row[ups[u].task].status /\ ups'[u].ver = row[ups[u].task].version
    \/ /\ ups[u].pc = "active" /\ ups'[u].pc = "write" /\ ups'[u].task = ups[u].task
       /\ ups'[u].ver = ups[u].ver /\ ups'[u].st = ups[u].st

PageTurn(g) ==
    \/ page'[g] = page[g]
    \/ page'[g].pc = "idle"
    \/ /\ page'[g].pc \in {"plan", "ask", "input", "shown"}
       /\ page'[g].task \in InTasks /\ Existing(page'[g].task)
    \/ /\ page[g].pc # "move" /\ page'[g].pc = "move"
       /\ page'[g].task \in InTasks /\ Existing(page'[g].task)
       /\ page'[g].st = row[page'[g].task].status /\ page'[g].ver = row[page'[g].task].version
       /\ page'[g].st \in DOMAIN SimulationProgress /\ page'[g].next = StepTarget[page'[g].st]

LEMMA UpStepNext ==
    ASSUME InTypeOK, PlansFresh, [InNext]_inVars, NEW u \in Uploaders
    PROVE  UpStep(u)
<1>0. ups \in [Uploaders -> UpRow] /\ ups[u] \in UpRow
  BY TypesAre
<1>1. CASE UNCHANGED ups
  BY <1>1 DEF UpStep
<1>2. ASSUME NEW v \in Uploaders, NEW kind \in UploadKind, NEW t \in InTasks,
             NEW declared \in {"IMAGE", "VIDEO"}, NEW base \in 0..input[kind][t].version,
             BeginUpload(v, kind, t, base, declared)
      PROVE  UpStep(u)
  <2> DEFINE ok == AcceptedFor(kind, InMedia[t], declared) /\ Current(kind, t, base)
             pc1 == IF ok THEN "begin" ELSE "done"
             b   == IF ok THEN base ELSE 0
             a   == IF ok THEN "none" ELSE "conflict"
             al  == Rivals(v, kind, t) = {}
             al2 == ups[u].alone /\ (ok => u \notin Rivals(v, kind, t))
  <2>1. CASE u = v
    <3>1. ups'[u] = [NewUp EXCEPT !.pc = pc1, !.kind = kind, !.task = t, !.base = b, !.answer = a,
                                  !.alone = al]
      BY <1>2, <2>1 DEF BeginUpload
    <3>2. pc1 \in {"begin", "done"}
      OBVIOUS
    <3> HIDE DEF pc1, b, a, al
    <3>3. ups'[u].pc = pc1 /\ ups'[u].task = t
      BY <3>1 DEF NewUp
    <3>4. Existing(t)
      BY <1>2 DEF BeginUpload, Existing
    <3> QED
      BY <3>2, <3>3, <3>4 DEF UpStep
  <2>2. CASE u # v
    <3>1. ups'[u] = [ups[u] EXCEPT !.alone = al2]
      BY <1>2, <2>2 DEF BeginUpload
    <3> HIDE DEF al2
    <3>2. /\ ups'[u].pc = ups[u].pc /\ ups'[u].task = ups[u].task
          /\ ups'[u].ver = ups[u].ver /\ ups'[u].st = ups[u].st
      BY <1>0, <3>1 DEF UpRow
    <3> QED
      BY <3>2 DEF UpStep
  <2> QED
    BY <2>1, <2>2
<1>3. ASSUME NEW v \in Uploaders, UploadStep(v) PROVE UpStep(u)
  <2>1. CASE u # v
    <3>1. ups'[u] = ups[u]
      BY <1>0, <1>3, <2>1 DEF UploadStep, ReadLatestTask, ReadActive, WriteUpload
    <3> QED
      BY <3>1 DEF UpStep
  <2>2. CASE u = v /\ ReadLatestTask(u)
    <3> DEFINE st  == row[ups[u].task].status
               ver == row[ups[u].task].version
    <3>1. ups' = [ups EXCEPT ![u].pc = "active", ![u].st = st, ![u].ver = ver] /\ ups[u].pc = "begin"
      BY <2>2 DEF ReadLatestTask
    <3> HIDE DEF st, ver
    <3>2. ups'[u].pc = "active" /\ ups'[u].task = ups[u].task /\ ups'[u].st = st /\ ups'[u].ver = ver
      BY <1>0, <3>1 DEF UpRow
    <3> QED
      BY <3>1, <3>2 DEF UpStep, st, ver
  <2>3. CASE u = v /\ ReadActive(u)
    <3>1. PICK n : ups' = [ups EXCEPT ![u].pc = "write", ![u].next = n]
      BY <2>3 DEF ReadActive
    <3>2. /\ ups'[u].pc = "write" /\ ups'[u].task = ups[u].task
          /\ ups'[u].ver = ups[u].ver /\ ups'[u].st = ups[u].st
      BY <1>0, <3>1 DEF UpRow
    <3> QED
      BY <2>3, <3>2 DEF UpStep, ReadActive
  <2>4. CASE u = v /\ WriteUpload(u)
    <3>1. PICK x : ups' = [ups EXCEPT ![u] =
                        [ups[u] EXCEPT !.pc = "done", !.answer = x, !.st = NoStatus, !.ver = 0, !.next = 0]]
      BY <2>4 DEF WriteUpload
    <3>2. ups'[u].pc = "done"
      BY <1>0, <3>1 DEF UpRow
    <3> QED
      BY <3>2 DEF UpStep
  <2> QED
    BY <1>3, <2>1, <2>2, <2>3, <2>4 DEF UploadStep
<1>4. ASSUME NEW g \in Pages, PageStep(g) PROVE UNCHANGED ups
  BY <1>4 DEF PageStep, PlanAdvance, MoveOn, AskStatus, AskInput, ClosePage, Turn
<1>5. ASSUME NEW g \in Pages, NEW t \in InTasks, NEW list \in BOOLEAN, OpenPage(g, t, list)
      PROVE  UNCHANGED ups
  BY <1>5 DEF OpenPage, Turn
<1>6. ASSUME NEW t \in InTasks, CreateRow(t) \/ CancelRow(t) \/ WorkerMoves(t)
      PROVE  UNCHANGED ups
  BY <1>6 DEF CreateRow, CancelRow, WorkerMoves
<1>7. UNCHANGED inVars => UNCHANGED ups
  BY DEF inVars
<1>8. \/ UNCHANGED ups
      \/ \E v \in Uploaders, kind \in UploadKind, t \in InTasks, declared \in {"IMAGE", "VIDEO"} :
            \E base \in 0..input[kind][t].version : BeginUpload(v, kind, t, base, declared)
      \/ \E v \in Uploaders : UploadStep(v)
  BY <1>4, <1>5, <1>6, <1>7 DEF InNext
<1> QED
  BY <1>1, <1>2, <1>3, <1>8

LEMMA PageTurnNext ==
    ASSUME InTypeOK, PlansFresh, [InNext]_inVars, NEW g \in Pages
    PROVE  PageTurn(g)
<1>0. page \in [Pages -> PageRow] /\ page[g] \in PageRow
  BY TypesAre
<1>1. CASE UNCHANGED page
  BY <1>1 DEF PageTurn
<1>2. ASSUME NEW h \in Pages, NEW t \in InTasks, NEW list \in BOOLEAN, OpenPage(h, t, list)
      PROVE  PageTurn(g)
  <2> DEFINE pc1 == IF simulation /\ ~list THEN "plan" ELSE "ask"
             fed == Fed(t)
  <2>1. page' = [page EXCEPT ![h] = [IdlePage EXCEPT !.pc = pc1, !.task = t, !.after = fed]]
    BY <1>2 DEF OpenPage, Turn
  <2>2. pc1 \in {"plan", "ask"} /\ Existing(t)
    BY <1>2 DEF OpenPage, Existing
  <2> HIDE DEF pc1, fed
  <2>3. page'[g] = page[g] \/ (page'[g].pc = pc1 /\ page'[g].task = t)
    BY <1>0, <2>1 DEF IdlePage
  <2> QED
    BY <2>2, <2>3 DEF PageTurn
<1>3. ASSUME NEW h \in Pages, PageStep(h) PROVE PageTurn(g)
  <2>1. CASE g # h
    <3>1. page'[g] = page[g]
      BY <1>0, <1>3, <2>1 DEF PageStep, PlanAdvance, MoveOn, AskStatus, AskInput, ClosePage, Turn
    <3> QED
      BY <3>1 DEF PageTurn
  <2>2. page[g].pc # "idle" => page[g].task \in InTasks /\ Existing(page[g].task)
    BY <1>0 DEF PlansFresh, PageRow
  <2>3. CASE g = h /\ PlanAdvance(g)
    <3> DEFINE t    == page[g].task
               next == SimulationAdvance(row[t].status, Has(t))
               st   == row[t].status
               ver  == row[t].version
    <3>1. CASE next = NoStatus
      <4>1. page' = [page EXCEPT ![g] = [page[g] EXCEPT !.pc = "ask"]]
        BY <2>3, <3>1 DEF PlanAdvance, Turn
      <4>2. page'[g].pc = "ask" /\ page'[g].task = t
        BY <1>0, <4>1 DEF PageRow
      <4> QED
        BY <2>2, <2>3, <4>2 DEF PageTurn, PlanAdvance
    <3>2. CASE next # NoStatus
      <4>1. page' = [page EXCEPT ![g] = [page[g] EXCEPT !.pc = "move", !.st = st, !.ver = ver, !.next = next]]
        BY <2>3, <3>2 DEF PlanAdvance, Turn
      <4>2. st \in DOMAIN SimulationProgress /\ next = StepTarget[st]
        BY <3>2, AdvanceLegal
      <4>3. t \in InTasks /\ Existing(t)
        BY <2>2, <2>3 DEF PlanAdvance
      <4> HIDE DEF next, st, ver
      <4>4. page'[g] = [page[g] EXCEPT !.pc = "move", !.st = st, !.ver = ver, !.next = next]
        BY <1>0, <4>1
      <4>5. /\ page'[g].pc = "move" /\ page'[g].task = t /\ page'[g].st = st /\ page'[g].ver = ver
            /\ page'[g].next = next
        BY <1>0, <4>4 DEF PageRow
      <4> QED
        BY <2>3, <4>2, <4>3, <4>5 DEF PageTurn, PlanAdvance, st, ver
    <3> QED
      BY <3>1, <3>2
  <2>4. CASE g = h /\ MoveOn(g)
    <3>1. page'[g].pc = "ask" /\ page'[g].task = page[g].task
      BY <1>0, <2>4 DEF MoveOn, IdlePage
    <3> QED
      BY <2>2, <2>4, <3>1 DEF PageTurn, MoveOn
  <2>5. CASE g = h /\ AskStatus(g)
    <3>1. page'[g].pc \in {"input", "shown"} /\ page'[g].task = page[g].task
      BY <1>0, <2>5 DEF AskStatus, Turn, PageRow
    <3> QED
      BY <2>2, <2>5, <3>1 DEF PageTurn, AskStatus
  <2>6. CASE g = h /\ AskInput(g)
    <3> DEFINE w == ~Has(page[g].task)
    <3>1. page' = [page EXCEPT ![g] = [page[g] EXCEPT !.pc = "shown", !.waiting = w]]
      BY <2>6 DEF AskInput, Turn
    <3> HIDE DEF w
    <3>2. page'[g].pc = "shown" /\ page'[g].task = page[g].task
      BY <1>0, <3>1 DEF PageRow
    <3> QED
      BY <2>2, <2>6, <3>2 DEF PageTurn, AskInput
  <2>7. CASE g = h /\ ClosePage(g)
    BY <1>0, <2>7 DEF ClosePage, Turn, IdlePage, PageTurn
  <2> QED
    BY <1>3, <2>1, <2>3, <2>4, <2>5, <2>6, <2>7 DEF PageStep
<1>4. ASSUME NEW u \in Uploaders, UploadStep(u) PROVE UNCHANGED page
  BY <1>4 DEF UploadStep, ReadLatestTask, ReadActive, WriteUpload
<1>5. ASSUME NEW u \in Uploaders, NEW kind \in UploadKind, NEW t \in InTasks,
             NEW declared \in {"IMAGE", "VIDEO"}, NEW base \in 0..input[kind][t].version,
             BeginUpload(u, kind, t, base, declared)
      PROVE  UNCHANGED page
  BY <1>5 DEF BeginUpload
<1>6. ASSUME NEW t \in InTasks, CreateRow(t) \/ CancelRow(t) \/ WorkerMoves(t)
      PROVE  UNCHANGED page
  BY <1>6 DEF CreateRow, CancelRow, WorkerMoves
<1>7. UNCHANGED inVars => UNCHANGED page
  BY DEF inVars
<1>8. \/ UNCHANGED page
      \/ \E h \in Pages, t \in InTasks, list \in BOOLEAN : OpenPage(h, t, list)
      \/ \E h \in Pages : PageStep(h)
  BY <1>4, <1>5, <1>6, <1>7 DEF InNext
<1> QED
  BY <1>1, <1>2, <1>3, <1>8

(* A step that turns a reader's page or upload leaves the rows alone, as   *)
(* far as what it reads is concerned.                                      *)
LEMMA ReadersLeaveRows ==
    ASSUME InTypeOK, [InNext]_inVars
    PROVE  /\ \A u \in Uploaders : ups[u].pc = "begin" /\ ups'[u].pc = "active" => UNCHANGED row
           /\ \A g \in Pages : page[g].pc # "move" /\ page'[g].pc = "move" => UNCHANGED row
<1>0. page \in [Pages -> PageRow] /\ ups \in [Uploaders -> UpRow]
  BY TypesAre
<1>1. ASSUME NEW t \in InTasks, CreateRow(t) \/ CancelRow(t) \/ WorkerMoves(t)
      PROVE  UNCHANGED <<ups, page>>
  BY <1>1 DEF CreateRow, CancelRow, WorkerMoves
<1>2. ASSUME NEW u \in Uploaders, WriteUpload(u)
      PROVE  UNCHANGED page /\ \A v \in Uploaders : ups'[v].pc = "active" => ups[v].pc # "begin"
  <2>1. PICK x : ups' = [ups EXCEPT ![u] =
                      [ups[u] EXCEPT !.pc = "done", !.answer = x, !.st = NoStatus, !.ver = 0, !.next = 0]]
    BY <1>2 DEF WriteUpload
  <2>2. ups[u] \in UpRow /\ \A v \in Uploaders : v # u => ups'[v] = ups[v]
    BY <1>0, <2>1
  <2>3. ups'[u].pc = "done"
    BY <1>0, <2>1, <2>2 DEF UpRow
  <2> QED
    BY <1>2, <2>2, <2>3 DEF WriteUpload
<1>3. ASSUME NEW h \in Pages, MoveOn(h)
      PROVE  UNCHANGED ups /\ \A g \in Pages : page'[g].pc = "move" => page[g].pc = "move"
  BY <1>0, <1>3 DEF MoveOn, IdlePage
<1>4. \/ UNCHANGED row
      \/ \E t \in InTasks : CreateRow(t) \/ CancelRow(t) \/ WorkerMoves(t)
      \/ \E u \in Uploaders : WriteUpload(u)
      \/ \E g \in Pages : MoveOn(g)
  <2>1. ASSUME NEW u \in Uploaders, NEW kind \in UploadKind, NEW t \in InTasks,
               NEW declared \in {"IMAGE", "VIDEO"}, NEW base \in 0..input[kind][t].version,
               BeginUpload(u, kind, t, base, declared)
        PROVE  UNCHANGED row
    BY <2>1 DEF BeginUpload
  <2>2. ASSUME NEW u \in Uploaders, UploadStep(u), ~WriteUpload(u) PROVE UNCHANGED row
    BY <2>2 DEF UploadStep, ReadLatestTask, ReadActive
  <2>3. ASSUME NEW g \in Pages, PageStep(g), ~MoveOn(g) PROVE UNCHANGED row
    BY <2>3 DEF PageStep, PlanAdvance, AskStatus, AskInput, ClosePage, Turn
  <2>4. ASSUME NEW g \in Pages, NEW t \in InTasks, NEW list \in BOOLEAN, OpenPage(g, t, list)
        PROVE  UNCHANGED row
    BY <2>4 DEF OpenPage, Turn
  <2> QED
    BY <2>1, <2>2, <2>3, <2>4 DEF InNext, inVars
<1> QED
  BY <1>1, <1>2, <1>3, <1>4

LEMMA PlansFreshNext ==
    ASSUME InTypeOK, InTypeOK', PlansFresh, [InNext]_inVars
    PROVE  PlansFresh'
<1>0. /\ page \in [Pages -> PageRow] /\ ups \in [Uploaders -> UpRow]
      /\ page' \in [Pages -> PageRow] /\ ups' \in [Uploaders -> UpRow]
      /\ \A t \in InTasks : row[t].version \in Nat /\ row'[t].version \in Nat
  BY DEF InTypeOK, PageRow, UpRow
<1>1. \A t \in InTasks : Existing(t) =>
         /\ Existing(t)' /\ row'[t].version >= row[t].version
         /\ row'[t].version = row[t].version => row'[t].status = row[t].status
  BY RowStepNext, RowMonotone DEF Existing
<1>2. ASSUME NEW t \in InTasks, NEW ver \in Nat, NEW st, Seen(t, ver, st)
      PROVE  Existing(t)' /\ ver <= row'[t].version /\ (ver = row'[t].version => st = row'[t].status)
  <2>1. /\ row[t].version \in Nat /\ row'[t].version \in Nat /\ ver <= row[t].version
        /\ row'[t].version >= row[t].version /\ Existing(t)' /\ Existing(t)
    BY <1>0, <1>1, <1>2 DEF Seen
  <2> QED
    BY <1>1, <1>2, <2>1 DEF Seen
<1>3. ASSUME NEW t \in InTasks, Existing(t), UNCHANGED row
      PROVE  /\ Existing(t)' /\ row[t].version <= row'[t].version
             /\ row[t].version = row'[t].version => row[t].status = row'[t].status
  BY <1>0, <1>3 DEF Existing
<1>4. ASSUME NEW u \in Uploaders
      PROVE  /\ Uploading(u)' => row'[ups'[u].task].status # NoStatus
             /\ ups'[u].pc \in {"active", "write"} =>
                   /\ ups'[u].ver <= row'[ups'[u].task].version
                   /\ ups'[u].ver = row'[ups'[u].task].version => ups'[u].st = row'[ups'[u].task].status
  <2>0. ups[u].task \in InTasks /\ ups[u].ver \in Nat
    BY <1>0 DEF UpRow
  <2>1. UpStep(u)
    BY UpStepNext
  <2>2. CASE ups'[u].pc = "done"
    BY <2>2 DEF Uploading
  <2>3. CASE ups'[u].pc = "begin" /\ Existing(ups'[u].task) /\ ups'[u].task \in InTasks
    BY <1>1, <2>3 DEF Existing
  <2>4. CASE /\ ups[u].pc = "begin" /\ ups'[u].pc = "active" /\ ups'[u].task = ups[u].task
             /\ ups'[u].st = row[ups[u].task].status /\ ups'[u].ver = row[ups[u].task].version
    <3>1. UNCHANGED row /\ Existing(ups[u].task)
      BY <2>4, ReadersLeaveRows DEF PlansFresh, Uploading
    <3> QED
      BY <1>3, <2>0, <2>4, <3>1 DEF Existing
  <2>5. CASE /\ ups'[u].task = ups[u].task /\ ups'[u].ver = ups[u].ver /\ ups'[u].st = ups[u].st
             /\ \/ ups'[u].pc = ups[u].pc
                \/ ups[u].pc = "active" /\ ups'[u].pc = "write"
    <3>1. Uploading(u)' => Existing(ups[u].task)
      BY <2>5 DEF PlansFresh, Uploading
    <3>2. ups'[u].pc \in {"active", "write"} => Seen(ups[u].task, ups[u].ver, ups[u].st)
      BY <2>5 DEF PlansFresh
    <3> QED
      BY <1>1, <1>2, <2>0, <2>5, <3>1, <3>2 DEF Existing
  <2> QED
    BY <2>1, <2>2, <2>3, <2>4, <2>5 DEF UpStep
<1>5. ASSUME NEW g \in Pages
      PROVE  /\ page'[g].pc # "idle" => row'[page'[g].task].status # NoStatus
             /\ page'[g].pc = "move" =>
                  /\ page'[g].ver <= row'[page'[g].task].version
                  /\ page'[g].ver = row'[page'[g].task].version => page'[g].st = row'[page'[g].task].status
                  /\ page'[g].st \in DOMAIN SimulationProgress /\ page'[g].next = StepTarget[page'[g].st]
  <2>0. page[g].task \in InTasks /\ page[g].ver \in Nat
    BY <1>0 DEF PageRow
  <2>1. PageTurn(g)
    BY PageTurnNext
  <2>2. CASE page'[g] = page[g]
    <3>1. page[g].pc # "idle" => Existing(page[g].task)
      BY DEF PlansFresh
    <3>2. page[g].pc = "move" =>
            /\ Seen(page[g].task, page[g].ver, page[g].st)
            /\ page[g].st \in DOMAIN SimulationProgress /\ page[g].next = StepTarget[page[g].st]
      BY DEF PlansFresh
    <3> QED
      BY <1>1, <1>2, <2>0, <2>2, <3>1, <3>2 DEF Existing
  <2>3. CASE page'[g].pc = "idle"
    BY <2>3
  <2>4. CASE /\ page'[g].pc \in {"plan", "ask", "input", "shown"}
             /\ page'[g].task \in InTasks /\ Existing(page'[g].task)
    BY <1>1, <2>4 DEF Existing
  <2>5. CASE /\ page[g].pc # "move" /\ page'[g].pc = "move"
             /\ page'[g].task \in InTasks /\ Existing(page'[g].task)
             /\ page'[g].st = row[page'[g].task].status /\ page'[g].ver = row[page'[g].task].version
             /\ page'[g].st \in DOMAIN SimulationProgress /\ page'[g].next = StepTarget[page'[g].st]
    <3>1. UNCHANGED row
      BY <2>5, ReadersLeaveRows
    <3> QED
      BY <1>3, <2>5, <3>1 DEF Existing
  <2> QED
    BY <2>1, <2>2, <2>3, <2>4, <2>5 DEF PageTurn
<1> QED
  BY <1>4, <1>5 DEF PlansFresh, Existing, Seen, Uploading

-----------------------------------------------------------------------------
(* The ledger of a task is settled with its status, and so every step is   *)
(* one of the contract or invisible to it.                                 *)

SettledAs(st, set) ==
    /\ Held \in set <=> st # NoStatus
    /\ Committed \in set <=> st = "SUCCEEDED"
    /\ ReleasedCancel \in set <=> st = "CANCELED"

RowsSettled == \A t \in InTasks : SettledAs(row[t].status, rows[t])

LEMMA LedgerApart ==
    /\ Held # Committed /\ Held # ReleasedCancel /\ Committed # ReleasedCancel
    /\ Held # ReleasedFailure /\ Committed # ReleasedFailure /\ ReleasedCancel # ReleasedFailure
BY DEF Held, Committed, ReleasedCancel, ReleasedFailure

(* Where a legal move leads, and what it adds. *)
LEMMA MoveSettles ==
    ASSUME NEW from, NEW to, NEW set, SettledAs(from, set),
           \/ from \in CANCELABLE_STATUS /\ to = "CANCELED"
           \/ from \in DOMAIN SimulationProgress /\ to = StepTarget[from]
    PROVE  /\ SettledAs(to, set \cup PostTransitionLedger(to))
           /\ InPhase(from) = "running"
           /\ to \in {"PREPROCESSING", "DETECTING", "INPAINTING", "PACKAGING", "SUCCEEDED", "CANCELED"}
<1>1. /\ from \in {"QUEUED", "PREPROCESSING", "DETECTING", "INPAINTING", "PACKAGING"}
      /\ to \in {"PREPROCESSING", "DETECTING", "INPAINTING", "PACKAGING", "SUCCEEDED", "CANCELED"}
  BY DEF CANCELABLE_STATUS, SimulationProgress, StepTarget
<1>2. InPhase(from) = "running"
  BY <1>1, Zenon DEF InPhase, NoStatus
<1>3. \A x : /\ x \in PostTransitionLedger(to) => x = Committed \/ x = ReleasedCancel
             /\ Committed \in PostTransitionLedger(to) <=> to = "SUCCEEDED"
             /\ ReleasedCancel \in PostTransitionLedger(to) <=> to = "CANCELED"
  BY <1>1, LedgerApart DEF PostTransitionLedger
<1>4. SettledAs(to, set \cup PostTransitionLedger(to))
  BY <1>1, <1>3, LedgerApart DEF SettledAs, NoStatus
<1> QED
  BY <1>1, <1>2, <1>4

LEMMA RowsSettledStep ==
    ASSUME InTypeOK, RowsSettled, RowStep
    PROVE  RowsSettled'
<1>0. row \in [InTasks -> TaskRow] /\ rows \in [InTasks -> SUBSET LedgerRow]
  BY TypesAre DEF RowsTyped
<1>1. ASSUME NEW t \in InTasks, Started(t) PROVE RowsSettled'
  <2>1. SettledAs("QUEUED", {Held})
    BY LedgerApart DEF SettledAs, NoStatus
  <2>2. /\ row'[t].status = "QUEUED" /\ rows'[t] = {Held}
        /\ \A s \in InTasks : s # t => row'[s] = row[s] /\ rows'[s] = rows[s]
    BY <1>0, <1>1 DEF Started
  <2> QED
    BY <2>1, <2>2 DEF RowsSettled
<1>2. ASSUME NEW t \in InTasks, Touched(t) PROVE RowsSettled'
  <2>1. \A s \in InTasks : \/ row'[s].status = row[s].status
                           \/ row[s].status = "QUEUED" /\ row'[s].status = "PREPROCESSING"
    BY <1>0, <1>2 DEF Touched
  <2>2. UNCHANGED rows
    BY <1>2 DEF Touched
  <2> QED
    BY <2>1, <2>2 DEF RowsSettled, SettledAs, NoStatus
<1>3. ASSUME NEW t \in InTasks, NEW to \in TaskStatus, MovedTo(t, to) PROVE RowsSettled'
  <2>1. /\ row'[t].status = to /\ rows'[t] = rows[t] \cup PostTransitionLedger(to)
        /\ \A s \in InTasks : s # t => row'[s] = row[s] /\ rows'[s] = rows[s]
    BY <1>0, <1>3 DEF MovedTo, MoveTask
  <2>2. SettledAs(to, rows[t] \cup PostTransitionLedger(to))
    BY <1>3, MoveSettles DEF MovedTo, RowsSettled
  <2> QED
    BY <2>1, <2>2 DEF RowsSettled
<1> QED
  BY <1>1, <1>2, <1>3 DEF RowStep, RowsSettled

InPhases  == [t \in InTasks |-> InPhase(row[t].status)]
InCharges == [t \in InTasks |-> InCharge(rows[t])]
InNotices == [e \in InEventId |-> InNotice(e)]

LEMMA ChargeSettled ==
    ASSUME NEW st, NEW set, SettledAs(st, set)
    PROVE  InCharge(set) = IF st = "SUCCEEDED" THEN "charged" ELSE IF st = "CANCELED" THEN "released"
                           ELSE IF st # NoStatus THEN "reserved" ELSE "none"
BY DEF InCharge, SettledAs

LEMMA NoticeUnseen ==
    ASSUME InTypeOK, NEW t \in InTasks, NEW type \in EventType, type \notin NoticeEvent,
           events' = Append(events, [type |-> type, task |-> t])
    PROVE  InNotices' = InNotices
<1>0. Len(events) \in Nat /\ Len(events') = Len(events) + 1 /\ events'[Len(events) + 1].type = type
      /\ \A e \in 1..Len(events) : events'[e] = events[e]
  BY DEF InTypeOK
<1>1. InEventId \subseteq Nat \ {0}
  BY InputAssumption, FS_CardinalityType
<1>2. ASSUME NEW e \in InEventId PROVE InNotice(e)' = InNotice(e)
  <2>1. CASE e \in 1..Len(events)
    BY <1>0, <1>1, <2>1 DEF InNotice
  <2>2. CASE e = Len(events) + 1
    BY <1>0, <1>1, <2>2 DEF InNotice
  <2>3. CASE e > Len(events) + 1
    BY <1>0, <1>1, <2>3 DEF InNotice
  <2> QED
    BY <1>0, <1>1, <2>1, <2>2, <2>3
<1> QED
  BY <1>2 DEF InNotices

LEMMA NoticePosted ==
    ASSUME InTypeOK, NEW t \in InTasks, NEW type \in {"task.succeeded", "task.canceled"},
           Room(1), events' = Append(events, [type |-> type, task |-> t])
    PROVE  \E e \in InEventId :
              /\ InNotices[e] = InContract!Blank
              /\ InNotices' = [InNotices EXCEPT ![e] =
                    [outcome |-> IF type = "task.succeeded" THEN "succeeded" ELSE "canceled", task |-> t]]
<1> DEFINE new == [outcome |-> IF type = "task.succeeded" THEN "succeeded" ELSE "canceled", task |-> t]
<1>1. InEventId = 1..Cardinality(InEventId) /\ Cardinality(InEventId) \in Nat
  BY InputAssumption, FS_CardinalityType
<1>2. Len(events) \in Nat
  BY DEF InTypeOK
<1>3. PICK n \in InEventId : n = Len(events) + 1
  BY <1>1, <1>2 DEF Room
<1>4. /\ Len(events') = n /\ events'[n].type = type /\ events'[n].task = t
      /\ \A e \in 1..Len(events) : events'[e] = events[e]
  BY <1>3 DEF InTypeOK
<1>5. InNotices[n] = InContract!Blank
  BY <1>2, <1>3 DEF InNotices, InNotice, InContract!Blank
<1>6. InNotice(n)' = new
  <2>1. ~(n > Len(events')) /\ events'[n].type \in NoticeEvent
    BY <1>2, <1>3, <1>4 DEF NoticeEvent
  <2> QED
    BY <1>4, <2>1 DEF InNotice
<1>7. ASSUME NEW e \in InEventId, e # n PROVE InNotice(e)' = InNotice(e)
  <2>1. CASE e \in 1..Len(events)
    BY <1>1, <1>2, <1>3, <1>4, <2>1 DEF InNotice
  <2>2. CASE e > n
    BY <1>1, <1>2, <1>3, <1>4, <2>2 DEF InNotice
  <2> QED
    BY <1>1, <1>2, <1>3, <1>7, <2>1, <2>2
<1> HIDE DEF new
<1>8. InNotices' = [InNotices EXCEPT ![n] = new]
  BY <1>6, <1>7 DEF InNotices
<1> QED
  BY <1>5, <1>8 DEF new

LEMMA InContractNext ==
    ASSUME InTypeOK, RowsSettled, RowStep
    PROVE  [InContract!Next]_(InContract!vars)
<1>0. row \in [InTasks -> TaskRow] /\ rows \in [InTasks -> SUBSET LedgerRow]
  BY TypesAre DEF RowsTyped
<1>a. InPhases' = InPhases /\ InCharges' = InCharges /\ InNotices' = InNotices => UNCHANGED InContract!vars
  BY DEF InPhases, InCharges, InNotices, InContract!vars
<1>1. CASE UNCHANGED <<row, rows, events>>
  BY <1>1, <1>a DEF InPhases, InCharges, InNotices, InNotice
<1>2. ASSUME NEW t \in InTasks, Started(t) PROVE InContract!Start(t)
  <2>1. InPhase(NoStatus) = "none" /\ InPhase("QUEUED") = "running"
    BY Zenon DEF InPhase, NoStatus
  <2>2. InPhases[t] = "none" /\ InPhases' = [InPhases EXCEPT ![t] = "running"]
    BY <1>0, <1>2, <2>1 DEF Started, Existing, InPhases
  <2>3. InCharge({Held}) = "reserved"
    BY LedgerApart DEF InCharge
  <2>4. InCharges' = [InCharges EXCEPT ![t] = "reserved"]
    BY <1>0, <1>2, <2>3 DEF Started, InCharges
  <2>5. InNotices' = InNotices
    <3>1. "task.created" \in EventType /\ "task.created" \notin NoticeEvent /\ "task.created" # NoEventType
      BY DEF EventType, TriggerEvent, NoticeEvent, NoEventType
    <3>2. events' = Append(events, [type |-> "task.created", task |-> t])
      BY <1>2, <3>1 DEF Started, AnnounceInput
    <3> QED
      BY <3>1, <3>2, NoticeUnseen
  <2> QED
    BY <2>2, <2>4, <2>5 DEF InContract!Start, InPhases, InCharges, InNotices
<1>3. ASSUME NEW t \in InTasks, Touched(t) PROVE UNCHANGED InContract!vars
  <2>1. InPhase("QUEUED") = "running" /\ InPhase("PREPROCESSING") = "running"
    BY Zenon DEF InPhase, NoStatus
  <2>2. \A s \in InTasks : \/ row'[s].status = row[s].status
                           \/ row[s].status = "QUEUED" /\ row'[s].status = "PREPROCESSING"
    BY <1>0, <1>3 DEF Touched
  <2>3. InPhases' = InPhases
    BY <2>1, <2>2 DEF InPhases
  <2>4. InCharges' = InCharges
    BY <1>3 DEF Touched, InCharges
  <2>5. InNotices' = InNotices
    <3>1. "task.masked" \in EventType /\ "task.masked" \notin NoticeEvent /\ "task.masked" # NoEventType
      BY DEF EventType, TriggerEvent, NoticeEvent, NoEventType
    <3>2. events' = Append(events, [type |-> "task.masked", task |-> t])
      BY <1>3, <3>1 DEF Touched, AnnounceInput
    <3> QED
      BY <3>1, <3>2, NoticeUnseen
  <2> QED
    BY <1>a, <2>3, <2>4, <2>5
<1>4. ASSUME NEW t \in InTasks, NEW to \in TaskStatus, MovedTo(t, to)
      PROVE  UNCHANGED InContract!vars \/ \E outcome \in InContract!Outcome : InContract!End(t, outcome)
  <2> DEFINE from == row[t].status
  <2>1. /\ SettledAs(from, rows[t]) /\ SettledAs(to, rows[t] \cup PostTransitionLedger(to))
        /\ InPhase(from) = "running"
        /\ to \in {"PREPROCESSING", "DETECTING", "INPAINTING", "PACKAGING", "SUCCEEDED", "CANCELED"}
    BY <1>4, MoveSettles DEF MovedTo, RowsSettled
  <2>2. /\ row'[t].status = to /\ rows'[t] = rows[t] \cup PostTransitionLedger(to)
        /\ \A s \in InTasks : s # t => row'[s] = row[s] /\ rows'[s] = rows[s]
        /\ rows' = [rows EXCEPT ![t] = rows[t] \cup PostTransitionLedger(to)]
        /\ AnnounceInput(t, PostTransitionEvent(from, to))
    BY <1>0, <1>4 DEF MovedTo, MoveTask
  <2>3. InPhases' = [InPhases EXCEPT ![t] = InPhase(to)]
    BY <1>0, <2>2 DEF InPhases
  <2>4. InCharges' = [InCharges EXCEPT ![t] = InCharge(rows[t] \cup PostTransitionLedger(to))]
    BY <1>0, <2>2 DEF InCharges
  <2>5. CASE to \in {"PREPROCESSING", "DETECTING", "INPAINTING", "PACKAGING"}
    <3>1. InPhase(to) = "running"
      BY <2>5, Zenon DEF InPhase, NoStatus
    <3>2. InPhases' = InPhases
      BY <2>1, <2>3, <3>1 DEF InPhases
    <3>3. PostTransitionLedger(to) = {}
      BY <2>5 DEF PostTransitionLedger
    <3>4. InCharges' = InCharges
      BY <2>4, <3>3 DEF InCharges
    <3>5. PostTransitionEvent(from, to) = NoEventType
      BY <2>5, Zenon DEF PostTransitionEvent
    <3>6. InNotices' = InNotices
      BY <2>2, <3>5 DEF AnnounceInput, InNotices, InNotice
    <3> QED
      BY <1>a, <3>2, <3>4, <3>6
  <2>6. CASE to \in {"SUCCEEDED", "CANCELED"}
    <3> DEFINE outcome == IF to = "SUCCEEDED" THEN "succeeded" ELSE "canceled"
               type    == IF to = "SUCCEEDED" THEN "task.succeeded" ELSE "task.canceled"
    <3>1. InPhase(to) = outcome /\ PostTransitionEvent(from, to) = type
      <4>1. InPhase("SUCCEEDED") = "succeeded" /\ InPhase("CANCELED") = "canceled"
        BY Zenon DEF InPhase, NoStatus
      <4>2. PostTransitionEvent(from, "SUCCEEDED") = "task.succeeded"
        BY Zenon DEF PostTransitionEvent
      <4>3. PostTransitionEvent(from, "CANCELED") = "task.canceled"
        BY Zenon DEF PostTransitionEvent
      <4> QED
        BY <2>6, <4>1, <4>2, <4>3
    <3>2. InCharge(rows[t] \cup PostTransitionLedger(to)) = IF outcome = "succeeded" THEN "charged" ELSE "released"
      BY <2>1, <2>6, ChargeSettled
    <3>3. type \in {"task.succeeded", "task.canceled"} /\ type # NoEventType
          /\ outcome = (IF type = "task.succeeded" THEN "succeeded" ELSE "canceled")
      BY DEF NoEventType
    <3>4. Room(1) /\ events' = Append(events, [type |-> type, task |-> t])
      BY <2>2, <3>1, <3>3 DEF AnnounceInput
    <3>5. outcome \in InContract!Outcome
      BY DEF InContract!Outcome
    <3> HIDE DEF type, outcome
    <3>6. \E e \in InEventId : /\ InNotices[e] = InContract!Blank
                               /\ InNotices' = [InNotices EXCEPT ![e] = [outcome |-> outcome, task |-> t]]
      BY <3>3, <3>4, NoticePosted
    <3>7. InContract!Post(t, outcome)
      BY <3>6 DEF InContract!Post, InNotices
    <3>8. InPhases[t] = "running"
      BY <2>1 DEF InPhases
    <3> QED
      BY <2>3, <2>4, <3>1, <3>2, <3>5, <3>7, <3>8 DEF InContract!End, InPhases, InCharges
  <2> QED
    BY <2>1, <2>5, <2>6
<1> QED
  BY <1>1, <1>2, <1>3, <1>4, <1>a DEF RowStep, InContract!Next

PagesInv == InInv /\ PlansFresh /\ RowsSettled

(* Pages that move tasks on while others upload, cancel and work carry out *)
(* the contract: whoever ends a task, it is charged and announced once.    *)
THEOREM PagesDoAsPromised == InSpec => PagesImplementContract
<1>1. InInit => PagesInv
  <2> SUFFICES ASSUME InInit PROVE PlansFresh /\ RowsSettled
    BY InInit_InInv DEF PagesInv
  <2>1. PlansFresh
    BY DEF InInit, PlansFresh, Uploading, NewUp, IdlePage
  <2>2. RowsSettled
    BY DEF InInit, RowsSettled, SettledAs, NoStatus
  <2> QED
    BY <2>1, <2>2
<1>2. InInit => InContract!Init
  <2> SUFFICES ASSUME InInit PROVE InContract!Init
    OBVIOUS
  <2>1. InPhase(NoStatus) = "none" /\ InCharge({}) = "none"
    BY Zenon DEF InPhase, InCharge, NoStatus
  <2>2. \A e \in InEventId : InNotice(e) = InContract!Blank
    <3>1. Len(events) = 0 /\ \A e \in InEventId : e > 0
      BY InputAssumption, FS_CardinalityType DEF InInit
    <3> QED
      BY <3>1 DEF InNotice, InContract!Blank
  <2> QED
    BY <2>1, <2>2 DEF InInit, InContract!Init
<1>3. PagesInv /\ [InNext]_inVars => PagesInv' /\ [InContract!Next]_(InContract!vars)
  <2> SUFFICES ASSUME PagesInv, [InNext]_inVars
               PROVE  PagesInv' /\ [InContract!Next]_(InContract!vars)
    OBVIOUS
  <2>1. InInv'
    BY InTypeStep, FitStep, SeeStep DEF PagesInv, InInv
  <2>2. RowStep
    BY RowStepNext DEF PagesInv, InInv
  <2>3. PlansFresh'
    BY <2>1, PlansFreshNext DEF PagesInv, InInv
  <2> QED
    BY <2>1, <2>2, <2>3, RowsSettledStep, InContractNext DEF PagesInv, InInv
<1> QED
  BY <1>1, <1>2, <1>3, PTL DEF InSpec, PagesImplementContract, InContract!Spec
================================================================================
