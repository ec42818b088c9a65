----------------------------- MODULE PhotoProofs -----------------------------
(***************************************************************************)
(* Proofs about Photo, for frames of any height and any number of frames,  *)
(* photos and lives of the process.                                        *)
(***************************************************************************)
EXTENDS Photo, SequenceTheorems, TLAPS

USE PhotoAssumption

-----------------------------------------------------------------------------
(***************************************************************************)
(* The inductive invariant.                                                *)
(***************************************************************************)

(* Each line of the copy is of the latest frame or of the one before it.   *)
Copying ==
  /\ uncopied # {} => latest > 0
  /\ \A r \in Line : current_frame[r] = IF r \in uncopied THEN latest - 1 ELSE latest

Complete == IF uncopied = {} THEN latest ELSE latest - 1

(* No line is older than frame s, and a lower one is at most one frame     *)
(* older than an upper one.                                                *)
Coherent(lines, s) ==
  /\ \A r \in 1 .. Len(lines) : lines[r] >= s
  /\ \A upper, lower \in 1 .. Len(lines) : upper < lower => lines[upper] <= lines[lower] + 1

Converting ==
  /\ since <= Complete
  /\ \A r \in 1 .. Len(picbuf) : picbuf[r] <= latest
  /\ Coherent(picbuf, since)
  /\ pc = "convert" => picid < MaxPhotos

(* The file being written holds the first lines of picbuf. *)
Writing ==
  pc = "scanlines" =>
    /\ name \in DOMAIN files /\ ~files[name].whole
    /\ files[name].life = life /\ files[name].since = since
    /\ Len(picbuf) = Height /\ Len(files[name].lines) <= Height
    /\ \A r \in 1 .. Len(files[name].lines) : files[name].lines[r] = picbuf[r]

(* The photos of this life have the names that were used up. *)
NamesUsed ==
  \A n \in DOMAIN files : files[n].life <= life /\ (files[n].life = life => n < picid)

Stored ==
  \A n \in DOMAIN files : files[n].whole =>
    Len(files[n].lines) = Height /\ Coherent(files[n].lines, files[n].since)

IInv == TypeOK /\ Copying /\ Converting /\ Writing /\ NamesUsed /\ Stored

-----------------------------------------------------------------------------
(***************************************************************************)
(* Operators.                                                              *)
(***************************************************************************)

Frame == 0 .. MaxFrames

(* A line that is not older than frame s, and at most one frame older than *)
(* every line before it, continues a coherent photo.                       *)
LEMMA AppendCoherent ==
  ASSUME NEW lines \in Seq(Frame), NEW s \in Frame, NEW e \in Frame,
         Coherent(lines, s), e >= s, \A r \in 1 .. Len(lines) : lines[r] <= e + 1
  PROVE  /\ Append(lines, e) \in Seq(Frame) /\ Len(Append(lines, e)) = Len(lines) + 1
         /\ Append(lines, e)[Len(lines) + 1] = e
         /\ \A r \in 1 .. Len(lines) : Append(lines, e)[r] = lines[r]
         /\ Coherent(Append(lines, e), s)
<1>. DEFINE more == Append(lines, e)
<1>1. /\ more \in Seq(Frame) /\ Len(more) = Len(lines) + 1 /\ more[Len(lines) + 1] = e
      /\ \A r \in 1 .. Len(lines) : more[r] = lines[r]
  BY AppendProperties
<1>2. Len(lines) \in Nat /\ \A r \in 1 .. Len(more) : more[r] \in Frame
  BY <1>1, LenProperties, ElementOfSeq
<1>. HIDE DEF more
<1>3. \A r \in 1 .. Len(more) : more[r] >= s
  BY <1>1, <1>2 DEF Coherent
<1>4. ASSUME NEW upper \in 1 .. Len(more), NEW lower \in 1 .. Len(more), upper < lower
      PROVE  more[upper] <= more[lower] + 1
  <2>1. upper \in 1 .. Len(lines)
    BY <1>1, <1>2, <1>4
  <2>2. CASE lower = Len(lines) + 1
    BY <1>1, <2>1, <2>2
  <2>3. CASE lower \in 1 .. Len(lines)
    BY <1>1, <1>4, <2>1, <2>3 DEF Coherent
  <2>. QED  BY <1>1, <1>2, <2>2, <2>3
<1>5. Coherent(more, s)
  BY <1>3, <1>4 DEF Coherent
<1>. QED  BY <1>1, <1>5 DEF more

(* Before the first line. *)
LEMMA EmptyCoherent ==
  /\ <<>> \in Seq(Frame) /\ Len(<<>>) = 0
  /\ \A s : Coherent(<<>>, s)
<1>1. <<>> \in Seq(Frame) /\ Len(<<>>) = 0
  BY EmptySeq
<1>. QED  BY <1>1 DEF Coherent

(* The inductive invariant in the parts that the steps disturb: the types  *)
(* of the copy, of the main thread and of the files.                       *)
CopyType ==
  /\ current_frame \in [Line -> Frame]
  /\ latest \in Frame /\ uncopied \subseteq Line

MainType ==
  /\ pc \in {"idle", "convert", "scanlines", "exit"}
  /\ picbuf \in Seq(Frame) /\ Len(picbuf) <= Height
  /\ picid \in 0 .. MaxPhotos /\ name \in 0 .. MaxPhotos
  /\ since \in Frame /\ life \in 1 .. MaxLives

FilesType ==
  /\ DOMAIN files \subseteq 0 .. MaxPhotos - 1
  /\ \A n \in DOMAIN files : files[n] \in File

(* The type invariant, by its parts. *)
LEMMA TypeParts ==
  /\ TypeOK <=> CopyType /\ MainType /\ FilesType
  /\ TypeOK' <=> CopyType' /\ MainType' /\ FilesType'
BY DEF TypeOK, CopyType, MainType, FilesType, Frame

-----------------------------------------------------------------------------
(***************************************************************************)
(* The steps of the preview thread.                                        *)
(***************************************************************************)

(* They leave the main thread and the files alone, and the frame that is   *)
(* complete never gets older.                                              *)
LEMMA CopyIInv ==
  ASSUME IInv, CopyType', Copying', Complete <= Complete', latest <= latest',
         UNCHANGED <<pc, picbuf, picid, name, files, since, life>>
  PROVE  IInv'
<1>0. TypeOK /\ Copying /\ Converting /\ Writing /\ NamesUsed /\ Stored
  BY DEF IInv
<1>1. TypeOK'
  BY <1>0, TypeParts DEF MainType, FilesType
<1>2. Converting'
  <2>1. /\ since \in Int /\ latest \in Int /\ latest' \in Int
        /\ \A r \in 1 .. Len(picbuf) : picbuf[r] \in Int
    <3>1. picbuf \in Seq(Frame)
      BY <1>0 DEF TypeOK, Frame
    <3>. QED  BY <1>0, <1>1, <3>1, ElementOfSeq DEF TypeOK, Frame
  <2>2. Complete \in Int /\ Complete' \in Int
    BY <2>1 DEF Complete
  <2>. QED  BY <1>0, <2>1, <2>2 DEF Converting, Coherent
<1>3. Writing' /\ NamesUsed' /\ Stored'
  BY <1>0 DEF Writing, NamesUsed, Stored, Coherent
<1>. QED  BY <1>1, <1>2, <1>3 DEF IInv

(* Each action preserves the inductive invariant. *)
LEMMA DequeueIInv ==
  ASSUME IInv, Dequeue
  PROVE  IInv'
<1>0. CopyType /\ Copying
  BY TypeParts DEF IInv
<1>1. CopyType'
  BY <1>0 DEF Dequeue, CopyType, Copied, Frame
<1>2. Copying'
  BY <1>0 DEF Dequeue, CopyType, Copying, Copied, Frame
<1>3. Complete <= Complete' /\ latest <= latest'
  BY <1>0 DEF Dequeue, CopyType, Complete, Copied, Frame, Line
<1>. QED  BY <1>1, <1>2, <1>3, CopyIInv DEF Dequeue

LEMMA CopyLineIInv ==
  ASSUME IInv, NEW r \in Line, CopyLine(r)
  PROVE  IInv'
<1>0. CopyType /\ Copying
  BY TypeParts DEF IInv
<1>1. CopyType'
  BY <1>0 DEF CopyLine, CopyType
<1>2. Copying'
  <2>1. ASSUME NEW l \in Line
        PROVE  current_frame'[l] = IF l \in uncopied' THEN latest' - 1 ELSE latest'
    BY <1>0 DEF CopyLine, CopyType, Copying
  <2>. QED  BY <1>0, <2>1 DEF CopyLine, Copying
<1>3. Complete <= Complete' /\ latest <= latest'
  BY <1>0 DEF CopyLine, CopyType, Complete, Frame
<1>. QED  BY <1>1, <1>2, <1>3, CopyIInv DEF CopyLine

-----------------------------------------------------------------------------
(***************************************************************************)
(* The steps of the main thread.                                           *)
(***************************************************************************)

LEMMA TakePhotoIInv ==
  ASSUME IInv, do_takephoto
  PROVE  IInv'
<1>0. /\ CopyType /\ MainType /\ FilesType
      /\ Copying /\ Converting /\ Writing /\ NamesUsed /\ Stored
  BY TypeParts DEF IInv
<1>1. /\ pc' \in {"convert", "idle"} /\ picid < MaxPhotos /\ picbuf' = <<>> /\ since' = Complete
      /\ UNCHANGED <<current_frame, latest, uncopied, picid, name, files, life>>
  BY DEF do_takephoto, Complete, copyVars
<1>2. CopyType' /\ FilesType' /\ Copying' /\ NamesUsed' /\ Stored' /\ UNCHANGED Complete
  BY <1>0, <1>1 DEF CopyType, FilesType, Copying, NamesUsed, Stored, Complete, Coherent
<1>3. Complete \in Frame
  BY <1>0 DEF CopyType, Copying, Complete, Frame
<1>4. MainType'
  BY <1>0, <1>1, <1>3, EmptyCoherent DEF MainType
<1>5. Converting'
  <2>1. Coherent(picbuf', since') /\ Len(picbuf') = 0
    BY <1>1, EmptyCoherent
  <2>2. \A r \in 1 .. Len(picbuf') : picbuf'[r] <= latest'
    BY <2>1
  <2>3. since' <= Complete'
    BY <1>1, <1>2, <1>3 DEF Frame
  <2>. QED  BY <1>1, <2>1, <2>2, <2>3 DEF Converting, Coherent
<1>6. Writing'
  BY <1>1 DEF Writing
<1>. QED  BY <1>2, <1>4, <1>5, <1>6, TypeParts DEF IInv

LEMMA ConvertLineIInv ==
  ASSUME IInv, ConvertLine
  PROVE  IInv'
<1>0. /\ CopyType /\ MainType /\ FilesType
      /\ Copying /\ Converting /\ Writing /\ NamesUsed /\ Stored
  BY TypeParts DEF IInv
<1>. DEFINE r == Len(picbuf) + 1
            e == current_frame[r]
<1>1. /\ pc = "convert" /\ Len(picbuf) < Height /\ picbuf' = Append(picbuf, e)
      /\ UNCHANGED <<current_frame, latest, uncopied, pc, picid, name, files, since, life>>
  BY DEF ConvertLine, copyVars
<1>2. CopyType' /\ FilesType' /\ Copying' /\ NamesUsed' /\ Stored' /\ UNCHANGED Complete
  BY <1>0, <1>1 DEF CopyType, FilesType, Copying, NamesUsed, Stored, Complete, Coherent
<1>3. r \in Line /\ Len(picbuf) \in Nat
  BY <1>0, <1>1, LenProperties DEF MainType, Line, PhotoAssumption
<1>4. e \in Frame /\ e >= Complete /\ e <= latest /\ latest <= e + 1 /\ latest \in Frame
  BY <1>0, <1>3 DEF CopyType, Copying, Complete, Frame
<1>. HIDE DEF e
<1>5. /\ picbuf' \in Seq(Frame) /\ Len(picbuf') = r /\ picbuf'[r] = e
      /\ \A k \in 1 .. Len(picbuf) : picbuf'[k] = picbuf[k]
      /\ Coherent(picbuf', since)
  <2>1. since \in Frame /\ Complete \in Int /\ since <= Complete
    BY <1>0, <1>4 DEF MainType, Converting, Complete, CopyType, Frame
  <2>2. \A k \in 1 .. Len(picbuf) : picbuf[k] <= e + 1
    <3>1. \A k \in 1 .. Len(picbuf) : picbuf[k] \in Frame /\ picbuf[k] <= latest
      BY <1>0, ElementOfSeq DEF MainType, Converting
    <3>. QED  BY <1>4, <3>1 DEF Frame
  <2>3. e >= since
    BY <1>4, <2>1 DEF Frame
  <2>. QED  BY <1>0, <1>1, <1>4, <2>1, <2>2, <2>3, AppendCoherent DEF MainType, Converting
<1>6. MainType'
  BY <1>0, <1>1, <1>3, <1>5 DEF MainType
<1>7. Converting'
  <2>1. \A k \in 1 .. Len(picbuf') : picbuf'[k] <= latest
    BY <1>0, <1>3, <1>4, <1>5 DEF Converting
  <2>. QED  BY <1>0, <1>1, <1>2, <1>5, <2>1 DEF Converting, Coherent
<1>8. Writing'
  BY <1>1 DEF Writing
<1>. QED  BY <1>2, <1>6, <1>7, <1>8, TypeParts DEF IInv

LEMMA JpegCreateIInv ==
  ASSUME IInv, jpeg_create
  PROVE  IInv'
<1>0. /\ CopyType /\ MainType /\ FilesType
      /\ Copying /\ Converting /\ Writing /\ NamesUsed /\ Stored
  BY TypeParts DEF IInv
<1>. DEFINE file == [lines |-> <<>>, whole |-> FALSE, since |-> since, life |-> life]
<1>1. /\ pc = "convert" /\ Len(picbuf) = Height /\ name' = picid /\ picid' = picid + 1
      /\ UNCHANGED <<current_frame, latest, uncopied, since, life>>
      /\ \/ files' = Store(picid, file) /\ pc' = "scanlines" /\ UNCHANGED picbuf
         \/ pc' = "idle" /\ picbuf' = <<>> /\ UNCHANGED files
  BY DEF jpeg_create, Named, copyVars
<1>2. CopyType' /\ Copying' /\ UNCHANGED Complete
  BY <1>0, <1>1 DEF CopyType, Copying, Complete
<1>3. picid \in 0 .. MaxPhotos - 1 /\ picid' \in 0 .. MaxPhotos
  BY <1>0, <1>1 DEF MainType, Converting, PhotoAssumption
<1>4. CASE pc' = "idle" /\ picbuf' = <<>> /\ UNCHANGED files
  <2>1. MainType' /\ FilesType'
    BY <1>0, <1>1, <1>3, <1>4, EmptyCoherent DEF MainType, FilesType, PhotoAssumption
  <2>2. Converting'
    <3>1. Len(picbuf') = 0
      BY <1>4, EmptyCoherent
    <3>2. \A r \in 1 .. Len(picbuf') : picbuf'[r] <= latest'
      BY <3>1
    <3>3. Coherent(picbuf, since)'
      BY <1>4, EmptyCoherent
    <3>. QED  BY <1>0, <1>1, <1>2, <1>4, <3>2, <3>3 DEF Converting
  <2>3. NamesUsed'
    BY <1>0, <1>1, <1>3, <1>4 DEF NamesUsed, FilesType, MainType
  <2>4. Writing' /\ Stored'
    BY <1>0, <1>1, <1>4 DEF Writing, Stored, Coherent
  <2>. QED  BY <1>2, <2>1, <2>2, <2>3, <2>4, TypeParts DEF IInv
<1>5. CASE files' = Store(picid, file) /\ pc' = "scanlines" /\ UNCHANGED picbuf
  <2>1. /\ file \in File /\ ~file.whole /\ file.life = life /\ file.since = since
        /\ file.lines = <<>> /\ Len(file.lines) = 0
    BY <1>0, EmptyCoherent DEF MainType, File, Frame
  <2>2. /\ DOMAIN files' = DOMAIN files \cup {picid} /\ files'[picid] = file
        /\ \A n \in DOMAIN files : n # picid => files'[n] = files[n]
    BY <1>5 DEF Store
  <2>. HIDE DEF file
  <2>3. FilesType'
    BY <1>0, <1>3, <2>1, <2>2 DEF FilesType
  <2>4. MainType'
    BY <1>0, <1>1, <1>3, <1>5 DEF MainType
  <2>5. Converting'
    BY <1>0, <1>1, <1>2, <1>5 DEF Converting, Coherent
  <2>6. Writing'
    <3>1. /\ name' \in DOMAIN files' /\ files'[name'] = file /\ Len(picbuf') = Height
      BY <1>1, <1>5, <2>2
    <3>2. Len(file.lines) <= Height /\ \A r \in 1 .. Len(file.lines) : file.lines[r] = picbuf'[r]
      BY <2>1 DEF PhotoAssumption
    <3>. QED  BY <1>1, <2>1, <3>1, <3>2 DEF Writing
  <2>7. NamesUsed'
    <3>. SUFFICES ASSUME NEW n \in DOMAIN files'
                  PROVE  files'[n].life <= life /\ (files'[n].life = life => n < picid + 1)
      BY <1>1 DEF NamesUsed
    <3>1. CASE n = picid
      BY <1>0, <1>3, <2>1, <2>2, <3>1 DEF MainType
    <3>2. CASE n # picid
      BY <1>0, <1>3, <2>2, <3>2 DEF NamesUsed, FilesType
    <3>. QED  BY <3>1, <3>2
  <2>8. Stored'
    <3>. SUFFICES ASSUME NEW n \in DOMAIN files', files'[n].whole
                  PROVE  Len(files'[n].lines) = Height /\ Coherent(files'[n].lines, files'[n].since)
      BY DEF Stored, Coherent
    <3>1. n \in DOMAIN files /\ files'[n] = files[n]
      BY <2>1, <2>2
    <3>. QED  BY <1>0, <3>1 DEF Stored
  <2>. QED  BY <1>2, <2>3, <2>4, <2>5, <2>6, <2>7, <2>8, TypeParts DEF IInv
<1>. QED  BY <1>1, <1>4, <1>5

(* A step that changes only the photo that is being written, which has not *)
(* been whole before.                                                      *)
LEMMA ChangesOneFile ==
  ASSUME IInv, pc = "scanlines", NEW file \in File,
         files' = [files EXCEPT ![name] = file],
         file.life = life, file.since = since,
         UNCHANGED <<current_frame, latest, uncopied, picid, name, since, life>>
  PROVE  /\ CopyType' /\ Copying' /\ UNCHANGED Complete /\ FilesType' /\ NamesUsed'
         /\ DOMAIN files' = DOMAIN files /\ name \in DOMAIN files /\ files'[name] = file
         /\ (file.whole => Len(file.lines) = Height /\ Coherent(file.lines, since)) => Stored'
<1>0. CopyType /\ MainType /\ FilesType /\ Copying /\ Writing /\ NamesUsed /\ Stored
  BY TypeParts DEF IInv
<1>1. CopyType' /\ Copying' /\ UNCHANGED Complete
  BY <1>0 DEF CopyType, Copying, Complete
<1>2. /\ DOMAIN files' = DOMAIN files /\ name \in DOMAIN files /\ files'[name] = file
      /\ files[name].life = life
      /\ \A n \in DOMAIN files : n # name => files'[n] = files[n]
  BY <1>0 DEF Writing
<1>3. FilesType'
  BY <1>0, <1>2 DEF FilesType
<1>4. NamesUsed'
  BY <1>0, <1>2 DEF NamesUsed, MainType
<1>5. ASSUME file.whole => Len(file.lines) = Height /\ Coherent(file.lines, since)
      PROVE  Stored'
  <2>. SUFFICES ASSUME NEW n \in DOMAIN files', files'[n].whole
                PROVE  Len(files'[n].lines) = Height /\ Coherent(files'[n].lines, files'[n].since)
    BY DEF Stored, Coherent
  <2>1. CASE n = name
    BY <1>2, <1>5, <2>1
  <2>2. CASE n # name
    BY <1>0, <1>2, <2>2 DEF Stored
  <2>. QED  BY <2>1, <2>2
<1>. QED  BY <1>1, <1>2, <1>3, <1>4, <1>5

LEMMA WriteScanlinesIInv ==
  ASSUME IInv, jpeg_write_scanlines
  PROVE  IInv'
<1>0. CopyType /\ MainType /\ FilesType /\ Copying /\ Converting /\ Writing
  BY TypeParts DEF IInv
<1>. DEFINE old  == files[name]
            next == Len(old.lines) + 1
            file == [old EXCEPT !.lines = Append(@, picbuf[next])]
<1>1. /\ pc = "scanlines" /\ Len(old.lines) < Height
      /\ files' = [files EXCEPT ![name] = file]
      /\ UNCHANGED <<current_frame, latest, uncopied, pc, picbuf, picid, name, since, life>>
  BY DEF jpeg_write_scanlines, copyVars
<1>2. /\ name \in DOMAIN files /\ old \in File /\ ~old.whole /\ old.life = life /\ old.since = since
      /\ Len(picbuf) = Height /\ \A r \in 1 .. Len(old.lines) : old.lines[r] = picbuf[r]
  BY <1>0, <1>1 DEF Writing, FilesType
<1>3. old.lines \in Seq(Frame) /\ Len(old.lines) \in Nat
  <2>1. old.lines \in Seq(Frame)
    BY <1>2 DEF File, Frame
  <2>. QED  BY <2>1, LenProperties
<1>4. picbuf[next] \in Frame
  BY <1>0, <1>1, <1>2, <1>3, ElementOfSeq DEF MainType, PhotoAssumption
<1>. DEFINE more == Append(old.lines, picbuf[next])
<1>5. /\ more \in Seq(Frame) /\ Len(more) = next /\ more[next] = picbuf[next]
      /\ \A r \in 1 .. Len(old.lines) : more[r] = old.lines[r]
  BY <1>3, <1>4, AppendProperties
<1>. HIDE DEF more
<1>6. /\ file \in File /\ file.lines = more /\ file.life = life /\ file.since = since /\ ~file.whole
  <2>1. file = [old EXCEPT !.lines = more]
    BY DEF more
  <2>2. old \in [lines: Seq(Frame), whole: BOOLEAN, since: Frame, life: 1 .. MaxLives]
    BY <1>2 DEF File, Frame
  <2>. QED  BY <1>2, <1>5, <2>1, <2>2 DEF File, Frame
<1>. HIDE DEF file
<1>7. /\ CopyType' /\ Copying' /\ UNCHANGED Complete /\ FilesType' /\ NamesUsed'
      /\ name \in DOMAIN files' /\ files'[name] = file /\ Stored'
  BY <1>1, <1>6, ChangesOneFile
<1>8. MainType' /\ Converting'
  BY <1>0, <1>1, <1>7 DEF MainType, Converting, Coherent
<1>9. Writing'
  <2>1. \A r \in 1 .. next : more[r] = picbuf[r]
    BY <1>2, <1>3, <1>5
  <2>2. next <= Height
    BY <1>1, <1>3 DEF PhotoAssumption
  <2>. QED  BY <1>1, <1>2, <1>5, <1>6, <1>7, <2>1, <2>2 DEF Writing
<1>. QED  BY <1>7, <1>8, <1>9, TypeParts DEF IInv

LEMMA FinishIInv ==
  ASSUME IInv, jpeg_finish_compress
  PROVE  IInv'
<1>0. CopyType /\ MainType /\ FilesType /\ Copying /\ Converting /\ Writing
  BY TypeParts DEF IInv
<1>. DEFINE old  == files[name]
            file == [old EXCEPT !.whole = TRUE]
<1>1. /\ pc = "scanlines" /\ Len(old.lines) = Height
      /\ files' = [files EXCEPT ![name] = file]
      /\ pc' = "idle" /\ picbuf' = <<>>
      /\ UNCHANGED <<current_frame, latest, uncopied, picid, name, since, life>>
  BY DEF jpeg_finish_compress, copyVars
<1>2. /\ old \in File /\ old.life = life /\ old.since = since
      /\ Len(picbuf) = Height /\ \A r \in 1 .. Height : old.lines[r] = picbuf[r]
  BY <1>0, <1>1 DEF Writing, FilesType
<1>3. file \in File /\ file.lines = old.lines /\ file.life = life /\ file.since = since
  BY <1>2 DEF File
<1>. HIDE DEF file
<1>4. Len(file.lines) = Height /\ Coherent(file.lines, since)
  BY <1>0, <1>1, <1>2, <1>3 DEF Converting, Coherent
<1>5. CopyType' /\ Copying' /\ UNCHANGED Complete /\ FilesType' /\ NamesUsed' /\ Stored'
  BY <1>1, <1>3, <1>4, ChangesOneFile
<1>6. MainType'
  BY <1>0, <1>1, EmptyCoherent DEF MainType, PhotoAssumption
<1>7. Converting'
  <2>1. Coherent(picbuf, since)' /\ Len(picbuf') = 0
    BY <1>1, EmptyCoherent
  <2>2. \A r \in 1 .. Len(picbuf') : picbuf'[r] <= latest'
    BY <2>1
  <2>. QED  BY <1>0, <1>1, <1>5, <2>1, <2>2 DEF Converting
<1>8. Writing'
  BY <1>1 DEF Writing
<1>. QED  BY <1>5, <1>6, <1>7, <1>8, TypeParts DEF IInv

LEMMA WriteFailsIInv ==
  ASSUME IInv, WriteFails
  PROVE  IInv'
<1>1. /\ pc' = "exit"
      /\ UNCHANGED <<current_frame, latest, uncopied, picbuf, picid, name, files, since, life>>
  BY DEF WriteFails, copyVars
<1>. QED  BY <1>1 DEF IInv, TypeOK, Copying, Converting, Complete, Writing, NamesUsed, Stored, Coherent

LEMMA RestartIInv ==
  ASSUME IInv, Restart
  PROVE  IInv'
<1>0. MainType /\ FilesType /\ NamesUsed /\ Stored
  BY TypeParts DEF IInv
<1>1. /\ life < MaxLives /\ life' = life + 1
      /\ current_frame' = NeverWritten /\ latest' = 0 /\ uncopied' = {}
      /\ pc' = "idle" /\ picbuf' = <<>>
      /\ picid' = 0 /\ name' = 0 /\ since' = 0 /\ UNCHANGED files
  BY DEF Restart
<1>2. CopyType' /\ Copying'
  BY <1>1 DEF CopyType, Copying, NeverWritten, Frame, PhotoAssumption
<1>3. MainType'
  BY <1>0, <1>1, EmptyCoherent DEF MainType, Frame, PhotoAssumption
<1>4. Converting'
  <2>1. Coherent(picbuf, since)' /\ Len(picbuf') = 0
    BY <1>1, EmptyCoherent
  <2>2. \A r \in 1 .. Len(picbuf') : picbuf'[r] <= latest'
    BY <2>1
  <2>. QED  BY <1>1, <2>1, <2>2 DEF Converting, Complete
<1>5. NamesUsed'
  <2>1. \A n \in DOMAIN files : files[n].life \in 1 .. MaxLives
    BY <1>0 DEF FilesType, File
  <2>. QED  BY <1>0, <1>1, <2>1 DEF NamesUsed, MainType
<1>6. FilesType' /\ Writing' /\ Stored'
  BY <1>0, <1>1 DEF FilesType, Writing, Stored, Coherent
<1>. QED  BY <1>2, <1>3, <1>4, <1>5, <1>6, TypeParts DEF IInv

-----------------------------------------------------------------------------
(***************************************************************************)
(* The theorems.                                                           *)
(***************************************************************************)

LEMMA InitIInv == Init => IInv
<1>. SUFFICES ASSUME Init PROVE IInv
  OBVIOUS
<1>1. CopyType /\ Copying
  BY DEF Init, CopyType, Copying, NeverWritten, Frame, PhotoAssumption
<1>2. MainType
  BY EmptyCoherent DEF Init, MainType, Frame, PhotoAssumption
<1>3. DOMAIN files = {}
  BY DEF Init
<1>4. Converting
  <2>1. Coherent(picbuf, since) /\ Len(picbuf) = 0
    BY EmptyCoherent DEF Init
  <2>2. \A r \in 1 .. Len(picbuf) : picbuf[r] <= latest
    BY <2>1
  <2>. QED  BY <2>1, <2>2 DEF Init, Converting, Complete
<1>5. FilesType /\ Writing /\ NamesUsed /\ Stored
  BY <1>3 DEF Init, FilesType, Writing, NamesUsed, Stored
<1>. QED  BY <1>1, <1>2, <1>4, <1>5, TypeParts DEF IInv

LEMMA NextIInv == IInv /\ [Next]_vars => IInv'
<1>. SUFFICES ASSUME IInv, [Next]_vars PROVE IInv'
  OBVIOUS
<1>1. CASE Dequeue
  BY <1>1, DequeueIInv
<1>2. CASE \E r \in Line : CopyLine(r)
  BY <1>2, CopyLineIInv
<1>3. CASE do_takephoto
  BY <1>3, TakePhotoIInv
<1>4. CASE ConvertLine
  BY <1>4, ConvertLineIInv
<1>5. CASE jpeg_create
  BY <1>5, JpegCreateIInv
<1>6. CASE jpeg_write_scanlines
  BY <1>6, WriteScanlinesIInv
<1>7. CASE WriteFails
  BY <1>7, WriteFailsIInv
<1>8. CASE jpeg_finish_compress
  BY <1>8, FinishIInv
<1>9. CASE Restart
  BY <1>9, RestartIInv
<1>10. CASE UNCHANGED vars
  BY <1>10 DEF vars, copyVars, IInv, TypeOK, Copying, Converting, Complete, Writing, NamesUsed,
               Stored, Coherent
<1>. QED  BY <1>1, <1>2, <1>3, <1>4, <1>5, <1>6, <1>7, <1>8, <1>9, <1>10 DEF Next

LEMMA Invariance == Spec => []IInv
BY InitIInv, NextIInv, PTL DEF Spec

(* Every variable keeps its type: no line beyond the frame is converted,   *)
(* and what a file holds are lines of frames that were captured.           *)
THEOREM TypeCorrect == Spec => []TypeOK
<1>1. IInv => TypeOK
  BY DEF IInv
<1>. QED  BY <1>1, Invariance, PTL

(* A whole photo shows no line older than the frame that was complete at   *)
(* TAKE_PHOTO, and tears by at most one frame.                             *)
THEOREM Coherence == Spec => []PhotoCoherent
<1>1. IInv => PhotoCoherent
  BY DEF IInv, Stored, Coherent, PhotoCoherent, Line
<1>. QED  BY <1>1, Invariance, PTL

(* Within one life of the process no stored photo is touched again.        *)
THEOREM Keeping == Spec => KeepsPhotos
<1>1. ASSUME IInv, Next, NEW n \in DOMAIN files, files[n].whole, files[n].life = life
      PROVE  files'[n] = files[n]
  <2>0. n < picid /\ picid \in Int /\ n \in Int
    BY <1>1 DEF IInv, NamesUsed, TypeOK
  <2>1. CASE jpeg_create
    <3>1. n # picid
      BY <2>0
    <3>. QED  BY <1>1, <2>1, <3>1 DEF jpeg_create, Store
  <2>2. CASE jpeg_write_scanlines \/ jpeg_finish_compress
    <3>1. n # name
      BY <1>1, <2>2 DEF IInv, Writing, jpeg_write_scanlines, jpeg_finish_compress
    <3>. QED  BY <1>1, <2>2, <3>1 DEF jpeg_write_scanlines, jpeg_finish_compress
  <2>3. CASE Dequeue \/ (\E r \in Line : CopyLine(r)) \/ do_takephoto \/ ConvertLine \/ WriteFails \/ Restart
    BY <2>3 DEF Dequeue, CopyLine, do_takephoto, ConvertLine, WriteFails, Restart
  <2>. QED  BY <1>1, <2>1, <2>2, <2>3 DEF Next
<1>2. IInv /\ [Next]_vars =>
        [\A n \in DOMAIN files :
           files[n].whole /\ files[n].life = life => files'[n] = files[n]]_vars
  BY <1>1
<1>. QED  BY <1>2, Invariance, PTL DEF Spec, KeepsPhotos

=============================================================================
