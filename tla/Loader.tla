-------------------------------- MODULE Loader --------------------------------
(***************************************************************************)
(* Loading the kernel: the disk read of the boot sector (stage1), c_main   *)
(* and load_raw_kernel (bootloader_stage2.c) with fat_init, open and       *)
(* get_file_size (FAT16/) on top of the ATA driver.                        *)
(*                                                                         *)
(* A buffer is the sequence of the sectors it holds, a sector being its    *)
(* LBA, or Blank for the zeros that zalloc put there and no read replaced. *)
(* The volume is "disk".  Results that the code ignores are ignored here.  *)
(* Once the drive has delivered a sector nobody asked for (AtaDriver says  *)
(* when) the contents of every buffer are anybody's guess: "misread".      *)
(*                                                                         *)
(* Blocks of the heap are taken to be disjoint, that is, fewer than 64 KB  *)
(* have been handed out; KernelHeap is about what happens after that.      *)
(***************************************************************************)
EXTENDS AtaDriver, Fat16

CONSTANTS Disks,                \* the volumes
          Path,                 \* "/OS/KERNEL"
          Width,                \* 2^16, what a uint16_t holds
          BytesPerSector, SectorsPerCluster,
          EntriesPerSector      \* 16 directory entries

Blank  == -2
Blanks(n) == [i \in 1 .. n |-> Blank]
segments == strsplit(Path, "/")

(* The geometry that fat_init computes from the boot sector of volume d.   *)
fat_start_lba(d)      == d.reserved_sectors
root_dir_start_lba(d) == d.reserved_sectors + d.FAT_count * d.fat_sectors
data_start_lba(d)     == root_dir_start_lba(d) + d.root_sectors
fat_bytes(d)          == d.fat_sectors * BytesPerSector
cluster_to_lba(d, c)  == data_start_lba(d) + (c - 2) * SectorsPerCluster

bytes_to_sectors(n) == (n + BytesPerSector - 1) \div BytesPerSector

(* What is in memory when n sectors of the FAT have been read, and the     *)
(* entries of a directory in such a buffer: a sector that was not read is  *)
(* zero, so its FAT entries are free and its directory entries end the     *)
(* directory.                                                              *)
Table(d, n) == [c \in 0 .. fat_bytes(d) \div 2 - 1 |->
                  IF c < n * (BytesPerSector \div 2) THEN d.fat[c] ELSE FAT_FREE_SECTOR]

Entries(d, sectors) ==
  [i \in 1 .. Len(sectors) * EntriesPerSector |->
     LET s == sectors[(i - 1) \div EntriesPerSector + 1]
     IN  IF s \in DOMAIN d.dir THEN d.dir[s][((i - 1) % EntriesPerSector) + 1] ELSE [kind |-> "end"]]

LookUp(list, k) == find_parsed_dir_entry([entries |-> list], segments[k])

(* What there is to find on the volume, whatever the drive and the order   *)
(* of the reads: the sectors of a chain, the directories on the path, what *)
(* its k-th segment names and the chain of that.                           *)
Root(d) == [i \in 1 .. d.root_sectors |-> root_dir_start_lba(d) + i - 1]

Content(d, c) ==
  [i \in 1 .. Len(c) * SectorsPerCluster |->
     LET cluster == c[(i - 1) \div SectorsPerCluster + 1]
     IN  IF cluster < 2 THEN Blank
                        ELSE cluster_to_lba(d, cluster) + ((i - 1) % SectorsPerCluster)]

ChainOf(d, e) ==
  IF e.kind = "none" THEN NULL ELSE traverse_chain(Table(d, d.fat_sectors), e.cluster)

Listings(d) ==
  LET list[k \in 1 .. Len(segments)] ==
        LET sectors == IF k = 1 THEN Root(d)
                                ELSE Content(d, ChainOf(d, LookUp(list[k - 1], k - 1)))
        IN  parse_dir(Table(d, d.fat_sectors), Entries(d, sectors)).entries
  IN  list

Named(d, k) == LookUp(Listings(d)[k], k)
Way(d, k)   == ChainOf(d, Named(d, k))
Bytes(c)    == Len(c) * ClusterBytes

(* A sound volume: the tables fit in their blocks, the path leads through  *)
(* directories to a file, and that is not longer than its chain.           *)
IsSound(d) ==
  /\ d.boot = "good"
  /\ {d.fat_sectors, d.root_sectors} \subseteq 1 .. MaxCount /\ fat_bytes(d) < Width
  /\ \A k \in 1 .. Len(segments) :
       /\ Named(d, k).kind = IF k = Len(segments) THEN "file" ELSE "dir"
       /\ Bytes(Way(d, k)) \in 1 .. Width - 1
  /\ bytes_to_sectors(Named(d, Len(segments)).size)
       \in 0 .. Len(Way(d, Len(segments))) * SectorsPerCluster

KernelOf(d) ==
  SubSeq(Content(d, Way(d, Len(segments))), 1, bytes_to_sectors(Named(d, Len(segments)).size))

ASSUME LoaderAssumption ==
  /\ {BytesPerSector, EntriesPerSector} \subseteq Nat \ {0} /\ Width \in Nat
  /\ SectorsPerCluster \in 1 .. MaxCount
  /\ ClusterBytes = SectorsPerCluster * BytesPerSector
  /\ Path \in Seq(STRING) /\ Len(segments) >= 2
  /\ \A d \in Disks :
       /\ {d.reserved_sectors, d.FAT_count, d.fat_sectors, d.root_sectors} \subseteq Nat
       /\ d.root_sectors * BytesPerSector < Width
       /\ \A c \in 0 .. fat_bytes(d) \div 2 - 1 : d.fat[c] \in Nat
       /\ fat_bytes(d) < Width => fat_bytes(d) \div 2 <= FAT_EOC_START
       /\ DOMAIN d.dir \subseteq Nat
       /\ d.sound => IsSound(d)
       /\ d.kernel # NULL => d.sound /\ d.kernel = KernelOf(d)

VARIABLES disk,                 \* the volume in the drive
          pc, si,               \* next step; retries left of the boot sector
          fat_got, root_got,    \* sectors of FAT and root directory in memory
          pass,                 \* "open", "reopen" or "size"
          segment, entries,     \* path segment looked for, directory it is looked for in
          chain, buffer,        \* clusters of the entry being loaded, sectors read so far
          file, image,          \* the file opened first; what is at 0x100000
          failed,               \* history: a read has failed
          faults                \* history: uses of memory that no block owns

fatVars    == <<fat_got, root_got>>
walkVars   == <<pass, segment, entries>>
loadVars   == <<chain, buffer>>
fileVars   == <<file, image>>
loaderVars == <<disk, pc, si, fatVars, walkVars, loadVars, fileVars, failed, faults>>
vars       == <<ataVars, loaderVars>>

Init ==
  /\ AtaInit
  /\ disk \in Disks
  /\ pc = "load_sectors" /\ si = 5
  /\ fat_got = 0 /\ root_got = 0
  /\ pass = "open" /\ segment = 1 /\ entries = <<>>
  /\ chain = NULL /\ buffer = <<>>
  /\ file = <<>> /\ image = <<>>
  /\ failed = FALSE /\ faults = {}

-----------------------------------------------------------------------------
(* zalloc takes a uint16_t and refuses 0.                                  *)
Zalloc(bytes)   == bytes % Width # 0
Overrun(bytes)  == IF bytes >= Width THEN {"short_block"} ELSE {}

Fat == Table(disk, fat_got)

root_dir == [i \in 1 .. disk.root_sectors |->
               IF i <= root_got THEN root_dir_start_lba(disk) + i - 1 ELSE Blank]

-----------------------------------------------------------------------------
(* The program calls the driver and goes on when the call has returned.    *)
Step(p, q)      == pc = p /\ dpc = "done" /\ pc' = q
NoCall          == UNCHANGED ataVars
Read(dest, n, lba) == Call("read", dest, n, lba)
ReadFailed      == ata_last_error # "ok"
Note(f)         == faults' = faults \cup f

Misread(p) ==
  /\ Step(p, "misread") /\ ~ IsPrefix(got, Asked) /\ NoCall
  /\ UNCHANGED <<disk, si, fatVars, walkVars, loadVars, fileVars, failed, faults>>

AfterRead(p, q) == Step(p, q) /\ IsPrefix(got, Asked) /\ failed' = (failed \/ ReadFailed)

(* The boot sector asks the BIOS for stage 2 up to five times.  Mutant of  *)
(* Retry: the counter is looked at before it is decremented.               *)
RetryOnceMore == si' = si - 1 /\ pc' = IF si = 0 THEN "disk_fail" ELSE "load_sectors"
Retry         == si' = si - 1 /\ pc' = IF si' = 0 THEN "disk_fail" ELSE "load_sectors"

load_sectors ==
  /\ pc = "load_sectors"
  /\ (pc' = "detect" /\ UNCHANGED si) \/ Retry
  /\ NoCall
  /\ UNCHANGED <<disk, fatVars, walkVars, loadVars, fileVars, failed, faults>>

(* c_main ignores what the three calls return.                             *)
Probe ==
  /\ \/ Step("detect", "init") /\ Call("detect", TRUE, 0, 0)
     \/ Step("init", "identify") /\ Call("init", TRUE, 0, 0)
     \/ Step("identify", "boot") /\ Call("identify", TRUE, 0, 0)
     \/ Step("boot", "fat_init") /\ Read(TRUE, 1, 0)
  /\ UNCHANGED <<disk, si, fatVars, walkVars, loadVars, fileVars, failed, faults>>

-----------------------------------------------------------------------------
(* fat_init.  Its result is ignored; if it has returned early, root_dir is *)
(* NULL, and parse_dir reads as many entries from there as the boot sector *)
(* says: none if it was not read.                                          *)
BootSectorBad ==
  /\ AfterRead("fat_init", IF got = <<>> THEN "stopped" ELSE "wild")
  /\ got = <<>> \/ disk.boot # "good"
  /\ Note(IF got = <<>> THEN {} ELSE {"null_root"})
  /\ NoCall
  /\ UNCHANGED <<disk, si, fatVars, walkVars, loadVars, fileVars>>

load_fat ==
  /\ AfterRead("fat_init", "root")
  /\ got # <<>> /\ disk.boot = "good"
  /\ Read(Zalloc(fat_bytes(disk)), disk.fat_sectors, fat_start_lba(disk))
  /\ Note(Overrun(fat_bytes(disk)))
  /\ UNCHANGED <<disk, si, fatVars, walkVars, loadVars, fileVars>>

load_root_directory ==
  /\ AfterRead("root", "open")
  /\ fat_got' = Len(got)
  /\ Read(Zalloc(disk.root_sectors * BytesPerSector), disk.root_sectors, root_dir_start_lba(disk))
  /\ UNCHANGED <<disk, si, root_got, walkVars, loadVars, fileVars, faults>>

LoadedRoot ==
  /\ AfterRead("open", "parse_root")
  /\ root_got' = Len(got)
  /\ NoCall
  /\ UNCHANGED <<disk, si, fat_got, walkVars, loadVars, fileVars, faults>>

-----------------------------------------------------------------------------
(* open and get_file_size look up one segment of the path after another.   *)
(* A FAT of 64 KB or more is in a block that is too short, or in none, and *)
(* what a chain finds there is unknown.                                    *)
Parse(sectors) ==
  LET pd   == parse_dir(Fat, Entries(disk, sectors))
      lost == fat_bytes(disk) >= Width /\ \E i \in DOMAIN pd.entries : pd.entries[i].kind = "dir"
  IN  /\ entries' = IF lost THEN <<>> ELSE pd.entries
      /\ Note((IF pd.null THEN {"null_chain"} ELSE {}) \cup (IF lost THEN {"bad_fat"} ELSE {}))
      /\ pc' = IF lost THEN "wild" ELSE "walk"

(* Mutant of ParseRoot: the segments are not counted from the first again. *)
ParseRootOn ==
  /\ pc = "parse_root" /\ Parse(root_dir)
  /\ NoCall
  /\ UNCHANGED <<disk, si, fatVars, pass, segment, loadVars, fileVars, failed>>

ParseRoot ==
  /\ pc = "parse_root" /\ Parse(root_dir) /\ segment' = 1
  /\ NoCall
  /\ UNCHANGED <<disk, si, fatVars, pass, loadVars, fileVars, failed>>

(* Mutant of LastSegment: the segments are counted from 0.                 *)
LastFromZero == segment - 1 = Len(segments)
LastSegment  == segment = Len(segments)

Found ==
  IF segment > Len(segments) THEN [kind |-> "none"] ELSE LookUp(entries, segment)

Descends  == IF pass = "size" THEN Found.kind # "none" /\ ~ LastSegment ELSE Found.kind = "dir"
LoadsFile == pass # "size" /\ Found.kind = "file" /\ LastSegment
Measures  == pass = "size" /\ Found.kind # "none" /\ LastSegment

(* open returns NULL: load_raw_kernel gives up.  get_file_size returns     *)
(* UINT32_MAX: load_raw_kernel copies so many bytes.                       *)
NotFound ==
  IF pass = "open" THEN pc' = "stopped" /\ UNCHANGED faults
                   ELSE pc' = "wild" /\ Note({"copy_all"})

LookUpFails ==
  /\ pc = "walk" /\ ~ (Descends \/ LoadsFile \/ Measures)
  /\ NotFound
  /\ NoCall /\ UNCHANGED <<disk, si, fatVars, walkVars, loadVars, fileVars, failed>>

(* load_clustered_entry: the chain and a block for its clusters.  The      *)
(* block may be too short for them; get_file_size does not look whether    *)
(* there is one.                                                           *)
load_clustered_entry ==
  LET c     == traverse_chain(Fat, Found.cluster)
      bytes == Bytes(c)
  IN  /\ pc = "walk" /\ (Descends \/ LoadsFile)
      /\ \/ /\ ~ Zalloc(bytes)
            /\ IF pass = "size" THEN pc' = "wild" /\ Note({"null_dir"}) ELSE NotFound
            /\ UNCHANGED loadVars
         \/ /\ Zalloc(bytes)
            /\ pc' = IF bytes < Width THEN "cluster" ELSE "wild"
            /\ Note(Overrun(bytes))
            /\ chain' = c /\ buffer' = <<>>
      /\ NoCall /\ UNCHANGED <<disk, si, fatVars, walkVars, fileVars, failed>>

(* load_cluster_chain and read_cluster: a cluster below 2 is not read, and *)
(* neither is it noticed if the drive does not deliver one.  Mutant of      *)
(* Next1: the first cluster again and again.                               *)
NextIsFirst == chain[1]
Next1      == chain[Len(buffer) \div SectorsPerCluster + 1]
AllClusters == Len(buffer) = Len(chain) * SectorsPerCluster

SkipCluster ==
  /\ pc = "cluster" /\ ~ AllClusters /\ Next1 < 2
  /\ buffer' = buffer \o Blanks(SectorsPerCluster)
  /\ NoCall /\ UNCHANGED <<disk, pc, si, fatVars, walkVars, chain, fileVars, failed, faults>>

read_cluster ==
  /\ Step("cluster", "store") /\ ~ AllClusters /\ Next1 >= 2
  /\ Read(TRUE, SectorsPerCluster, cluster_to_lba(disk, Next1))
  /\ UNCHANGED <<disk, si, fatVars, walkVars, loadVars, fileVars, failed, faults>>

StoreCluster ==
  /\ AfterRead("store", "cluster")
  /\ buffer' = buffer \o got \o Blanks(SectorsPerCluster - Len(got))
  /\ NoCall /\ UNCHANGED <<disk, si, fatVars, walkVars, chain, fileVars, faults>>

LoadedDirectory ==
  /\ pc = "cluster" /\ AllClusters /\ Descends
  /\ Parse(buffer) /\ segment' = segment + 1
  /\ chain' = NULL /\ buffer' = <<>>
  /\ NoCall /\ UNCHANGED <<disk, si, fatVars, pass, fileVars, failed>>

(* load_raw_kernel opens the file; get_file_size opens it again and then   *)
(* walks a third time.                                                     *)
LoadedFile ==
  /\ pc = "cluster" /\ AllClusters /\ LoadsFile
  /\ pc' = "parse_root"
  /\ IF pass = "open" THEN pass' = "reopen" /\ file' = buffer
                      ELSE pass' = "size" /\ UNCHANGED file
  /\ chain' = NULL /\ buffer' = <<>>
  /\ NoCall /\ UNCHANGED <<disk, si, fatVars, segment, entries, image, failed, faults>>

memcpy ==
  LET n == bytes_to_sectors(Found.size)
  IN  /\ pc = "walk" /\ Measures
      /\ image' = IF n > Len(file) THEN file ELSE SubSeq(file, 1, n)
      /\ Note(IF n > Len(file) THEN {"long_copy"} ELSE {})
      /\ pc' = "jumped"
      /\ NoCall /\ UNCHANGED <<disk, si, fatVars, walkVars, loadVars, file, failed>>

Program ==
  \/ load_sectors \/ Probe
  \/ \E p \in {"fat_init", "root", "open", "store"} : Misread(p)
  \/ BootSectorBad \/ load_fat \/ load_root_directory \/ LoadedRoot
  \/ ParseRoot \/ LookUpFails \/ load_clustered_entry
  \/ SkipCluster \/ read_cluster \/ StoreCluster
  \/ LoadedDirectory \/ LoadedFile \/ memcpy

Run  == Program \/ (Driver /\ UNCHANGED loaderVars)

(* The last loop of stage 2, or the kernel, runs for ever.                 *)
Ends  == {"disk_fail", "stopped", "jumped", "wild", "misread"}
Ended == pc \in Ends /\ UNCHANGED vars

Next == Run \/ (Drive /\ UNCHANGED loaderVars) \/ Ended

Spec == Init /\ [][Next]_vars

(* The program never pauses; nothing is assumed of the drive.  This is     *)
(* WF_vars(Run): a step of the program can be taken until it has ended.    *)
FairSpec == Spec /\ ([]<>(pc \in Ends) \/ []<><<Run>>_vars)
-----------------------------------------------------------------------------
(* Type correctness.  A buffer never holds more sectors than its chain has *)
(* clusters for.                                                           *)
TypeOK ==
  /\ AtaTypeOK
  /\ disk \in Disks
  /\ pc \in Ends \cup {"load_sectors", "detect", "init", "identify", "boot", "fat_init", "root",
                       "open", "parse_root", "walk", "cluster", "store"}
  /\ si \in 0 .. 5
  /\ fat_got \in 0 .. disk.fat_sectors /\ root_got \in 0 .. disk.root_sectors
  /\ pass \in {"open", "reopen", "size"} /\ segment \in 1 .. Len(segments) + 1
  /\ Len(buffer) <= Len(chain) * SectorsPerCluster
  /\ failed \in BOOLEAN
  /\ faults \subseteq {"null_root", "null_chain", "null_dir", "short_block", "bad_fat",
                       "copy_all", "long_copy"}

(* traverse_chain, which counts clusters instead of looking for loops,     *)
(* returns a chain exactly where the table has one, for every start and    *)
(* for every table, damaged or read in part.                               *)
ChainsRight ==
  pc = "parse_root" /\ fat_bytes(disk) < Width =>
    \A start \in 0 .. FAT_EOC_START :
      LET c == traverse_chain(Fat, start)
      IN  /\ c # NULL <=> start < FAT_EOC_START /\ Sane(Fat, start)
          /\ c # NULL => IsChain(c, Fat, start)

(* strsplit against its reference, on every string of up to five           *)
(* characters.                                                             *)
SegmentsRight ==
  pc = "parse_root" =>
    \A str \in SeqOf({"/", "O"}, 5) : IsSplit(strsplit(str, "/"), str, "/")

(* The code ignores every failed read, and still never starts a kernel of  *)
(* which a part is missing: the error bits stay set (ErrorsStick), so that *)
(* the same lookup fails when get_file_size repeats it.  What a given-up   *)
(* wait leaves behind is not covered.                                      *)
KernelWhole == pc = "jumped" /\ disk.kernel # NULL /\ ~ gaveup => image = disk.kernel

(* On a sound volume, read without a failure, the only pointer used that   *)
(* points nowhere is the chain of a "..".  And on any volume load_raw_kernel *)
(* copies UINT32_MAX bytes only after a read has failed: what open has     *)
(* found once, get_file_size finds too.                                    *)
Clean == ~ failed /\ ~ gaveup
FaultsExplained ==
  /\ disk.sound /\ Clean => faults \subseteq {"null_chain"}
  /\ "copy_all" \in faults => ~ Clean

(* No volume and no drive keeps the boot from ending: chains that loop,    *)
(* a drive that never answers.                                             *)
AlwaysEnds == <>(pc \in Ends)

(* A sound volume on a drive that answers in time is booted from.          *)
SoundBoots == disk.sound /\ [](Clean /\ pc # "disk_fail") => <>(pc = "jumped")

(* "No invalid pointer usage" (.cursor/rules/os-dev-codereview.mdc:141).   *)
(* The code: the entry ".." of a directory in the root names cluster 0,    *)
(* traverse_chain returns NULL for it, and parse_dir uses that.            *)
NoInvalidPointer == disk.sound /\ Clean => faults = {}
=============================================================================
