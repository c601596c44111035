------------------------------- MODULE Downloads -------------------------------
(* What a worker fetches before it can serve: the files of a model, resumed      *)
(* after an interruption, and the archive of the inference server. The cache     *)
(* directory is shared by every worker process of a host.                        *)
EXTENDS Naturals, Sequences

CONSTANTS
  Loaders,    \* worker processes of one host
  FileBlocks, \* blocks of a model file
  MaxVersion  \* times the repository publishes the files

ASSUME DownloadsAssumption == FileBlocks \in Nat \ {0} /\ MaxVersion \in Nat \ {0}

Files == 1 .. 2          \* two shards, or a model and its vision encoder
Steps == 0 .. 2          \* an archive unpacked: nothing, the binary or part of it, its libraries too

VARIABLES
  plan,      \* "vision": a model of known size and its encoder; "split": two shards;
             \* "local": a path given; "server": the archive of the inference server
  published, \* version at the repository
  temp,      \* f.download of each file, as the blocks it holds
  dest,      \* each file under its final name
  loader,    \* each process: its stage, the file it is at and the reply it copies
  bundle,    \* how far the cached server directory is unpacked
  tainted,   \* files two processes wrote at once, or resumed from another version
  torn       \* an unpacking was cut short, or two ran at once

dlvars == <<plan, published, temp, dest, loader, bundle, tainted, torn>>

Whole(v) == [n \in 1 .. FileBlocks |-> <<v, n>>]
IdleLoader == [stage |-> "idle", at |-> 1, file |-> "none", body |-> <<>>, offset |-> 0, append |-> FALSE]
Copying(w) == loader[w].stage = "copy"
Put(w, s) == loader' = [loader EXCEPT ![w] = s]
Advance(w) == IF loader[w].at = 2 THEN [IdleLoader EXCEPT !.stage = "ready"] ELSE [IdleLoader EXCEPT !.stage = "check", !.at = loader[w].at + 1]

DownloadsInit ==
  /\ plan \in {"split", "vision", "local", "server"} /\ published = 1
  /\ dest \in [Files -> {<<>>, Whole(1)}] /\ (plan = "local" \/ dest = [f \in Files |-> <<>>])
  /\ temp = [f \in Files |-> <<>>] /\ loader = [w \in Loaders |-> IdleLoader]
  /\ bundle = 0 /\ tainted = {} /\ torn = FALSE
-----------------------------------------------------------------------------
Begin(w) ==
  /\ loader[w].stage = "idle" /\ Put(w, [IdleLoader EXCEPT !.stage = IF plan = "server" THEN "binary" ELSE "check"])
  /\ UNCHANGED <<plan, published, temp, dest, bundle, tainted, torn>>
\* ensureLocalModel: every shard beside the file that was named.
Local(w) ==
  /\ loader[w].stage = "check" /\ plan = "local"
  /\ Put(w, IF \A f \in Files : dest[f] # <<>> THEN [IdleLoader EXCEPT !.stage = "ready"] ELSE IdleLoader)
  /\ UNCHANGED <<plan, published, temp, dest, bundle, tainted, torn>>
\* Only a model of one file is compared with the size the registry knows;
\* of a shard or an encoder it is enough that it is there.
Fetching(f) == {u \in Loaders : loader[u].stage \in {"ask", "copy"} /\ loader[u].at = f}
Downloaded(f) == dest[f] # <<>> /\ (plan = "vision" /\ f = 1 => Len(dest[f]) = FileBlocks)
Check(w) ==
  /\ loader[w].stage = "check" /\ plan # "local"
  /\ \/ Downloaded(loader[w].at) /\ Put(w, Advance(w)) /\ UNCHANGED tainted
     \/ /\ ~ Downloaded(loader[w].at)
        /\ Put(w, [loader[w] EXCEPT !.stage = "ask", !.offset = Len(temp[loader[w].at])])
        /\ tainted' = IF Fetching(loader[w].at) # {} THEN tainted \union {loader[w].at} ELSE tainted
  /\ UNCHANGED <<plan, published, temp, dest, bundle, torn>>
\* os.Rename moves what other processes have open along with the name.
Renamed(w, f) ==
  [u \in Loaders |->
     IF u = w THEN Advance(w)
     ELSE IF loader[u].at # f \/ loader[u].file = "none" THEN loader[u]
     ELSE IF loader[u].file = "temp" THEN [loader[u] EXCEPT !.file = "dest"]
     ELSE [loader[u] EXCEPT !.file = "gone"]]
Rename(w) ==
  LET f == loader[w].at IN
  IF temp[f] # <<>>
  THEN dest' = [dest EXCEPT ![f] = temp[f]] /\ temp' = [temp EXCEPT ![f] = <<>>] /\ loader' = Renamed(w, f)
  ELSE Put(w, IdleLoader) /\ UNCHANGED <<temp, dest>>
\* Mutant: a whole file is appended to the part that is there.
OpenAppending(w, append) ==
  LET f == loader[w].at
      rest == SubSeq(Whole(published), IF append THEN loader[w].offset + 1 ELSE 1, FileBlocks) IN
  /\ Put(w, [loader[w] EXCEPT !.stage = "copy", !.file = "temp", !.body = rest, !.append = (loader[w].offset > 0)])
  /\ UNCHANGED <<temp, dest, tainted>>
\* downloadWithProgress: the reply to a request that asks for the rest of the file.
\* Partial content is appended; a whole file starts the temporary file again.
OpenReply(w, append) ==
  LET f == loader[w].at
      rest == SubSeq(Whole(published), IF append THEN loader[w].offset + 1 ELSE 1, FileBlocks) IN
  /\ temp' = IF append THEN temp ELSE [temp EXCEPT ![f] = <<>>]
  /\ Put(w, [loader[w] EXCEPT !.stage = "copy", !.file = "temp", !.body = rest, !.append = append,
                              !.offset = IF append THEN loader[w].offset ELSE 0])
  /\ tainted' = IF append /\ temp[f] # SubSeq(Whole(published), 1, loader[w].offset)
                THEN tainted \union {f} ELSE tainted
  /\ UNCHANGED dest
Ask(w) ==
  /\ loader[w].stage = "ask"
  /\ \/ loader[w].offset \in 1 .. FileBlocks - 1 /\ OpenReply(w, TRUE)
     \/ OpenReply(w, FALSE)
     \/ loader[w].offset >= FileBlocks /\ Rename(w) /\ UNCHANGED tainted
     \/ Put(w, IdleLoader) /\ UNCHANGED <<temp, dest, tainted>>
  /\ UNCHANGED <<plan, published, bundle, torn>>
\* A write lands where the descriptor stands: at the end, or at its own offset.
WrittenBlock(w, old) ==
  IF loader[w].append \/ loader[w].offset >= Len(old) THEN Append(old, Head(loader[w].body))
  ELSE [old EXCEPT ![loader[w].offset + 1] = Head(loader[w].body)]
Copy(w) ==
  LET f == loader[w].at IN
  /\ Copying(w) /\ loader[w].body # <<>> /\ Len(temp[f]) < 2 * FileBlocks /\ Len(dest[f]) < 2 * FileBlocks
  /\ CASE loader[w].file = "temp" -> temp' = [temp EXCEPT ![f] = WrittenBlock(w, @)] /\ UNCHANGED dest
       [] loader[w].file = "dest" -> dest' = [dest EXCEPT ![f] = WrittenBlock(w, @)] /\ UNCHANGED temp
       [] OTHER -> UNCHANGED <<temp, dest>>
  /\ Put(w, [loader[w] EXCEPT !.body = Tail(@), !.offset = @ + 1])
  /\ UNCHANGED <<plan, published, bundle, tainted, torn>>
CopyEnds(w) ==
  /\ Copying(w) /\ loader[w].body = <<>> /\ Rename(w)
  /\ UNCHANGED <<plan, published, bundle, tainted, torn>>
-----------------------------------------------------------------------------
\* llamabin.Ensure and sdbin.Ensure: a binary that is there is taken as it is.
Cached(w) ==
  /\ loader[w].stage = "binary" /\ bundle > 0 /\ Put(w, [IdleLoader EXCEPT !.stage = "ready"])
  /\ UNCHANGED <<plan, published, temp, dest, bundle, tainted, torn>>
Archive(w) ==
  /\ loader[w].stage = "binary" /\ bundle = 0
  /\ Put(w, [IdleLoader EXCEPT !.stage = "unpack"]) \/ Put(w, IdleLoader)
  /\ UNCHANGED <<plan, published, temp, dest, bundle, tainted, torn>>
Unpack(w) ==
  /\ loader[w].stage = "unpack" /\ loader[w].offset < 2
  /\ bundle' = loader[w].offset + 1 /\ Put(w, [loader[w] EXCEPT !.offset = @ + 1])
  /\ torn' = (torn \/ \E u \in Loaders \ {w} : loader[u].stage \in {"unpack", "ready"})
  /\ UNCHANGED <<plan, published, temp, dest, tainted>>
Unpacked(w) ==
  /\ loader[w].stage = "unpack" /\ loader[w].offset = 2 /\ Put(w, [IdleLoader EXCEPT !.stage = "ready"])
  /\ UNCHANGED <<plan, published, temp, dest, bundle, tainted, torn>>
-----------------------------------------------------------------------------
\* The transfer or the unpacking fails, or the process dies in it; what it wrote stays.
Cut(w) ==
  /\ loader[w].stage \in {"copy", "unpack"} /\ Put(w, IdleLoader)
  /\ torn' = (torn \/ (loader[w].stage = "unpack" /\ loader[w].offset > 0))
  /\ UNCHANGED <<plan, published, temp, dest, bundle, tainted>>
Publish ==
  /\ published < MaxVersion /\ published' = published + 1
  /\ UNCHANGED <<plan, temp, dest, loader, bundle, tainted, torn>>

DownloadsNext ==
  \/ \E w \in Loaders : \/ Begin(w) \/ Local(w) \/ Check(w) \/ Ask(w) \/ Copy(w) \/ CopyEnds(w)
                        \/ Cached(w) \/ Archive(w) \/ Unpack(w) \/ Unpacked(w) \/ Cut(w)
  \/ Publish
DownloadsSpec == DownloadsInit /\ [][DownloadsNext]_dlvars
-----------------------------------------------------------------------------
DlTypeOK ==
  /\ published \in 1 .. MaxVersion /\ bundle \in Steps /\ tainted \subseteq Files /\ torn \in BOOLEAN
  /\ \A f \in Files : Len(temp[f]) <= 2 * FileBlocks /\ Len(dest[f]) <= 2 * FileBlocks
  /\ \A w \in Loaders : loader[w].at \in Files /\ loader[w].file \in {"none", "temp", "dest", "gone"}

\* What a worker is about to serve with was fetched whole, whatever was cut and
\* resumed before; except a file two processes wrote at once or that was published
\* anew between two halves, and a server directory unpacked by halves.
LoadedIsWhole ==
  \A w \in Loaders : loader[w].stage = "ready" =>
    IF plan = "server" THEN torn \/ bundle = 2 \/ \E u \in Loaders : loader[u].stage = "unpack"
    ELSE \A f \in Files : f \in tainted \/ \E v \in 1 .. published : dest[f] = Whole(v)
=============================================================================
