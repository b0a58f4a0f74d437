-------------------------------- MODULE PathVfs --------------------------------
(***************************************************************************)
(* File names: the hooks of the file functions (hooklib/path.c), each of   *)
(* which asks a list of path hooks for another name, and the path hooks of *)
(* platform/vfs.c, which put the volumes of the arcade machine into        *)
(* directories of the PC.                                                  *)
(*                                                                         *)
(* A name is a sequence of parts.  VfsSep is either separator; a part has  *)
(* no case; "nthome", "w10home", "option" and "apm" stand for              *)
(* C:\Documents and Settings\AppUser, C:\Users\AppUser, C:\Mount\Option    *)
(* and C:\Mount\Apm, and a part behind one of them that is not a separator *)
(* goes on with its last word.                                             *)
(***************************************************************************)
EXTENDS Integers, Sequences, FiniteSets, SequencesExt

CONSTANTS
  VfsPaths,             (* the names that the game uses                    *)
  VfsPorts,             (* names of ports, which the game opens            *)
  VfsContents,          (* contents of a file                              *)
  VfsRedirections,      (* settings of redirection#from and redirection#to *)
  VfsMaxRedirections,   (* MAX_REDIRECTIONS (8)                            *)
  VfsBackups            (* names that ReplaceFile is given for a backup    *)

VfsSep == "/"
VfsTmpIcf == <<"E:", VfsSep, "tmpIcf.icf">>
VfsGarbage == <<"garbage">>
VfsNone == <<>>

(* option: a directory is set for it; allow: allowAmfsDownloads; redirs:   *)
(* the <<from, to>> of the settings; disk: the files of the PC, by name;   *)
(* wrote: the files the game has made, by the place that it means; asked:  *)
(* the last port that was opened, and the one that the PC opened           *)
VARIABLE vfs

VfsInit ==
  \E option, allow \in BOOLEAN, r \in VfsRedirections :
    vfs = [option |-> option, allow |-> allow, redirs |-> r, disk |-> <<>>,
           wrote |-> <<>>, asked |-> <<VfsNone, VfsNone>>]

-----------------------------------------------------------------------------
(* The path hooks.  Each answers a name, VfsPass (S_FALSE) or VfsRefuse.   *)

VfsPass == <<"S_FALSE">>
VfsRefuse == <<"E_FAIL">>

VfsCut(src, n) == SubSeq(src, n + 1, Len(src))
VfsSepAt(src, n) == n <= Len(src) /\ src[n] = VfsSep

vfs_path_hook_tmp_icf(src) ==
  IF IsPrefix(VfsTmpIcf, src) /\ ~vfs.allow THEN VfsRefuse ELSE VfsPass

(* A drive letter, with or without its separator.                          *)
vfs_path_hook(src) ==
  LET n == IF VfsSepAt(src, 2) THEN 2 ELSE 1
  IN  CASE src[1] = "E:" -> <<"amfs", VfsSep>> \o VfsCut(src, n)
        [] src[1] = "Y:" -> <<"appdata", VfsSep>> \o VfsCut(src, n)
        [] OTHER -> VfsPass

(* vfs_path_hook_nthome, _w10home, _option and _apm: a prefix that ends at *)
(* a separator or at the end of the name gives way to a directory.         *)
VfsPrefixHook(src, prefix, redir) ==
  IF src[1] # prefix \/ (Len(src) > 1 /\ ~VfsSepAt(src, 2)) THEN VfsPass
  ELSE <<redir, VfsSep>> \o VfsCut(src, IF VfsSepAt(src, 2) THEN 2 ELSE 1)

vfs_path_hook_nthome(src) == VfsPrefixHook(src, "nthome", "home")

(* Broken: the newer system has a home of its own.                         *)
VfsOtherHome(src) == VfsPrefixHook(src, "w10home", "home10")

vfs_path_hook_w10home(src) == VfsPrefixHook(src, "w10home", "home")
vfs_path_hook_option(src) == VfsPrefixHook(src, "option", "options")
vfs_path_hook_apm(src) == VfsPrefixHook(src, "apm", "options")

(* Broken: a name that nothing matches ends the loop as if one had.        *)
VfsNoneMatches(src) ==
  LET hits == {i \in 1..Len(vfs.redirs) : IsPrefix(vfs.redirs[i][1], src)}
  IN  IF hits = {} THEN VfsGarbage
      ELSE vfs.redirs[CHOOSE i \in hits : \A j \in hits : i <= j][2]

(* Broken: the last setting that matches.                                  *)
VfsLastRedirection(src) ==
  LET hits == {i \in 1..Len(vfs.redirs) : IsPrefix(vfs.redirs[i][1], src)}
  IN  IF hits = {} THEN VfsPass
      ELSE vfs.redirs[CHOOSE i \in hits : \A j \in hits : i >= j][2]

(* The settings up to the first that is empty.  A name that starts with a  *)
(* from is all replaced.  When no place is empty and none matches, the     *)
(* loop ends as if one had, with a buffer of unknown size and content.     *)
vfs_custom_path_hook(src) ==
  LET used == {i \in 1..VfsMaxRedirections :
                 \A j \in 1..i : j <= Len(vfs.redirs) /\ vfs.redirs[j][1] # <<>>}
      hits == {i \in used : IsPrefix(vfs.redirs[i][1], src)}
  IN  IF hits # {} THEN vfs.redirs[CHOOSE i \in hits : \A j \in hits : i <= j][2]
      ELSE IF Cardinality(used) < VfsMaxRedirections THEN VfsPass ELSE VfsGarbage

(* Broken: the download is looked for after the drive.                     *)
VfsIcfLast(src) ==
  <<vfs_path_hook(src), vfs_path_hook_tmp_icf(src), vfs_path_hook_nthome(src),
    vfs_path_hook_w10home(src)>>
  \o (IF vfs.option THEN <<vfs_path_hook_option(src), vfs_path_hook_apm(src)>> ELSE <<>>)
  \o <<vfs_custom_path_hook(src)>>

(* vfs_hook_init pushes them in this order.                                *)
vfs_hook_init(src) ==
  <<vfs_path_hook_tmp_icf(src), vfs_path_hook(src), vfs_path_hook_nthome(src),
    vfs_path_hook_w10home(src)>>
  \o (IF vfs.option THEN <<vfs_path_hook_option(src), vfs_path_hook_apm(src)>> ELSE <<>>)
  \o <<vfs_custom_path_hook(src)>>

(* path_transform_w, and path_transform_a around it: the first hook that   *)
(* does not pass.                                                          *)
path_transform_w(src) ==
  LET answers == SelectSeq(vfs_hook_init(src), LAMBDA a : a # VfsPass)
  IN  IF answers = <<>> THEN src ELSE answers[1]

-----------------------------------------------------------------------------
(* The place on the arcade machine that a name means.                      *)

VfsVolume(src) ==
  CASE src[1] = "E:" -> "amfs"
    [] src[1] = "Y:" -> "appdata"
    [] src[1] \in {"nthome", "w10home"} /\ (Len(src) = 1 \/ VfsSepAt(src, 2)) -> "home"
    [] src[1] \in {"option", "apm"} /\ (Len(src) = 1 \/ VfsSepAt(src, 2)) /\ vfs.option
         -> "options"
    [] OTHER -> "PC"

VfsPlace(src) ==
  IF VfsVolume(src) = "PC" THEN <<"PC", src>>
  ELSE <<VfsVolume(src), SelectSeq(Tail(src), LAMBDA part : part # VfsSep)>>

-----------------------------------------------------------------------------
(* The file functions.  A name that is refused is an error of the call.    *)

VfsPut(f, k, v) == [x \in DOMAIN f \cup {k} |-> IF x = k THEN v ELSE f[x]]
VfsDrop(f, k) == [x \in DOMAIN f \ {k} |-> f[x]]

(* CreateFile, CreateDirectory (Ex): files and directories are alike here. *)
hook_CreateFileW(p, v) ==
  LET t == path_transform_w(p)
  IN  /\ t # VfsRefuse
      /\ vfs' = [vfs EXCEPT !.disk = VfsPut(@, t, v), !.wrote = VfsPut(@, VfsPlace(p), v)]

(* DeleteFile, RemoveDirectory.                                            *)
hook_DeleteFileW(p) ==
  LET t == path_transform_w(p)
  IN  /\ t # VfsRefuse /\ t \in DOMAIN vfs.disk
      /\ vfs' = [vfs EXCEPT !.disk = VfsDrop(@, t), !.wrote = VfsDrop(@, VfsPlace(p))]

(* Broken: the new name is passed on as it is.                             *)
VfsMovesOut(p, q) ==
  LET old == path_transform_w(p)
  IN  /\ old # VfsRefuse /\ old \in DOMAIN vfs.disk /\ old # q
      /\ vfs' = [vfs EXCEPT !.disk = VfsDrop(VfsPut(@, q, @[old]), old),
           !.wrote = VfsDrop(VfsPut(@, VfsPlace(q), @[VfsPlace(p)]), VfsPlace(p))]

(* MoveFile (Ex).                                                          *)
hook_MoveFileW(p, q) ==
  LET old == path_transform_w(p)
      new == path_transform_w(q)
  IN  /\ VfsRefuse \notin {old, new} /\ old \in DOMAIN vfs.disk /\ old # new
      /\ vfs' = [vfs EXCEPT !.disk = VfsDrop(VfsPut(@, new, @[old]), old),
           !.wrote = VfsDrop(VfsPut(@, VfsPlace(q), @[VfsPlace(p)]), VfsPlace(p))]

(* CopyFile (Ex).                                                          *)
hook_CopyFileW(p, q) ==
  LET old == path_transform_w(p)
      new == path_transform_w(q)
  IN  /\ VfsRefuse \notin {old, new} /\ old \in DOMAIN vfs.disk /\ old # new
      /\ vfs' = [vfs EXCEPT !.disk = VfsPut(@, new, @[old]),
                            !.wrote = VfsPut(@, VfsPlace(q), @[VfsPlace(p)])]

(* ReplaceFile: q takes the place of p, which becomes the backup, whose    *)
(* name nobody looks up.                                                   *)
hook_ReplaceFileW(p, q, b) ==
  LET old == path_transform_w(p)
      new == path_transform_w(q)
      put == VfsDrop(VfsPut(vfs.disk, old, vfs.disk[new]), new)
      said == VfsDrop(VfsPut(vfs.wrote, VfsPlace(p), vfs.wrote[VfsPlace(q)]), VfsPlace(q))
  IN  /\ VfsRefuse \notin {old, new} /\ {old, new} \subseteq DOMAIN vfs.disk /\ old # new
      /\ vfs' = [vfs EXCEPT
           !.disk = IF b = VfsNone THEN put ELSE VfsPut(put, b, vfs.disk[old]),
           !.wrote = IF b = VfsNone THEN said
                     ELSE VfsPut(said, VfsPlace(b), vfs.wrote[VfsPlace(p)])]

(* GetFileAttributes (Ex), PathFileExists, FindFirstFile (Ex),             *)
(* GetPrivateProfileString and ...Section: what is there under the name.   *)
hook_GetFileAttributesW(p) ==
  LET t == path_transform_w(p)
  IN  IF t \in DOMAIN vfs.disk THEN vfs.disk[t] ELSE VfsNone

(* A port is opened by CreateFile as well.                                 *)
VfsOpenPort(p) ==
  /\ path_transform_w(p) # VfsRefuse
  /\ vfs' = [vfs EXCEPT !.asked = <<p, path_transform_w(p)>>]

VfsNext ==
  \/ \E p \in VfsPaths, v \in VfsContents : hook_CreateFileW(p, v)
  \/ \E p \in VfsPaths : hook_DeleteFileW(p)
  \/ \E p, q \in VfsPaths : hook_MoveFileW(p, q) \/ hook_CopyFileW(p, q)
  \/ \E p, q \in VfsPaths, b \in VfsBackups \cup {VfsNone} : hook_ReplaceFileW(p, q, b)
  \/ \E p \in VfsPorts : VfsOpenPort(p)

VfsSpec == VfsInit /\ [][VfsNext]_vfs

-----------------------------------------------------------------------------
(* Properties.                                                             *)

VfsTypeOK ==
  /\ VfsGarbage \notin DOMAIN vfs.disk
  /\ \A f \in DOMAIN vfs.disk : vfs.disk[f] \in VfsContents /\ f # VfsNone

(* A name gives what was last written to the place that it means, by any   *)
(* of the place's names and by any function; on an empty disk nothing was. *)
VfsReadsWhatWasWritten ==
  \/ vfs.disk = <<>> /\ vfs.wrote = <<>>
  \/ \A p \in VfsPaths :
       path_transform_w(p) # VfsRefuse =>
         hook_GetFileAttributesW(p)
           = (IF VfsPlace(p) \in DOMAIN vfs.wrote THEN vfs.wrote[VfsPlace(p)] ELSE VfsNone)

(* Nothing is made on the PC's own E: and Y:, nor in its user's homes and  *)
(* mounts, which belong to the PC.                                         *)
VfsStaysInside == \A f \in DOMAIN vfs.disk : VfsVolume(f) = "PC"

(* The file a download starts with is not made, by any function, unless    *)
(* downloads are allowed.                                                  *)
VfsBlocksDownloads ==
  ~vfs.allow => \A f \in DOMAIN vfs.disk \cup DOMAIN vfs.wrote :
                  "tmpIcf.icf" \notin ToSet(f) /\ f # VfsPlace(VfsTmpIcf)

(* "This allows arbitrary file reads to be redirected to other paths": the *)
(* first setting that matches decides, and other names are left alone.     *)
VfsRedirected ==
  vfs.asked # <<VfsNone, VfsNone>> =>
    LET hits == {i \in 1..Len(vfs.redirs) : IsPrefix(vfs.redirs[i][1], vfs.asked[1])}
    IN  vfs.asked[2] = IF hits = {} THEN vfs.asked[1]
                       ELSE vfs.redirs[CHOOSE i \in hits : \A j \in hits : i <= j][2]

(* The paths as a whole: what is read is what was written under that name, *)
(* nothing is read or written outside the redirected places, downloads are *)
(* refused, and a redirected name is the one that was set.                 *)
VfsIsRight ==
  /\ VfsTypeOK
  /\ VfsReadsWhatWasWritten
  /\ VfsStaysInside
  /\ VfsBlocksDownloads
  /\ VfsRedirected

=============================================================================
