------------------------------- MODULE Albums -------------------------------
(***************************************************************************)
(* Albums, the photos in them and the users they are shared with           *)
(* ({api,db}/src/albums.rs), with the links that get_url of media.rs gives *)
(* to photos.  A share is taken back by a timestamp, ends at another, and  *)
(* is opened again by an upsert.                                           *)
(*                                                                         *)
(* The handlers read the album to compare its owner and act with a later   *)
(* statement; update and delete compare in the statement itself.  Adding   *)
(* always makes a new, pending row of photos, so a photo is in one album   *)
(* at most.  A read is taken at one moment, and a photo stands for its key.*)
(***************************************************************************)
EXTENDS Integers, FiniteSets

CONSTANTS
  Users, AlbumIds, Photos, Reqs,
  MaxTime,   \* bound: the clock
  MaxCalls,  \* bound: calls that begin
  Never,     \* expires_at IS NULL
  Nobody

VARIABLES
  owner,    \* albums.owner_id; Nobody: no such row
  private,  \* albums with is_private, which no query reads
  photo,    \* rows of photos: [by, status, album], or Nobody; album may be Nobody
  share,    \* rows of album_shares: [revoked, ends], or Nobody
  now, pc, rq, calls

rows == <<owner, private, photo, share>>
vars == <<rows, now, pc, rq, calls>>

Statuses == {"pending", "approved", "rejected"}
Times == 0..MaxTime
Ends == Times \cup {Never}
Blank == [album |-> Nobody, user |-> Nobody, ends |-> Never, photos |-> {}]

TypeOK ==
  /\ owner \in [AlbumIds -> Users \cup {Nobody}]
  /\ \A a \in private : owner[a] # Nobody
  /\ \A p \in Photos : photo[p] = Nobody \/
       /\ photo[p].by \in Users /\ photo[p].status \in Statuses
       /\ photo[p].album = Nobody \/ photo[p].by = owner[photo[p].album]
  /\ \A a \in AlbumIds, u \in Users : share[<<a, u>>] = Nobody \/
       /\ owner[a] # Nobody
       /\ share[<<a, u>>] \in [revoked : BOOLEAN, ends : Ends]
  /\ now \in Times

Init ==
  /\ owner = [a \in AlbumIds |-> Nobody] /\ private = {}
  /\ photo = [p \in Photos |-> Nobody]
  /\ share = [x \in AlbumIds \X Users |-> Nobody]
  /\ now = 0 /\ calls = 0
  /\ pc = [r \in Reqs |-> "idle"] /\ rq = [r \in Reqs |-> Blank]

-----------------------------------------------------------------------------
Count == calls < MaxCalls /\ calls' = calls + 1
Finish(r) ==
  /\ pc' = [pc EXCEPT ![r] = "idle"]
  /\ rq' = [rq EXCEPT ![r] = Blank]
  /\ UNCHANGED <<now, calls>>

(* One-statement handlers *)
CreateAlbum(a, u, hidden) ==
  /\ owner[a] = Nobody /\ \A r \in Reqs : rq[r].album # a
  /\ Count
  /\ owner' = [owner EXCEPT ![a] = u]
  /\ private' = IF hidden THEN private \cup {a} ELSE private
  /\ UNCHANGED <<photo, share, now, pc, rq>>

update_album(a, u, hidden) ==
  /\ owner[a] = u /\ u # Nobody /\ Count
  /\ private' = IF hidden THEN private \cup {a} ELSE private \ {a}
  /\ UNCHANGED <<owner, photo, share, now, pc, rq>>

(* Its shares and its links to photos go with it, the photos stay.         *)
delete_album(a, u) ==
  /\ owner[a] = u /\ u # Nobody /\ Count
  /\ owner' = [owner EXCEPT ![a] = Nobody]
  /\ private' = private \ {a}
  /\ share' = [x \in DOMAIN share |-> IF x[1] = a THEN Nobody ELSE share[x]]
  /\ photo' = [p \in Photos |->
       IF photo[p] # Nobody /\ photo[p].album = a THEN [photo[p] EXCEPT !.album = Nobody] ELSE photo[p]]
  /\ UNCHANGED <<now, pc, rq>>

-----------------------------------------------------------------------------
(* The owner's calls: get_album and the comparison, then the statement.    *)
get_album(a) == owner[a]
AsOwner(r, a, u, step, locals) ==
  /\ pc[r] = "idle" /\ Count
  /\ get_album(a) = u /\ u # Nobody
  /\ pc' = [pc EXCEPT ![r] = step]
  /\ rq' = [rq EXCEPT ![r] = [locals EXCEPT !.album = a]]
  /\ UNCHANGED <<rows, now>>

AddPhotos(r, a, u, ps) ==
  ps # {} /\ AsOwner(r, a, u, "add", [Blank EXCEPT !.user = u, !.photos = ps])
RemovePhoto(r, a, u, p) == AsOwner(r, a, u, "remove", [Blank EXCEPT !.photos = {p}])
Share(r, a, u, v, ends) == AsOwner(r, a, u, "share", [Blank EXCEPT !.user = v, !.ends = ends])
Unshare(r, a, u, v) == AsOwner(r, a, u, "unshare", [Blank EXCEPT !.user = v])

Lives(r) == owner[rq[r].album] # Nobody

(* The album is gone: the foreign key refuses the row, nothing is added.   *)
Refused(r) ==
  /\ pc[r] \in {"add", "share"} /\ ~Lives(r)
  /\ Finish(r)
  /\ UNCHANGED rows

add_photos_to_album(r) ==
  /\ pc[r] = "add" /\ Lives(r)
  /\ \A p \in rq[r].photos : photo[p] = Nobody
  /\ photo' = [p \in Photos |-> IF p \in rq[r].photos
       THEN [by |-> rq[r].user, status |-> "pending", album |-> rq[r].album] ELSE photo[p]]
  /\ Finish(r)
  /\ UNCHANGED <<owner, private, share>>

remove_photo_from_album(r) ==
  /\ pc[r] = "remove"
  /\ photo' = [p \in Photos |->
       IF p \in rq[r].photos /\ photo[p] # Nobody /\ photo[p].album = rq[r].album
       THEN [photo[p] EXCEPT !.album = Nobody] ELSE photo[p]]
  /\ Finish(r)
  /\ UNCHANGED <<owner, private, share>>

(* ON CONFLICT: revoked_at = NULL, expires_at = COALESCE($3, expires_at):  *)
(* who is shared an album again after an end gets the row, and no access.  *)
share_album(r) ==
  LET a == rq[r].album
      v == rq[r].user
      was == share[<<a, v>>]
      ends == IF rq[r].ends = Never /\ was # Nobody THEN was.ends ELSE rq[r].ends
  IN
  /\ pc[r] = "share" /\ Lives(r)
  /\ share' = [share EXCEPT ![<<a, v>>] = [revoked |-> FALSE, ends |-> ends]]
  /\ Finish(r)
  /\ UNCHANGED <<owner, private, photo>>

unshare_album(r) ==
  LET a == rq[r].album
      v == rq[r].user IN
  /\ pc[r] = "unshare"
  /\ share' = IF share[<<a, v>>] = Nobody THEN share ELSE [share EXCEPT ![<<a, v>>].revoked = TRUE]
  /\ Finish(r)
  /\ UNCHANGED <<owner, private, photo>>

-----------------------------------------------------------------------------
(* The world: staff moderate, owners delete photos, time passes.           *)
Moderate(p, status) ==
  /\ photo[p] # Nobody /\ Count
  /\ photo' = [photo EXCEPT ![p].status = status]
  /\ UNCHANGED <<owner, private, share, now, pc, rq>>
DeletePhoto(p) ==
  /\ photo[p] # Nobody /\ Count
  /\ photo' = [photo EXCEPT ![p] = Nobody]
  /\ UNCHANGED <<owner, private, share, now, pc, rq>>
Tick ==
  /\ now < MaxTime /\ now' = now + 1
  /\ UNCHANGED <<rows, pc, rq, calls>>

-----------------------------------------------------------------------------
(* What can be read.  The three conditions on a share are spelled out in   *)
(* three queries.                                                          *)
Open(s) == s # Nobody /\ ~s.revoked
Shared(a, u) == Open(share[<<a, u>>]) /\ (share[<<a, u>>].ends = Never \/ share[<<a, u>>].ends > now)

list_albums(u) == {a \in AlbumIds : owner[a] = u}
has_album_access(a, u) == owner[a] = u \/ Shared(a, u)
list_shared_open(u) == {a \in AlbumIds : Open(share[<<a, u>>])}  \* faulty: forgets expires_at
list_shared_albums(u) == {a \in AlbumIds : Shared(a, u)}

get_album_photos(a) == {p \in Photos : photo[p] # Nobody /\ photo[p].album = a}
get(a, u) ==
  IF owner[a] = Nobody \/ ~has_album_access(a, u) THEN {}
  ELSE {p \in get_album_photos(a) : owner[a] = u \/ photo[p].status = "approved"}

get_url(p, u) ==
  /\ photo[p] # Nobody
  /\ photo[p].by = u \/ (photo[p].album # Nobody /\ Shared(photo[p].album, u))
  /\ photo[p].status = "approved" \/ photo[p].by = u

Serve(r) ==
  \/ \E a \in AlbumIds, u \in Users :
       \/ \E ps \in SUBSET Photos : AddPhotos(r, a, u, ps)
       \/ \E p \in Photos : RemovePhoto(r, a, u, p)
       \/ \E v \in Users : Unshare(r, a, u, v) \/ \E e \in Ends : Share(r, a, u, v, e)
  \/ Refused(r)
  \/ add_photos_to_album(r)
  \/ remove_photo_from_album(r)
  \/ share_album(r)
  \/ unshare_album(r)

Next ==
  \/ \E r \in Reqs : Serve(r)
  \/ \E a \in AlbumIds, u \in Users :
       \/ delete_album(a, u)
       \/ \E hidden \in BOOLEAN : CreateAlbum(a, u, hidden) \/ update_album(a, u, hidden)
  \/ \E p \in Photos : DeletePhoto(p) \/ \E s \in Statuses : Moderate(p, s)
  \/ Tick

Spec == Init /\ [][Next]_vars

-----------------------------------------------------------------------------
(* The list of albums shared with a user, the album itself and the links   *)
(* to its photos agree at all times, though three queries decide: whoever  *)
(* is listed an album is given it, whoever is given a photo of it can have *)
(* a link, and no link is to another user's photo that none of the user's  *)
(* albums shows, or that has not been approved.                            *)
AccessRulesAgree ==
  \A u \in Users :
    LET visible == UNION {get(a, u) : a \in list_albums(u) \cup list_shared_albums(u)} IN
    /\ \A a \in list_shared_albums(u) : has_album_access(a, u)
    /\ \A a \in AlbumIds : get(a, u) \subseteq visible
    /\ {p \in Photos : get_url(p, u) /\ photo[p].by # u} \subseteq visible
    /\ \A p \in visible : get_url(p, u)
=============================================================================
