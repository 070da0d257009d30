------------------------------- MODULE Media -------------------------------
(***************************************************************************)
(* One file prepared for one display (crates/tryx-media): ffprobe's facts  *)
(* about it are checked against the target (check.rs), the findings become *)
(* a plan (plan.rs), ffmpeg carries it out, the result is verified         *)
(* (encode.rs) and, for a Turris, wrapped in its header (mxhd.rs).  The    *)
(* commands around it are `media convert`, which writes to a path, and     *)
(* `media upload`, which hands a staged file to a transfer (Transfers).    *)
(*                                                                         *)
(* A file is the record of what ffprobe tells of it.  Frame rates are in   *)
(* thousandths, times in hundredths of a second, names are sequences of    *)
(* the classes of characters that sanitize_stem tells apart: "a" (kept),   *)
(* ".", "-" and " " (replaced).                                            *)
(***************************************************************************)
EXTENDS Integers, SequencesExt

CONSTANTS
  Commands,   \* [command, strict, here]: upload or convert, --strict, run where the source is
  Sources,    \* [file, path, options]: what they may be run on, and with what
  MaxStem,    \* the characters sanitize_stem keeps (100)
  MaxSource,  \* MAX_SOURCE_BYTES
  None        \* Option::None

Kinds == {"Image", "AnimatedImage", "Video"}

ASSUME MediaConstants ==
  /\ MaxStem \in Nat \ {0}
  /\ MaxSource \in Nat
  /\ None \notin Nat \cup Kinds

(* What ffprobe may tell of a file (probe.rs); cover, shows and length are *)
(* what is in it: where an attached picture is, which stream the pictures  *)
(* come from, and where the last of them ends.                             *)
File ==
  [video : BOOLEAN, cover : {"none", "first", "last"}, shows : {"video", "cover"},
   container : STRING, codec : STRING, profile : STRING \cup {None}, level : Int \cup {None},
   pix : STRING, dims : Nat \X Nat, sar : Nat \X (Nat \ {0}), rotation : Nat,
   rate : Nat \cup {None}, average : Nat \cup {None}, bframes : BOOLEAN, audio : BOOLEAN,
   hdr : BOOLEAN, frames : Nat \cup {None}, duration : Nat \cup {None}, length : Nat, size : Nat,
   header : {None}]

Chars == {"a", ".", "-", " "}

(* The demuxers of pictures name their codec: what is in a GIF or a WebP   *)
(* is neither a PNG nor a JPEG.                                            *)
ASSUME SourcesAssumption ==
  \A s \in Sources :
    /\ s.file \in File
    /\ s.file.container \in {"webp_pipe", "gif"} => s.file.codec \notin {"png", "mjpeg"}
    /\ s.options.trim \in {None} \cup [start : Nat, end : Nat \cup {None}]
    /\ s.path.stem \in Seq(Chars)
    /\ s.options.name \in {None} \cup [stem : Seq(Chars), ext : {None} \cup STRING]

VARIABLES
  job,        \* the command, the target, and the file it names
  analysis,   \* what check says of it, and what is to be done
  source,     \* what is at the path of the source now
  out,        \* what is at the path of the output, None while there is nothing
  stage       \* how far the command has come

vars == <<job, analysis, source, out, stage>>

-----------------------------------------------------------------------------
(* Targets (target.rs) *)

LEGACY_PANORAMA == [id |-> "legacy-panorama", dims |-> <<1920, 960>>, fps |-> 30, format |-> "Mp4"]
KANALI_PANORAMA == [id |-> "kanali-panorama", dims |-> <<2240, 1080>>, fps |-> 30, format |-> "RawH264"]
KANALI_TURRIS == [id |-> "kanali-turris", dims |-> <<1280, 720>>, fps |-> 30, format |-> "Mxhd"]

Targets == {LEGACY_PANORAMA, KANALI_PANORAMA, KANALI_TURRIS}

-----------------------------------------------------------------------------
(* Names (check.rs): [stem, ext], the extension None when there is none.   *)

(* Mutant: trimmed before the cut. *)
TrimmedFirst(stem) ==
  LET Kept(done, ch) ==
        IF ch \in {"a", "."} THEN Append(done, ch)
        ELSE IF done # <<>> /\ done[Len(done)] # "-" THEN Append(done, "-") ELSE done
      clean == FoldLeft(Kept, <<>>, stem)
      solid == {i \in 1..Len(clean) : clean[i] \notin {"-", "."}}
  IN  IF solid = {} THEN <<"a">> ELSE SubSeq(clean, Min(solid), Min({Max(solid), Min(solid) + MaxStem - 1}))

(* Reduces a stem to the characters a device takes. *)
sanitize_stem(stem) ==
  LET Kept(done, ch) ==
        IF ch \in {"a", "."} THEN Append(done, ch)
        ELSE IF done # <<>> /\ done[Len(done)] # "-" THEN Append(done, "-") ELSE done
      clean == FoldLeft(Kept, <<>>, stem)
      short == SubSeq(clean, 1, Min({Len(clean), MaxStem}))
      solid == {i \in 1..Len(short) : short[i] \notin {"-", "."}}
  IN  IF solid = {} THEN <<"a">> ELSE SubSeq(short, Min(solid), Max(solid))

(* A requested name loses the suffix only when it is the one it will get;  *)
(* any other suffix is a part of the stem.                                 *)
stem_of(path, requested, ext) ==
  IF requested = None THEN path.stem
  ELSE IF requested.ext \in {None, ext} THEN requested.stem
  ELSE requested.stem \o <<".", "a">>

extension_of(path, kind, passthrough) ==
  IF kind # "Image" THEN "mp4"
  ELSE IF passthrough /\ path.ext \in {"png", "jpg"} THEN path.ext ELSE "png"

-----------------------------------------------------------------------------
(* ffprobe's facts (probe.rs) *)

IMAGE_CONTAINERS == {"png_pipe", "jpeg_pipe", "webp_pipe", "gif"}

Distance(a, b) == IF a < b THEN b - a ELSE a - b

(* The first real video stream: attached pictures do not count. *)
HasVideo(file) == file.video

classify(file) ==
  LET many == file.frames # None /\ file.frames > 1
      lasts == /\ file.codec \in {"gif", "webp"}
               /\ file.duration # None /\ file.duration > 15
  IN  IF ~HasVideo(file) THEN None
      ELSE IF file.container \notin IMAGE_CONTAINERS THEN "Video"
      ELSE IF many \/ lasts THEN "AnimatedImage" ELSE "Image"

(* Dimensions after rotation and pixel aspect, rounded. *)
display_dims(file) ==
  LET turned == IF file.rotation \in {90, 270} THEN <<file.dims[2], file.dims[1]>> ELSE file.dims
      n == file.sar[1]
      d == file.sar[2]
  IN  <<(2 * turned[1] * n + d) \div (2 * d), turned[2]>>

-----------------------------------------------------------------------------
(* Findings (check.rs): a severity, and what the plan must do about it.    *)

Finding(code, severity, needs) == [code |-> code, severity |-> severity, needs |-> needs]
ok(code) == Finding(code, "Ok", {})
auto(code, needs) == Finding(code, "Auto", needs)
decide(code, needs) == Finding(code, "Decide", needs)
fatal(code) == Finding(code, "Fatal", {})

check_size(file) ==
  IF file.size = 0 THEN {fatal("EMPTY")}
  ELSE IF file.size > MaxSource THEN {fatal("SIZE")} ELSE {}

is_default(t) == t = [mode |-> "Fit", turns |-> 0, zoom |-> 1000, focus |-> <<5000, 5000>>, bg |-> 0]

check_transform(o) ==
  IF o.explicit \/ ~is_default(o.transform)
  THEN {Finding("TRANSFORM", "Ok", {"re_encode"})} ELSE {}

check_pixels(file, tonemap) ==
  LET alpha == file.pix \in {"rgba", "yuva420p", "pal8"}
      plain == file.codec \in {"png", "mjpeg"} \/ file.pix = "yuv420p"
  IN  {IF alpha THEN decide("ALPHA", {"re_encode"})
       ELSE IF plain THEN ok("PIXFMT") ELSE auto("PIXFMT", {"re_encode"})}
      \cup (IF ~file.hdr THEN {}
            ELSE IF tonemap THEN {decide("HDR", {"re_encode", "tonemap"})}
            ELSE {fatal("HDR")})

(* Aspect ratios within one hundredth of the target's match. *)
aspect_matches(dims, target) ==
  100 * Distance(dims[1] * target.dims[2], target.dims[1] * dims[2]) <= target.dims[1] * dims[2]

check_geometry(file, target, o) ==
  LET shown == display_dims(file)
  IN  (IF file.rotation # 0 THEN {auto("ROTATION", {"re_encode"})}
       ELSE IF shown[1] # file.dims[1] THEN {auto("SAR", {"re_encode"})} ELSE {})
      \cup {IF 0 \in {shown[1], shown[2]} THEN fatal("GEOMETRY")
            ELSE IF shown = target.dims THEN ok("RESOLUTION")
            ELSE IF aspect_matches(shown, target) THEN auto("RESOLUTION", {"re_encode"})
            ELSE IF o.explicit THEN Finding("ASPECT", "Ok", {"re_encode"})
            ELSE decide("ASPECT", {"re_encode"})}

check_image(file, target, o) ==
  {IF file.codec \in {"png", "mjpeg"} THEN ok("CODEC") ELSE auto("CODEC", {"re_encode"})}
  \cup check_pixels(file, o.tonemap) \cup check_geometry(file, target, o)

compliant_codec(file) ==
  /\ file.codec = "h264"
  /\ file.profile \in {"Baseline", "Constrained Baseline", "Main", "High"}
  /\ file.level = None \/ file.level <= 41

check_rate(file, target) ==
  LET near == file.rate # None /\ Distance(file.rate, 1000 * target.fps) < 50
      steady == file.average = None \/ Distance(file.average, file.rate) <= 500
  IN  IF near /\ steady THEN ok("FPS") ELSE auto("FPS", {"re_encode"})

check_video(file, target, o) ==
  {IF compliant_codec(file) THEN ok("CODEC") ELSE auto("CODEC", {"re_encode"}),
   check_rate(file, target)}
  \cup check_pixels(file, o.tonemap) \cup check_geometry(file, target, o)
  \cup (IF file.bframes THEN {auto("BFRAMES", {"re_encode"})} ELSE {})
  \cup (IF target.format # "Mp4" THEN {}
        ELSE {IF file.container = "mp4" THEN ok("CONTAINER") ELSE auto("CONTAINER", {"remux"})}
             \cup (IF file.audio THEN {auto("AUDIO", {"remux"})} ELSE {}))

(* A range that starts behind the end, or ends half a second behind it. *)
outside(trim, file) ==
  /\ file.duration # None
  /\ trim.start >= file.duration \/ (trim.end # None /\ trim.end > file.duration + 50)

check_trim(file, kind, o) ==
  IF o.trim = None THEN {}
  ELSE IF kind = "Image" \/ outside(o.trim, file) THEN {fatal("TRIM")}
  ELSE {auto("TRIM", {"re_encode"})}

check_format(target) ==
  IF target.format # "Mp4" THEN {auto("FORMAT", {"re_encode"})} ELSE {}

(* The report: findings, what they ask for, and the name on the display.   *)
(* A re-encode makes a rewrap needless.                                    *)
check(path, file, target, o) ==
  LET kind == classify(file)
      measured == check_size(file) \cup
        (IF kind = None THEN {fatal("STREAM")}
         ELSE check_transform(o) \cup check_trim(file, kind, o) \cup check_format(target) \cup
              (IF kind = "Image" THEN check_image(file, target, o) ELSE check_video(file, target, o)))
      needs == UNION {f.needs : f \in measured}
      passthrough == kind # None /\ {"re_encode", "remux"} \cap needs = {}
      ext == extension_of(path, kind, passthrough)
      stem == stem_of(path, o.name, ext)
      renamed == IF kind # None /\ sanitize_stem(stem) # stem THEN {auto("NAME", {})} ELSE {}
  IN  [kind |-> kind, findings |-> measured \cup renamed, needs |-> needs,
       name |-> [stem |-> sanitize_stem(stem), ext |-> ext]]

Severities(report) == {f.severity : f \in report.findings}

(* Mutant: strict minds only the decisions. *)
MindsDecisions(report, strict) ==
  /\ "Fatal" \notin Severities(report)
  /\ strict => "Decide" \notin Severities(report)

acceptable(report, strict) ==
  /\ "Fatal" \notin Severities(report)
  /\ strict => Severities(report) \subseteq {"Ok"}

-----------------------------------------------------------------------------
(* Plans (plan.rs); a report with no usable stream has none.               *)

(* Mutant: a rewrap wins over a re-encode. *)
RewrapFirst(report, target, o) ==
  LET image == report.kind = "Image"
      action == IF "remux" \in report.needs THEN "Remux"
                ELSE IF "re_encode" \in report.needs THEN "Encode" ELSE "Passthrough"
      still == image /\ target.format = "Mp4"
  IN  [kind |-> report.kind, action |-> action, name |-> report.name,
       trim |-> IF image THEN None ELSE o.trim,
       tonemap |-> action = "Encode" /\ ~still /\ "tonemap" \in report.needs,
       codec |-> IF action # "Encode" THEN "copy" ELSE IF still THEN "png" ELSE "h264"]

from_report(report, target, o) ==
  LET image == report.kind = "Image"
      action == IF "re_encode" \in report.needs THEN "Encode"
                ELSE IF "remux" \in report.needs THEN "Remux" ELSE "Passthrough"
      still == image /\ target.format = "Mp4"
  IN  [kind |-> report.kind, action |-> action, name |-> report.name,
       trim |-> IF image THEN None ELSE o.trim,
       tonemap |-> action = "Encode" /\ ~still /\ "tonemap" \in report.needs,
       codec |-> IF action # "Encode" THEN "copy" ELSE IF still THEN "png" ELSE "h264"]

-----------------------------------------------------------------------------
(* The transform (transform.rs) *)

(* Mutant: no lower limit for the zoom. *)
AnyZoom(t) ==
  /\ t.turns \in 0..3
  /\ t.zoom \in Nat /\ t.zoom <= 4000
  /\ \A i \in 1..2 : t.focus[i] \in Nat /\ t.focus[i] <= 10000
  /\ t.mode # "Crop" => t.zoom = 1000 /\ t.focus = <<5000, 5000>>
  /\ t.mode # "Fit" => t.bg = 0

validate(t) ==
  /\ t.turns \in 0..3
  /\ t.zoom \in Nat /\ 1000 <= t.zoom /\ t.zoom <= 4000
  /\ \A i \in 1..2 : t.focus[i] \in Nat /\ t.focus[i] <= 10000
  /\ t.mode # "Crop" => t.zoom = 1000 /\ t.focus = <<5000, 5000>>
  /\ t.mode # "Fit" => t.bg = 0

(* The size of the picture the viewport is cut from: scaled to cover the   *)
(* target (rounded to even pixels, ffmpeg's part) and zoomed.              *)
Covering(dims, target, zoom) ==
  LET scaled(i, j) == Max({target.dims[i], (2 * target.dims[j] * dims[i] + dims[j]) \div (2 * dims[j])})
      even(n) == 2 * ((n + 1) \div 2)
      zoomed(n) == 2 * ((even(n) * zoom) \div 2000)
  IN  <<zoomed(scaled(1, 2)), zoomed(scaled(2, 1))>>

(* The viewport of Fill and Crop lies in the picture, so the graph runs    *)
(* and gives the target's size; Fit and Stretch always do.                 *)
cover_viewport(dims, target, t) ==
  LET whole == Covering(dims, target, t.zoom)
      corner == [i \in 1..2 |-> 2 * (((whole[i] - target.dims[i]) * t.focus[i]) \div 20000)]
  IN  \A i \in 1..2 : corner[i] >= 0 /\ corner[i] + target.dims[i] <= whole[i]

geometry_filter(file, target, t) ==
  LET shown == display_dims(file)
      turned == IF t.turns \in {1, 3} THEN <<shown[2], shown[1]>> ELSE shown
  IN  t.mode \in {"Fill", "Crop"} => cover_viewport(turned, target, t)

-----------------------------------------------------------------------------
(* What ffmpeg makes of its arguments.  -map 0:v:0 takes the first stream  *)
(* of pictures, an attached one as well.                                   *)

Mapped(file) == IF file.cover = "first" THEN "cover" ELSE "video"

(* The frames a plan leaves: one for a still, a minute of a still for      *)
(* KANALI, else those of the part that is kept.                            *)
Frames(file, target, plan) ==
  LET from == IF plan.trim = None THEN 0 ELSE plan.trim.start
      end == IF plan.trim = None \/ plan.trim.end = None THEN file.length
             ELSE Min({plan.trim.end, file.length})
  IN  IF plan.kind = "Image" THEN IF target.format = "RawH264" THEN 60 * target.fps ELSE 1
      ELSE IF Mapped(file) = "cover" THEN 1
      ELSE IF end <= from THEN 0 ELSE 1 + ((end - from) * target.fps) \div 100

(* Neither a bare stream nor a PNG tells ffprobe as much as an MP4 does: a *)
(* rate in fields for the one, no duration for the other.                  *)
Encoded(file, target, plan) ==
  LET frames == Frames(file, target, plan)
      time == (frames * 100) \div target.fps
      png == plan.codec = "png"
      bare == target.format # "Mp4"
  IN  [video |-> frames > 0, cover |-> "none", shows |-> Mapped(file), header |-> None,
       codec |-> plan.codec, pix |-> IF png THEN "rgb24" ELSE "yuv420p",
       container |-> IF png THEN "png_pipe" ELSE IF bare THEN "h264" ELSE "mp4",
       profile |-> IF png THEN None ELSE IF target.format = "Mxhd" THEN "Main" ELSE "High",
       level |-> IF png THEN None ELSE IF target.format = "RawH264" THEN 50 ELSE 41,
       bframes |-> target.format = "RawH264", audio |-> FALSE, hdr |-> file.hdr /\ ~plan.tonemap,
       dims |-> target.dims, sar |-> <<1, 1>>, rotation |-> 0,
       rate |-> IF bare THEN 2000 * target.fps ELSE 1000 * target.fps, average |-> 1000 * target.fps,
       frames |-> frames, duration |-> IF png THEN None ELSE time, length |-> time,
       size |-> IF bare /\ frames = 0 THEN 0 ELSE 1]

Rewrapped(file) ==
  LET stream == [file EXCEPT !.container = "mp4", !.audio = FALSE, !.cover = "none"]
  IN  IF Mapped(file) = "video" THEN stream
      ELSE [stream EXCEPT !.codec = "mjpeg", !.shows = "cover", !.frames = 1]

-----------------------------------------------------------------------------
(* The command *)

asked == job.source.options
file == job.source.file
report == analysis.report
plan == analysis.plan

(* Without -o, convert writes to the name for the display, in the current  *)
(* directory: where the source is too, if the command runs there.          *)
Aliased == job.command = "convert" /\ job.here /\ plan.name = job.source.path

(* Command lines that options() accepts. *)
Init ==
  /\ \E c \in Commands, t \in Targets, s \in Sources :
       /\ validate(s.options.transform)
       /\ job = [command |-> c.command, strict |-> c.strict, here |-> c.here, target |-> t, source |-> s]
  /\ analysis = None
  /\ source = file
  /\ out = None
  /\ stage = "asked"

analyse ==
  /\ stage = "asked"
  /\ LET found == check(job.source.path, file, job.target, asked)
     IN  /\ analysis' = [report |-> found,
                         plan |-> IF found.kind = None THEN None ELSE from_report(found, job.target, asked)]
         /\ stage' = IF acceptable(found, job.strict) THEN "planned" ELSE "refused"
  /\ UNCHANGED <<job, source, out>>

(* upload sends a compliant source from where it is. *)
Send ==
  /\ stage = "planned"
  /\ job.command = "upload" /\ plan.action = "Passthrough"
  /\ out' = source
  /\ stage' = "done"
  /\ UNCHANGED <<job, analysis, source>>

(* convert copies it: opening the output cuts it off, the source as well   *)
(* when they are one file.                                                 *)
Copy ==
  /\ stage = "planned"
  /\ job.command = "convert" /\ plan.action = "Passthrough"
  /\ source' = IF Aliased THEN [source EXCEPT !.video = FALSE, !.size = 0] ELSE source
  /\ out' = source'
  /\ stage' = "run"
  /\ UNCHANGED <<job, analysis>>

(* ffmpeg does what it is told, which it refuses for an output that is its *)
(* input and for a graph that asks for more pixels than there are.         *)
Run ==
  /\ stage = "planned"
  /\ plan.action # "Passthrough"
  /\ ~Aliased
  /\ plan.action = "Encode" => geometry_filter(source, job.target, asked.transform)
  /\ out' = IF plan.action = "Encode" THEN Encoded(source, job.target, plan) ELSE Rewrapped(source)
  /\ stage' = "run"
  /\ UNCHANGED <<job, analysis, source>>

(* It fails, and leaves a part: upload removes it. *)
RunFails ==
  /\ stage = "planned"
  /\ plan.action # "Passthrough"
  /\ \/ out' = None
     \/ job.command = "convert" /\ ~Aliased /\ out' = [source EXCEPT !.video = FALSE]
  /\ stage' = "broken"
  /\ UNCHANGED <<job, analysis, source>>

(* The plan's promise, measured on the output. *)
verify(output) ==
  LET target == job.target
      container == IF target.format = "Mp4" THEN "mp4" ELSE "h264"
      stream == output.codec = "h264" /\ output.container = container
  IN  /\ output.size > 0
      /\ HasVideo(output)
      /\ CASE plan.action = "Passthrough" -> TRUE
         [] plan.action = "Remux" -> stream
         [] plan.action = "Encode" /\ plan.kind = "Image" /\ target.format = "Mp4" ->
              output.codec = "png" /\ output.dims = target.dims
         [] OTHER ->
              /\ stream
              /\ output.dims = target.dims
              /\ target.format = "Mp4" => output.rate # None /\ Distance(output.rate, 1000 * target.fps) <= 50
              /\ ~output.audio

(* finish_stage: a Turris stream gets its header, with the frames counted  *)
(* in it; a still must be one frame.                                       *)
Wrapped ==
  [out EXCEPT !.container = "mxhd",
              !.header = [kind |-> IF plan.kind = "Image" THEN 2 ELSE 4, frames |-> out.frames]]

finish_stage ==
  /\ stage = "run"
  /\ LET wraps == job.target.format = "Mxhd" /\ plan.action # "Passthrough"
         verified == verify(out)
         one == wraps /\ plan.kind = "Image" => out.frames = 1
     IN  /\ stage' = IF verified /\ one THEN "done" ELSE "failed"
         /\ out' = CASE verified /\ one -> IF wraps THEN Wrapped ELSE out
                   [] ~verified /\ job.command = "convert" -> out
                   [] OTHER -> None
  /\ UNCHANGED <<job, analysis, source>>

Next == analyse \/ Send \/ Copy \/ Run \/ RunFails \/ finish_stage

Spec == Init /\ [][Next]_vars

-----------------------------------------------------------------------------
(* Properties *)

Stages == {"asked", "planned", "run", "refused", "broken", "failed", "done"}

(* The stages, and that a plan and an output exist where a later step      *)
(* relies on them.                                                         *)
TypeOK ==
  /\ stage \in Stages
  /\ job.source \in Sources /\ job.target \in Targets /\ validate(asked.transform)
  /\ stage \notin {"asked", "refused"} => plan.action \in {"Passthrough", "Remux", "Encode"}
  /\ stage \in {"run", "done"} => out.size \in Nat
  /\ stage \in {"asked", "planned"} => out = None /\ source = file

(* What each firmware plays, said of the file alone (target.rs, lib.rs and *)
(* the measured uploads it quotes).                                        *)
Plays(target, f) ==
  /\ f.size > 0 /\ HasVideo(f) /\ f.dims = target.dims
  /\ f.rotation = 0
  /\ CASE target.format = "Mp4" ->
            \/ f.container \in {"png_pipe", "jpeg_pipe"} /\ f.codec \in {"png", "mjpeg"}
            \/ /\ f.container = "mp4" /\ compliant_codec(f) /\ f.pix = "yuv420p"
               /\ Distance(f.rate, 1000 * target.fps) < 50
               /\ ~f.bframes /\ ~f.audio
       [] target.format = "RawH264" ->
            f.container = "h264" /\ f.codec = "h264" /\ f.pix = "yuv420p" /\ ~f.audio
       [] target.format = "Mxhd" ->
            /\ f.container = "mxhd" /\ f.codec = "h264" /\ f.profile = "Main"
            /\ ~f.bframes /\ ~f.audio
            /\ f.header.frames = f.frames
            /\ f.header.kind = 2 => f.frames = 1

(* What leaves the pipeline is something the display plays, whichever way  *)
(* it took: as it was, rewrapped or encoded (check.rs, plan.rs and verify  *)
(* of encode.rs each know a part of what that means).                      *)
SentIsPlayable == stage = "done" => Plays(job.target, out)

(* Preparing is a fixed point: a file prepared for a cm01 display, checked *)
(* again under the name it got, is compliant and keeps that name.  A still *)
(* that ffmpeg leaves in HDR is the exception, see ToneMaps.               *)
DefaultOptions ==
  [transform |-> [mode |-> "Fit", turns |-> 0, zoom |-> 1000, focus |-> <<5000, 5000>>, bg |-> 0],
   explicit |-> FALSE, tonemap |-> TRUE, name |-> None, trim |-> None]

Settled ==
  stage = "done" /\ job.target.format = "Mp4" /\ ~out.hdr =>
    LET again == check(plan.name, out, job.target, DefaultOptions)
    IN  acceptable(again, TRUE) /\ again.needs = {} /\ again.name = plan.name

(* Under --strict nothing is changed but what was asked for: a source that *)
(* is accepted goes out as it is, unless a transform was requested (every  *)
(* check that asks for work must also say so, Report::acceptable).         *)
StrictIsUntouched ==
  stage = "done" /\ job.strict /\ check_transform(asked) = {} => out = file

(* What a plan tells ffmpeg is what verify asks for: a command that ffmpeg *)
(* carried out fails only when the range had no frame in it or the source  *)
(* began with a cover, and the graph of every valid transform can run.     *)
VerifiesWhatItPlans ==
  /\ stage = "failed" /\ ~Aliased =>
       Mapped(file) = "cover" \/ Frames(file, job.target, plan) = 0
  /\ stage = "planned" =>
       geometry_filter(file, job.target, asked.transform)

(* Preparing a file leaves the file as it is (media.rs:605 calls it "the   *)
(* user's input", plan.rs:12 says it goes "to the display unchanged").     *)
SourceKept == source = file

(* The stream that is encoded is the one that was checked (probe.rs:184,   *)
(* "ignoring attached pictures").                                          *)
ShowsWhatWasChecked == stage = "done" => out.shows = "video"

(* A report that promises to tone-map is kept (check.rs:540).              *)
ToneMaps == stage = "done" /\ "tonemap" \in report.needs => ~out.hdr

=============================================================================
