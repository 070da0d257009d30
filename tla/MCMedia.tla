------------------------------ MODULE MCMedia ------------------------------
(* Sources that depart from well-known files in at most two facts, with    *)
(* options that depart from the defaults in at most two, for each target.  *)
EXTENDS Media

A == <<"a">>
Path(stem, ext) == [stem |-> stem, ext |-> ext]

Video ==
  [video |-> TRUE, cover |-> "none", shows |-> "video", container |-> "mp4", codec |-> "h264",
   profile |-> "High", level |-> 41, pix |-> "yuv420p", dims |-> <<1920, 960>>, sar |-> <<1, 1>>,
   rotation |-> 0, rate |-> 30000, average |-> 30000, bframes |-> FALSE, audio |-> FALSE,
   hdr |-> FALSE, frames |-> 300, duration |-> 1000, length |-> 1000, size |-> 1, header |-> None]

Picture == [Video EXCEPT !.container = "png_pipe", !.codec = "png", !.profile = None, !.level = None,
                         !.pix = "rgb24", !.rate = 25000, !.average = 25000, !.frames = None,
                         !.duration = None, !.length = 4]

Animation == [Picture EXCEPT !.container = "gif", !.codec = "gif", !.pix = "pal8", !.duration = 200,
                             !.length = 200]

Still(container, codec, pix) == [Picture EXCEPT !.container = container, !.codec = codec, !.pix = pix]

Videos == {Video, [Video EXCEPT !.container = "matroska"]}
Stills == {Picture, Still("jpeg_pipe", "mjpeg", "yuvj444p"), Still("webp_pipe", "webp", "yuv420p"), Animation}

StillFacts ==
  [video |-> {FALSE}, dims |-> {<<1280, 720>>, <<960, 480>>, <<1930, 960>>, <<641, 481>>, <<0, 0>>},
   pix |-> {"yuv420p", "rgba"}, sar |-> {<<2, 1>>}, rotation |-> {90}, hdr |-> {TRUE},
   frames |-> {1, 2}, duration |-> {None, 15, 16}, size |-> {0, 3}]

VideoFacts ==
  [cover |-> {"first", "last"}, codec |-> {"hevc"}, profile |-> {"High 10"}, level |-> {None, 42},
   dims |-> {<<2240, 1080>>, <<960, 480>>, <<641, 481>>, <<960, 1920>>}, pix |-> {"yuv420p10le"},
   sar |-> {<<2, 1>>}, rotation |-> {90}, rate |-> {29970, 60000, None}, average |-> {29000, None},
   bframes |-> {TRUE}, audio |-> {TRUE}, hdr |-> {TRUE}, duration |-> {None}, size |-> {3}]

Vary(records, alternatives) ==
  records \cup UNION {{[r EXCEPT ![field] = v] : v \in alternatives[field]} :
                       r \in records, field \in DOMAIN alternatives}

Transforms ==
  LET T(mode, turns, zoom, focus, bg) == [mode |-> mode, turns |-> turns, zoom |-> zoom, focus |-> focus, bg |-> bg]
  IN  {T("Fill", 0, 1000, <<5000, 5000>>, 0), T("Crop", 1, 4000, <<10000, 0>>, 0),
       T("Crop", 0, 1001, <<9999, 10000>>, 0), T("Stretch", 2, 1000, <<5000, 5000>>, 0),
       T("Fit", 3, 1000, <<5000, 5000>>, 255), T("Fill", 0, 1500, <<5000, 5000>>, 0),
       T("Crop", 0, 999, <<5000, 5000>>, 0)}

Trim(start, end) == [start |-> start, end |-> end]

Alternatives ==
  [transform |-> Transforms, explicit |-> {TRUE}, tonemap |-> {FALSE},
   name |-> {Path(<<" ", "a", " ">>, "png"), Path(A, "mp4"), Path(<<".", "-">>, None)},
   trim |-> {Trim(0, 500), Trim(900, 1040), Trim(1000, None), Trim(1005, None)}]

Paths == {Path(A, "mp4"), Path(<<"a", "-", "a">>, "png"), Path(<<" ", "a", " ", " ">>, "mov")}

One == Vary(Videos, VideoFacts) \cup Vary(Stills, StillFacts)
Two == Vary(Vary(Videos, VideoFacts), VideoFacts) \cup Vary(Vary(Stills, StillFacts), StillFacts)

Combinations ==
  Two \X {DefaultOptions} \X {Path(A, "mp4")}
  \cup One \X Vary({DefaultOptions}, Alternatives) \X {Path(A, "png")}
  \cup (Videos \cup Stills) \X Vary(Vary({DefaultOptions}, Alternatives), Alternatives) \X Paths

MCSources == {[file |-> c[1], options |-> c[2], path |-> c[3]] : c \in Combinations}

Command(command, strict, here) == [command |-> command, strict |-> strict, here |-> here]

MCCommands == {Command("upload", TRUE, TRUE), Command("upload", FALSE, TRUE), Command("convert", FALSE, TRUE)}

=============================================================================
