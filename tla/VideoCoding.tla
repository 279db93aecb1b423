---------------------------- MODULE VideoCoding ----------------------------
(***************************************************************************)
(* Pictures through a codec: the encoder facades and their backends on the *)
(* sender, the access units on their way, the decoder facades and their    *)
(* backends on a receiver.  A picture is a number, the order in which the  *)
(* capture produced it; its timestamp is the same number.  An access unit  *)
(* codes one picture (pic), from the pixels of one (src), under the stamp  *)
(* of one (label).  0 is no picture: an empty unit or surface, pixels      *)
(* nobody captured, a prediction from the wrong reference.                 *)
(***************************************************************************)
EXTENDS Integers, Sequences, FiniteSets

CONSTANTS Gop,          \* keyframe_interval_frames
          ReconPool,    \* the VA-API encoders' reconstruction surfaces (the code's is 2)
          SurfacePool,  \* the VA-API decoder's surfaces (the code's is 8)
          MaxPictures,  \* bound: pictures captured
          MaxTransit    \* bound: access units between the two ends

ASSUME VideoAssumption == Gop \in Nat \ {0} /\ ReconPool \in Nat \ {0, 1} /\ SurfacePool \in Nat \ {0, 1}
                          /\ MaxPictures \in Nat /\ MaxTransit \in Nat \ {0}

VARIABLES vHost,       \* [codec, want, works, pixels]: the configuration and the two machines
          vKind, vVpp, \* the encoder's backend, and whether VPP came up
          vIdx, vPending, vNext, vPrev, vPrevNum, vPoc, vIdrId, \* FrameState
          vRecon,      \* what the reconstruction surfaces hold
          vBuffer, vSize, \* the capture: the buffer behind its fd; its size against the configured one
          vCache,      \* the buffer NVENC registered for that fd
          vLook,       \* pictures inside libx264
          vWire,       \* access units under way
          dKind, dParams, dCtx, dSurf, dNext, dPrev, \* the decoder, WorkerState
          dHeld,       \* pictures inside a library decoder
          dShown, dFailed \* history: the last picture emitted; a failure since the last good IDR

frameState == <<vIdx, vPending, vNext, vPrev, vPrevNum, vPoc, vIdrId>>
capture == <<vBuffer, vSize>>
encoder == <<vHost, vKind, vVpp, frameState, vRecon, vCache, vLook>>
worker == <<dParams, dCtx, dSurf, dNext, dPrev>>
decoder == <<dKind, worker, dHeld, dShown, dFailed>>
videoVars == <<encoder, capture, vWire, decoder>>

Hosts == [codec : {"h264", "h265"}, want : {"", "nvenc", "vaapi", "x264"},
          works : SUBSET {"nvenc", "vaapi"}, pixels : {"bgra", "i420"}]
Pool == 0 .. SurfacePool - 1
Recon == 0 .. ReconPool - 1
NoPrev == -1

\* Type correctness of the encoder's and the decoder's state.
VideoTypeOK ==
  /\ vKind \in {"pending", "nvenc", "vaapi", "x264", "none", "failed"} /\ vVpp \in BOOLEAN
  /\ vIdx \in 0 .. MaxPictures /\ vPending \in BOOLEAN
  /\ vNext \in Recon /\ vPrev \in Recon \union {NoPrev} /\ vPrevNum \in 0 .. 255
  /\ vRecon \in [Recon -> 0 .. MaxPictures]
  /\ Len(vLook) <= 2 /\ Len(vWire) <= MaxTransit
  /\ dKind \in {"pending", "nvdec", "vaapi", "openh264", "refused"}
  /\ dParams \in BOOLEAN /\ dCtx \in BOOLEAN /\ (dCtx => dParams)
  /\ dSurf \in [Pool -> 0 .. MaxPictures] /\ dNext \in Pool /\ dPrev \in Pool \union {NoPrev}
  /\ dFailed \in BOOLEAN

VideoInit ==
  /\ vHost \in Hosts /\ vKind = "pending" /\ vVpp = FALSE
  /\ vIdx = 0 /\ vPending = FALSE /\ vNext = 0 /\ vPrev = NoPrev /\ vPrevNum = 0 /\ vPoc = 0 /\ vIdrId = 0
  /\ vRecon = [s \in Recon |-> 0] /\ vBuffer = 1 /\ vSize = "same" /\ vCache = 0 /\ vLook = <<>>
  /\ vWire = <<>>
  /\ dKind = "pending" /\ dParams = FALSE /\ dCtx = FALSE
  /\ dSurf = [s \in Pool |-> 0] /\ dNext = 0 /\ dPrev = NoPrev /\ dHeld = <<>>
  /\ dShown = [src |-> 0, label |-> 0] /\ dFailed = FALSE

-----------------------------------------------------------------------------
\* The facades' choice of an encoder.

NvencUsable(h) == h.pixels = "bgra" /\ "nvenc" \in h.works
VaapiUsable(h) == h.pixels = "bgra" /\ "vaapi" \in h.works
HevcVaapiUsable(h) == h.pixels = "bgra" /\ "vaapi" \in h.works

\* H264Encoder::configure: NVENC, VA-API, x264, each unless the environment names another.
ChooseH264(h) ==
  IF h.want \in {"", "nvenc"} /\ NvencUsable(h) THEN "nvenc"
  ELSE IF h.want \in {"", "vaapi"} /\ VaapiUsable(h) THEN "vaapi"
  ELSE IF h.want \in {"", "x264"} THEN "x264" ELSE "none"

\* H265Encoder::configure has no software to fall back to.
ChooseH265(h) ==
  IF h.want \in {"", "nvenc"} /\ NvencUsable(h) THEN "nvenc"
  ELSE IF h.want \in {"", "vaapi"} /\ HevcVaapiUsable(h) THEN "vaapi" ELSE "none"

\* The first configure; VPP is an extra the VA-API backends do without.
Configure ==
  /\ vKind = "pending"
  /\ vKind' = IF vHost.codec = "h264" THEN ChooseH264(vHost) ELSE ChooseH265(vHost)
  /\ vVpp' \in IF vKind' = "vaapi" THEN BOOLEAN ELSE {FALSE}
  /\ vHost' = [vHost EXCEPT !.want = "", !.works = {}]
  /\ UNCHANGED <<frameState, vRecon, capture, vCache, vLook, vWire, decoder>>

\* request_keyframe, of the pacing timer or after a PLI; x264 ignores it.
RequestKeyframe ==
  /\ vKind \in {"nvenc", "vaapi"} /\ ~vPending
  /\ vPending' = TRUE
  /\ UNCHANGED <<vHost, vKind, vVpp, vIdx, vNext, vPrev, vPrevNum, vPoc, vIdrId, vRecon, capture,
                 vCache, vLook, vWire, decoder>>

\* The capture renegotiates: a new buffer, whose fd may have the number of the one just closed,
\* perhaps of another size.  NVENC's key holds the dimensions; nobody configures the encoder again.
NewBuffer(size) ==
  /\ vKind \in {"nvenc", "vaapi", "x264"} /\ vBuffer = 1 /\ vIdx > 0
  /\ vBuffer' = 2 /\ vSize' = size
  /\ vCache' \in IF size = "same" THEN {vCache, 0} ELSE {0}
  /\ UNCHANGED <<vHost, vKind, vVpp, frameState, vRecon, vLook, vWire, decoder>>

-----------------------------------------------------------------------------
\* One encode of the next picture.

Picture == vIdx + 1
\* The picture as a reader of the configured size finds it in the capture's rows.
AtConfiguredSize == IF vSize = "same" THEN Picture ELSE 0

IsIdr == vIdx % Gop = 0 \/ vPending
\* The || of the code: a natural IDR leaves the request where it is.
PendingAfter == vPending /\ vIdx % Gop = 0

\* Two parts of an access unit, put together.
With(part, rest) ==
  [field \in DOMAIN part \union DOMAIN rest |->
     IF field \in DOMAIN part THEN part[field] ELSE rest[field]]

\* The access unit leaves for the receiver, its timestamp the captured frame's.
Emit(unit) == vWire' = Append(vWire, With(unit, [label |-> Picture]))

SinceGop == vIdx - (vIdx \div Gop) * Gop
\* frame_num, as the code counts it: from the last multiple of the GOP.
FrameNum == IF IsIdr THEN 0 ELSE SinceGop % 256
Poc == IF IsIdr THEN 0 ELSE vPoc
HevcPoc == IF IsIdr THEN 0 ELSE SinceGop

\* The CPU writes the configured rectangle; VPP scales what it imports.
UploadBgra == [vRecon EXCEPT ![vNext] = AtConfiguredSize]
UploadDmabuf == [vRecon EXCEPT ![vNext] = Picture]
\* A capture smaller than the rectangle panics the conversion.
Uploadable(gpu) == (gpu /\ vVpp) \/ vSize # "smaller"
Upload(gpu) == IF gpu /\ vVpp THEN UploadDmabuf ELSE UploadBgra

\* The previous reconstruction is the only reference, an IDR has none.
ReferenceAhead(surfaces) == IF IsIdr \/ vPrev = NoPrev THEN 0 ELSE surfaces[vNext]
ReferenceOf(surfaces) == IF IsIdr \/ vPrev = NoPrev THEN 0 ELSE surfaces[vPrev]

\* The parameter sets, packed in front of an IDR.
PackedHeaders == [headers |-> IsIdr]
HevcPackedHeaders == [headers |-> IsIdr]

\* What the picture and the slice parameters put into the bitstream.
PictureParam(surfaces) == [pic |-> Picture, src |-> surfaces[vNext], num |-> FrameNum]
SliceParam(surfaces) == [idr |-> IsIdr, ref |-> ReferenceOf(surfaces), poc |-> Poc, id |-> vIdrId]
HevcPictureParam(surfaces) == [pic |-> Picture, src |-> surfaces[vNext], poc |-> HevcPoc]
HevcSliceParam(surfaces) == [idr |-> IsIdr, ref |-> ReferenceOf(surfaces)]

\* What both VA-API encoders leave behind a picture.
Reconstructed(surfaces) ==
  /\ vRecon' = surfaces
  /\ vNext' = (vNext + 1) % ReconPool /\ vPrev' = vNext
  /\ vIdx' = vIdx + 1 /\ vPending' = PendingAfter
  /\ UNCHANGED <<vHost, vKind, vVpp, capture, vCache, vLook, decoder>>

EncodeVaapi(gpu) ==
  LET surfaces == Upload(gpu) IN
  /\ vKind = "vaapi" /\ vHost.codec = "h264" /\ Uploadable(gpu)
  /\ Emit(With(With(PictureParam(surfaces), SliceParam(surfaces)), PackedHeaders))
  /\ vPrevNum' = FrameNum
  /\ vPoc' = IF IsIdr THEN 2 ELSE vPoc + 2
  /\ vIdrId' = IF IsIdr THEN 1 - vIdrId ELSE vIdrId
  /\ Reconstructed(surfaces)

EncodeHevcVaapi(gpu) ==
  LET surfaces == Upload(gpu) IN
  /\ vKind = "vaapi" /\ vHost.codec = "h265" /\ Uploadable(gpu)
  /\ Emit(With(With(HevcPictureParam(surfaces), HevcSliceParam(surfaces)), HevcPackedHeaders))
  /\ vPoc' = HevcPoc
  /\ UNCHANGED <<vPrevNum, vIdrId>>
  /\ Reconstructed(surfaces)

\* The buffer NVENC reads for this fd: the one it registered under that key.
RegisteredFor == IF vCache = 0 THEN vBuffer ELSE vCache
\* encode_dmabuf reads the registered buffer, encode_cpu the first bytes of the frame's own.
DmabufPixels == IF RegisteredFor = vBuffer THEN AtConfiguredSize ELSE 0
HostPixels == AtConfiguredSize

EncodeNvenc(gpu) ==
  /\ vKind = "nvenc" /\ (~gpu => vSize # "smaller")
  /\ Emit([pic |-> Picture, src |-> IF gpu THEN DmabufPixels ELSE HostPixels, idr |-> IsIdr,
           ref |-> IF IsIdr THEN 0 ELSE vIdx, headers |-> IsIdr])
  /\ vCache' = IF gpu THEN RegisteredFor ELSE vCache
  /\ vIdx' = vIdx + 1 /\ vPending' = PendingAfter
  /\ UNCHANGED <<vHost, vKind, vVpp, vNext, vPrev, vPrevNum, vPoc, vIdrId, vRecon, capture, vLook, decoder>>

\* libx264 answers with the picture that leaves its lookahead, if one does.
EncodeX264(delay) ==
  /\ vKind = "x264"
  /\ LET held == Append(vLook, [pic |-> Picture, src |-> AtConfiguredSize])
         full == Len(held) > delay
         out == IF full THEN Head(held) ELSE [pic |-> 0, src |-> 0]
         intra == full /\ (out.pic - 1) % Gop = 0
     IN  /\ vLook' = IF full THEN Tail(held) ELSE held
         /\ Emit(With(out, [idr |-> intra, ref |-> IF full /\ ~intra THEN out.pic - 1 ELSE 0,
                         headers |-> intra]))
  /\ vIdx' = vIdx + 1
  /\ UNCHANGED <<vHost, vKind, vVpp, vPending, vNext, vPrev, vPrevNum, vPoc, vIdrId, vRecon, capture, vCache, decoder>>

\* Every failure of encode is an error to the streaming loop, which ends the stream.
EncodeFails ==
  /\ vKind \in {"nvenc", "vaapi", "x264"}
  /\ vKind' = "failed" /\ vPending' = FALSE
  /\ UNCHANGED <<vHost, vVpp, vIdx, vNext, vPrev, vPrevNum, vPoc, vIdrId, vRecon, capture, vCache, vLook, vWire, decoder>>

Encode ==
  /\ vIdx < MaxPictures /\ Len(vWire) < MaxTransit
  /\ \/ \E gpu \in BOOLEAN : EncodeVaapi(gpu) \/ EncodeHevcVaapi(gpu) \/ EncodeNvenc(gpu)
     \/ \E delay \in {0, 2} : (vIdx > 0 => delay = 2) /\ EncodeX264(delay)
     \/ EncodeFails

\* The puller gives segments up to stay near the live edge; a segment begins with an IDR.
SkipToSegment(n) ==
  /\ n \in 2 .. Len(vWire) /\ vWire[n].idr
  /\ vWire' = SubSeq(vWire, n, Len(vWire))
  /\ UNCHANGED <<encoder, capture, decoder>>

-----------------------------------------------------------------------------
\* The receiver's decoder.

\* The next access unit, cut into its NAL units.
Unit == Head(vWire)

\* H264Decoder::configure: NVDEC unless another is named, and an NVDEC that probes but does not
\* open fails the LOAD; VA-API only when named; openh264.
DecoderChoices == {"nvdec", "vaapi", "openh264", "refused"}
\* H265Decoder::configure: NVDEC, then VA-API.
HevcDecoderChoices == {"nvdec", "vaapi", "refused"}

ConfigureDecoder(kind) ==
  /\ dKind = "pending" /\ vWire # <<>> /\ Unit.idr
  /\ kind \in IF vHost.codec = "h264" THEN DecoderChoices ELSE HevcDecoderChoices
  /\ dKind' = kind
  /\ UNCHANGED <<encoder, capture, vWire, worker, dHeld, dShown, dFailed>>

\* What can go wrong with one.  "early": the header does not parse, or there is no context;
\* "late": no placeholder; "submit": the driver refuses the picture, whose surface is lost.
Outcomes == {"early", "late", "submit", "done"}

\* A picture decoded against what a surface holds.
Decoded(unit, reference) ==
  IF unit.idr \/ (reference = unit.ref /\ reference # 0) THEN unit.pic ELSE 0

\* What the sink is given: pixels, under a timestamp.
Show(src, unit) == dShown' = [src |-> src, label |-> unit.label]

\* Parameter sets come with every IDR; without both of them the unit is put aside.
ParamsAfter(unit) == dParams \/ unit.headers

\* take_output_surface: round the pool, past the reference.
OutputSurface == IF dPrev # NoPrev /\ dNext = dPrev THEN (dNext + 1) % SurfacePool ELSE dNext
SurfaceAfter(surface) == surface + 1
NextSurface(surface) == (surface + 1) % SurfacePool

PrevAtDecode(unit) == IF unit.idr THEN NoPrev ELSE dPrev
ReferencePicture(unit) == LET prev == PrevAtDecode(unit) IN IF prev = NoPrev THEN 0 ELSE dSurf[prev]

\* One Cmd::Decode of the worker.
DecodeVaapi(outcome) ==
  LET unit == Unit
      surface == OutputSurface
      shown == Decoded(unit, ReferencePicture(unit))
  IN
  /\ dKind = "vaapi" /\ vHost.codec = "h264"
  /\ dParams' = ParamsAfter(unit)
  /\ \/ /\ ~ParamsAfter(unit) \/ unit.pic = 0
        /\ outcome = "done"
        /\ UNCHANGED <<dCtx, dSurf, dNext, dPrev, dShown, dFailed>>
     \/ /\ ParamsAfter(unit) /\ unit.pic # 0
        /\ outcome = "early"
        /\ dFailed' = TRUE /\ UNCHANGED <<dCtx, dSurf, dNext, dPrev, dShown>>
     \/ /\ ParamsAfter(unit) /\ unit.pic # 0
        /\ dCtx' = TRUE
        /\ dNext' = NextSurface(surface)
        /\ \/ /\ outcome = "late"
              /\ dPrev' = PrevAtDecode(unit)
              /\ dFailed' = TRUE /\ UNCHANGED <<dSurf, dShown>>
           \/ /\ outcome = "submit"
              /\ dSurf' = [dSurf EXCEPT ![surface] = 0]
              /\ dPrev' = PrevAtDecode(unit)
              /\ dFailed' = TRUE /\ UNCHANGED dShown
           \/ /\ outcome = "done"
              /\ dSurf' = [dSurf EXCEPT ![surface] = shown]
              /\ dPrev' = surface
              /\ Show(IF shown = 0 THEN 0 ELSE unit.src, unit)
              /\ dFailed' = (dFailed /\ ~unit.idr)
  /\ UNCHANGED dHeld

\* The HEVC worker has no slice submission: every unit is an error.
DecodeHevcVaapi ==
  /\ dKind = "vaapi" /\ vHost.codec = "h265"
  /\ dFailed' = TRUE
  /\ UNCHANGED <<worker, dHeld, dShown>>

\* NVDEC and openh264 predict inside the library; at most one picture comes out per unit put
\* in, under that unit's timestamp.  NVDEC may hold a picture until the next one begins.
DecodeLibrary(hold) ==
  LET unit == Unit
      queue == IF unit.pic = 0 THEN dHeld ELSE Append(dHeld, unit.src)
  IN
  /\ dKind \in {"nvdec", "openh264"} /\ (hold = 1 => dKind = "nvdec")
  /\ (dShown.label > 0 => hold = Len(dHeld))
  /\ IF Len(queue) > hold THEN dHeld' = Tail(queue) /\ Show(Head(queue), unit)
                          ELSE dHeld' = queue /\ UNCHANGED dShown
  /\ UNCHANGED <<worker, dFailed>>

Decode ==
  /\ vWire # <<>>
  /\ vWire' = Tail(vWire)
  /\ \/ \E outcome \in Outcomes : DecodeVaapi(outcome)
     \/ DecodeHevcVaapi
     \/ \E hold \in {0, 1} : DecodeLibrary(hold)
  /\ UNCHANGED <<encoder, capture, dKind>>

-----------------------------------------------------------------------------
VideoNext ==
  \/ Configure \/ RequestKeyframe \/ (\E size \in {"same", "larger", "smaller"} : NewBuffer(size)) \/ Encode
  \/ \E n \in 2 .. MaxTransit : SkipToSegment(n)
  \/ \E kind \in DecoderChoices : ConfigureDecoder(kind)
  \/ Decode

VideoSpec == VideoInit /\ [][VideoNext]_videoVars

\* A picture the VA-API decoder gives the sink has the pixels captured at its timestamp, unless
\* x264 delayed it, NVENC read the buffer of a recycled fd, or a unit of the same group failed
\* to decode (the worker then goes on predicting from what it has).
OnlyKnownCausesMislead ==
  (dKind = "vaapi" /\ dShown.label > 0 /\ ~dFailed /\ vKind \in {"nvenc", "vaapi"}
     /\ vCache \in {0, vBuffer} /\ vSize = "same") => dShown.src = dShown.label

\* The comment on frame_num: it "counts reference frames since last IDR".
FrameNumsFollow ==
  \A i \in 1 .. Len(vWire) - 1 :
    (vKind = "vaapi" /\ vHost.codec = "h264" /\ ~vWire[i + 1].idr) => vWire[i + 1].num = vWire[i].num + 1
=============================================================================
