----------------------------- MODULE Equalization -----------------------------
(***************************************************************************)
(* src/MultithreadImageProcessing/test_cpp/ImageProcessing.cpp: histogram  *)
(* equalization by threads, first one for each channel, then each on a     *)
(* strip of the image.  The intensity of a channel is a number of steps of *)
(* 1 / MAX_VALUE; the brightest, MAX_VALUE itself, has no element in the   *)
(* histogram.  Reading a pixel, changing a channel and writing the pixel   *)
(* is one step: no two strips have a pixel in common.                      *)
(***************************************************************************)
EXTENDS Integers, FiniteSets, FiniteSetsExt

CONSTANTS
  Width, Height,
  Channels,       \* an interval of numbers; 0 .. 2 in the code
  MAX_VALUE,      \* 65535
  IMAGE_THREADS,  \* MAX_THREADS, hardware_concurrency()
  Images,         \* what may be on the screen: at each pixel an intensity for each channel
  Memory          \* what histograms that nobody initializes may hold

Pixels == (0 .. Width - 1) \X (0 .. Height - 1)
Bins   == 0 .. MAX_VALUE - 1    \* of an array of MAX_VALUE elements
Intensities == 0 .. MAX_VALUE
Strips == 0 .. IMAGE_THREADS - 1

ASSUME ImageAssumption ==
  /\ Width \in Nat /\ Height \in Nat /\ MAX_VALUE \in Nat \ {0} /\ IMAGE_THREADS \in Nat \ {0}
  /\ IsFiniteSet(Channels) /\ Channels = 0 .. Cardinality(Channels) - 1
  /\ Images \subseteq [Pixels -> [Channels -> Intensities]]
  /\ Memory \subseteq [Channels -> [Bins -> Nat]]

VARIABLES
  image,
  hist,           \* for each channel
  counted,        \* for each channel, how many pixels its thread has counted
  cfh,            \* for each channel; empty before its thread has cumulated the histogram
  work,           \* for each strip, how many channels of pixels are done
  original        \* history: the image

imageVars == <<image, hist, counted, cfh, work, original>>

EqualizationInit ==
  /\ original \in Images
  /\ image = original
  /\ hist \in Memory
  /\ counted = [ch \in Channels |-> 0]
  /\ cfh = [ch \in Channels |-> <<>>]
  /\ work = [s \in Strips |-> 0]

-----------------------------------------------------------------------------
PixelAt(k) == <<k \div Height, k % Height>>

\* The element of the histograms, one behind the other, in which an intensity is counted.
ElementOf(ch, value) == IF value = MAX_VALUE THEN <<ch + 1, 0>> ELSE <<ch, value>>

\* Another thread has yet to increment the same element: it may have read it before, and then its
\* increment undoes this one.
Shared(ch, value) ==
  \E other \in Channels \ {ch} : \E k \in counted[other] .. Width * Height - 1 :
    ElementOf(other, image[PixelAt(k)][other]) = ElementOf(ch, value)

\* histogram[...]++ of calculateHistogram.  Behind the last element of a histogram is the first one
\* of the next channel; behind those of the last channel is something else, perhaps the first
\* element of cfh.
Increments(ch, value) ==
  \/ /\ value \in Bins
     /\ hist' = [hist EXCEPT ![ch][value] = @ + 1]
     /\ UNCHANGED cfh
  \/ /\ value = MAX_VALUE /\ ch + 1 \in Channels
     /\ hist' = [hist EXCEPT ![ch + 1][0] = @ + 1]
     /\ UNCHANGED cfh
  \/ /\ value = MAX_VALUE /\ ch + 1 \notin Channels
     /\ \/ UNCHANGED cfh
        \/ cfh[0] # <<>> /\ cfh' = [cfh EXCEPT ![0][0] = @ + 1]
     /\ UNCHANGED hist
  \/ Shared(ch, value) /\ UNCHANGED <<hist, cfh>>

\* The thread of a channel counts one pixel; the region is the whole image.
CountPixel(ch) ==
  /\ counted[ch] < Width * Height
  /\ Increments(ch, image[PixelAt(counted[ch])][ch])
  /\ counted' = [counted EXCEPT ![ch] = @ + 1]
  /\ UNCHANGED <<image, work, original>>

\* calculateCFH
Cumulated(histogram) == [i \in Bins |-> MapThenSumSet(LAMBDA j : histogram[j], 0 .. i)]

\* equalizeChannel, for one pixel
Equalized(value, c) == (c[(value * (MAX_VALUE - 1)) \div MAX_VALUE] * MAX_VALUE) \div (Width * Height)

CumulateHistogram(ch) ==
  /\ counted[ch] = Width * Height /\ cfh[ch] = <<>>
  /\ cfh' = [cfh EXCEPT ![ch] = Cumulated(hist[ch])]
  /\ UNCHANGED <<image, hist, counted, work, original>>

\* Defect: the last strip is as wide as the others.
EqualStrips(s) == Width \div IMAGE_THREADS

\* The last strip takes what the division leaves.
StripWidth(s) ==
  IF s < IMAGE_THREADS - 1 THEN Width \div IMAGE_THREADS ELSE Width - (Width \div IMAGE_THREADS) * s

\* The k-th thing a strip does: channel after channel, column after column.
Cell(s, k) ==
  LET area == StripWidth(s) * Height
      i    == k % area
  IN  [channel |-> k \div area,
       pixel   |-> <<(Width \div IMAGE_THREADS) * s + i \div Height, i % Height>>]

StripThread(s) ==
  /\ \A ch \in Channels : cfh[ch] # <<>>
  /\ work[s] < Cardinality(Channels) * StripWidth(s) * Height
  /\ LET c == Cell(s, work[s]) IN
       image' = [image EXCEPT ![c.pixel][c.channel] = Equalized(@, cfh[c.channel])]
  /\ work' = [work EXCEPT ![s] = @ + 1]
  /\ UNCHANGED <<hist, counted, cfh, original>>

EqualizationNext ==
  \/ \E ch \in Channels : CountPixel(ch) \/ CumulateHistogram(ch)
  \/ \E s \in Strips : StripThread(s)

EqualizationSpec == EqualizationInit /\ [][EqualizationNext]_imageVars

-----------------------------------------------------------------------------
Joined ==
  /\ \A ch \in Channels : cfh[ch] # <<>>
  /\ \A s \in Strips : work[s] = Cardinality(Channels) * StripWidth(s) * Height

\* doHistogramEqualization, whose arrays begin with zeros; what is counted behind the histogram does
\* not reach its cfh.
SingleThreaded(img) ==
  LET hists == [ch \in Channels |-> [i \in Bins |-> Cardinality({p \in Pixels : img[p][ch] = i})]]
  IN  [p \in Pixels |-> [ch \in Channels |-> Equalized(img[p][ch], Cumulated(hists[ch]))]]

\* When the threads have ended, every channel of every pixel has been equalized exactly once, from
\* its first value and with the one cfh of its channel, whatever the histograms held, however the
\* threads met, and also when there are more threads than columns
\* (doHistogramEqualizationMultithread).
EqualizedOnce ==
  Joined => image = [p \in Pixels |-> [ch \in Channels |-> Equalized(original[p][ch], cfh[ch])]]

\* "The result must be as identical to the base one as possible.  A difference of no more than half
\* a percent per pixel and channel is allowed."
AsSingleThreaded ==
  Joined => \A p \in Pixels, ch \in Channels :
    200 * (image[p][ch] - SingleThreaded(original)[p][ch]) \in -MAX_VALUE .. MAX_VALUE
===============================================================================
